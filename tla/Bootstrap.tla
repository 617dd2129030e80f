----------------------------- MODULE Bootstrap -----------------------------
(***************************************************************************)
(* The main-process side of the patch (scripts/windows/bootstrap.py).  An  *)
(* extraction's startup code is a record s of counts (0, 1, 2 for more):   *)
(*   bundles, mains   bootstrap-*.js and main-*.js files                   *)
(*   exact, generic   userData hooks, in the known and in any other shape  *)
(*   updaters         initializers right before the main startup           *)
(*   startups         calls of runMainAppStartup; exports: its exports     *)
(* and of system (the module grammar), chain (package.json and             *)
(* early-bootstrap.js lead to it), bridge (the test bridge is at hand) and *)
(* cua (what the main bundle says of Computer Use).                        *)
(***************************************************************************)
EXTENDS Naturals

\* _single_bundle and _startup_chain_audit: entry, early bootstrap,
\* bootstrap, main and its one export, in a line.
ChainProven(s) == s.chain /\ s.startups = 1 /\ s.exports = 1

\* The hooks as audit_bootstrap counts them.
HookStatus(n) == CASE n = 1 -> "PASS" [] n = 0 -> "MISSING" [] OTHER -> "AMBIGUOUS"
ProfileHooks(s) == IF s.exact > 0 THEN s.exact ELSE s.generic
StaticHook(s) ==
  CASE s.startups > 1 -> "AMBIGUOUS"
    [] s.startups = 0 -> "MISSING"
    [] OTHER -> IF s.bridge /\ s.system = "commonjs" /\ ChainProven(s) THEN "PASS"
                ELSE "INCOMPATIBLE"

\* audit_bootstrap: every hook of the whole transformation.
BootstrapAudited(s) ==
  /\ s.bundles = 1 /\ s.mains = 1
  /\ ProfileHooks(s) = 1
  /\ HookStatus(s.updaters) = "PASS"
  /\ s.cua # "present"
  /\ StaticHook(s) = "PASS"

\* patch_bootstrap with the hooks that were asked for: one write at the end,
\* or an error before it.  The first of several updaters is taken.
BootstrapPatched(s, hooks) ==
  /\ s.bundles = 1 /\ s.mains = 1 /\ s.exact < 2
  /\ "userData" \in hooks => s.exact = 1 \/ s.generic = 1
  /\ "updater" \in hooks => s.updaters > 0
  /\ "bridge" \in hooks => s.startups = 1 /\ s.system = "commonjs" /\ s.exports = 1
=============================================================================
