------------------------------ MODULE Renderer -----------------------------
(***************************************************************************)
(* The renderer contracts (scripts/patch_common.py and                     *)
(* windows/renderer_26_901.py): how an extracted archive is recognised,    *)
(* audited and patched.  An extraction is a record x:                      *)
(*   index     whether webview/index.html is there; csp: its CSP anchors   *)
(*   initials, profiles: how many app-initial-*.js, profile-*.js there are *)
(*   known901  the initial bundle has the hash of a 26.901 binding         *)
(*   intact901 every other asset and anchor of that binding is as reviewed *)
(*   muxed     the bundle holds the account menu already                   *)
(*   n         n[b][a]: how often anchor a occurs as binding b spells it   *)
(* A count is 0, 1 or 2 for more.  Binding "seen" spells the counterparts  *)
(* observed in an acquired build, which are evidence only.                 *)
(***************************************************************************)
EXTENDS SourceGate

\* The eight fingerprints (_variant_fingerprints).
Finger == {"component", "server", "profileQuery", "usageModal", "resetQuery",
           "resetMutation", "usageSlot", "open"}

\* What each table of minified texts holds beside them: the anchors of one
\* binding, by the asset they are in.
CommonAnchors == [initial |-> Finger \cup {"usageWindow", "usageHeader", "mapping", "depleted"},
                  profile |-> {"avatar", "name", "identity"},
                  plugin  |-> {"plugin"},
                  thread  |-> {"thread", "summary"}]
With(more) == [CommonAnchors EXCEPT !.initial = @ \cup more]

\* _legacy_renderer_variant_values: two open-state hooks.
LegacyValues == With({"open2"})
\* _windows_26_820_renderer_values: the menu keeps its open state outside.
Values820 == With({"openKept"})
\* _windows_26_825_renderer_values and the second minifier binding.
Values825 == With({"openKept"})
Values6671 == With({"openKept"})

Binding == {"original", "6662", "820", "825", "6671"}
Spelling == Binding \cup {"seen"}
Anchor == UNION {LegacyValues[a] \cup Values820[a] : a \in DOMAIN CommonAnchors}

\* renderer_variant_template and the tables it picks from.
Values(b) == CASE b \in {"original", "6662"} -> LegacyValues
               [] b = "820" -> Values820
               [] b = "825" -> Values825
               [] OTHER -> Values6671

\* _renderer_contract_bindings; 26.901 has no table.
Bindings(c) == CASE c = "windows-26.820" -> {"820"}
                 [] c = "windows-26.825" -> {"825", "6671"}
                 [] c = "electron-6662" -> {"6662"}
                 [] c = "electron-original" -> {"original"}
                 [] OTHER -> {}

-----------------------------------------------------------------------------
(* Selection.                                                               *)

\* select_renderer_contract: the bindings of c that fit the bundle exactly;
\* one is the selection, none or several is an error.
Fits(x, c) ==
  IF c = "windows-26.901" THEN IF x.known901 THEN {"26.901"} ELSE {}
  ELSE {b \in Bindings(c) : \A f \in Finger : x.n[b][f] = 1}
Selected(x, c) == Cardinality(Fits(x, c)) = 1

\* detect_renderer_contract: of all contracts, whatever the package says.
Detected(x) == {c \in Contract : Selected(x, c)}

\* _renderer_variants, select_renderer_variant: the contracts bound to a
\* package by its metadata drop out when the package differs.
MetaField == {"package_name", "package_version", "app_asar_sha256"}
Bound(id, release) ==
  {c \in Contract \ {"windows-26.901"} :
     c \in DOMAIN release => \A f \in MetaField : id[f] \in {Unread, release[c][f]}}
Variants(x, id, release) == {c \in Bound(id, release) : Selected(x, c)}

-----------------------------------------------------------------------------
(* Audits.  An audit is the set of its rows, each a name and a status.      *)

\* _variant, _asset_with_anchor: the first spelling that occurs decides.
Status(current, renamed, semantic) ==
  CASE current = 1 -> "UNCHANGED"
    [] current = 0 /\ renamed = 1 -> "RENAMED"
    [] current = 0 /\ renamed = 0 /\ semantic = 1 -> "SEMANTICALLY_CHANGED"
    [] current = 0 /\ renamed = 0 /\ semantic = 0 -> "MISSING"
    [] OTHER -> "AMBIGUOUS"

\* _semantic_variant: the observed counterpart alone.
SemanticStatus(semantic) == Status(0, 0, semantic)

Csp(x) == <<"csp", IF x.csp = 1 THEN "UNCHANGED" ELSE "MISSING">>

\* Without exactly one profile asset its text is empty.
InProfile(x, b, a) == IF x.profiles = 1 THEN x.n[b][a] ELSE 0

\* _audit_windows_26_820: the exact anchors of the binding, all of them.
Audit820(x, b) ==
  LET v == Values(b)
  IN  {Csp(x)}
      \cup {<<a, Status(x.n[b][a], 0, 0)>> : a \in v.initial \cup v.plugin \cup v.thread}
      \cup {<<a, Status(InProfile(x, b, a), 0, 0)>> : a \in v.profile}

\* _audit_windows_26_825: the same rows over the 26.825 tables.
Audit825(x, b) == Audit820(x, b)

\* renderer_26_901.audit: hashes first, then anchors.
Audit901(x) ==
  {Csp(x), <<"assets", IF x.known901 /\ x.intact901 THEN "UNCHANGED" ELSE "CHANGED">>}

\* The historical renderers: the 6662 build may spell an anchor as the
\* original did, and a usage modal as observed elsewhere decides its row.
AuditLegacy(x, b) ==
  LET six == b = "6662"
      Row(a, n) == IF six THEN Status(n["original"], n["6662"], n["seen"])
                   ELSE Status(n[b], 0, n["seen"])
      Counts(a) == [s \in Spelling |-> IF a \in LegacyValues.profile THEN InProfile(x, s, a)
                                       ELSE x.n[s][a]]
      Moved(a) == IF six THEN Status(0, x.n["6662"][a], 0) ELSE Status(x.n[b][a], 0, 0)
  IN  {Csp(x)}
      \cup {<<a, Row(a, Counts(a))>> : a \in (LegacyValues.initial \ {"usageModal"})
                                              \cup LegacyValues.profile}
      \cup {<<"usageModal", IF x.n["seen"]["usageModal"] > 0
                            THEN SemanticStatus(x.n["seen"]["usageModal"])
                            ELSE Row("usageModal", Counts("usageModal"))>>}
      \cup {<<a, Moved(a)>> : a \in LegacyValues.plugin \cup {"thread"}}
      \cup {<<"summary", Status(x.n[b]["summary"], 0, 0)>>}

AuditOf(x, c) ==
  CASE c = "windows-26.901" -> Audit901(x)
    [] c = "windows-26.820" -> Audit820(x, "820")
    [] c = "windows-26.825" -> Audit825(x, CHOOSE b \in Fits(x, c) : TRUE)
    [] c = "electron-6662" -> AuditLegacy(x, "6662")
    [] OTHER -> AuditLegacy(x, "original")

Raised == {<<"contract", "RAISED">>}

\* audit_renderer_anchors: a reviewed contract is authoritative; without one
\* the package's metadata, then the bundle alone decide what is compared.
Audit(x, reviewed, id, release) ==
  LET chosen == IF Cardinality(Variants(x, id, release)) = 1 THEN Variants(x, id, release)
                ELSE Detected(x)
  IN  CASE reviewed = "windows-26.901" ->
             IF x.known901 /\ x.initials = 1 THEN Audit901(x) ELSE Raised
        [] reviewed # "windows-26.901" /\ ~x.index -> {<<"csp", "MISSING">>}
        [] reviewed # "windows-26.901" /\ x.index /\ x.initials # 1 -> {<<"bundle", "AMBIGUOUS">>}
        [] OTHER ->
             IF reviewed # "none"
             THEN IF Selected(x, reviewed) THEN AuditOf(x, reviewed) ELSE Raised
             ELSE IF Cardinality(chosen) > 1 THEN {<<"contract", "AMBIGUOUS">>}
             ELSE IF chosen = {}
             THEN AuditLegacy(x, IF x.n["6662"]["component"] > 0 THEN "6662" ELSE "original")
             ELSE AuditOf(x, CHOOSE c \in chosen : TRUE)

\* What stops a build: any of these in the audit, or the audit itself.
Failed(audit) ==
  \E row \in audit : row[2] \in {"MISSING", "SEMANTICALLY_CHANGED", "CHANGED",
                                 "AMBIGUOUS", "RAISED"}

-----------------------------------------------------------------------------
(* Patches.  A script is the order in which a patch writes the assets, each *)
(* with the anchors it requires to be unique before it writes.              *)

Step(asset, need) == [asset |-> asset, need |-> need]

\* _patch_windows_26_820_renderer.
Script820 ==
  <<Step("index", {"csp"}), Step("initial", Values820.initial \ {"openKept"}),
    Step("profile", Values820.profile), Step("plugin", Values820.plugin),
    Step("thread", Values820.thread)>>

\* _patch_windows_26_825_renderer: the same order over the 26.825 tables.
Script825 ==
  <<Step("index", {"csp"}), Step("initial", Values825.initial \ {"openKept"}),
    Step("profile", Values825.profile), Step("plugin", Values825.plugin),
    Step("thread", Values825.thread)>>

\* _patch_legacy_renderer: both open-state hooks, and the request mappings
\* are only looked at.
LegacyScript ==
  <<Step("index", {"csp"}), Step("initial", LegacyValues.initial),
    Step("profile", LegacyValues.profile), Step("plugin", LegacyValues.plugin),
    Step("thread", LegacyValues.thread)>>

\* renderer_26_901.patch: one audit, then every file; the primary bundle
\* takes the place of the profile host.
Script901 == <<Step("all", {})>>

\* What the assets of a whole patch are.
Assets == {"index", "initial", "profile", "plugin", "thread"}
Written(step) == IF step.asset = "all" THEN Assets ELSE {step.asset}

\* The requirements of one step: _require_unique, _require_asset, and that
\* the bundle holds no menu yet.
Requires(x, b, step) ==
  /\ step.asset = "initial" => x.initials = 1 /\ ~x.muxed
  /\ step.asset = "profile" => x.profiles = 1
  /\ \A a \in step.need : IF a = "csp" THEN x.csp = 1 ELSE x.n[b][a] = 1

\* patch_renderer: which script, over which binding; NoScript stands for its
\* errors before a file is written.
NoScript == [binding |-> "none", steps |-> <<>>]
Script(x, reviewed, id, release) ==
  LET pick == IF reviewed # "none" THEN {reviewed} \cap Detected(x) ELSE Variants(x, id, release)
  IN  IF Failed(Audit(x, reviewed, id, release)) \/ Cardinality(pick) # 1 THEN NoScript
      ELSE LET c == CHOOSE p \in pick : TRUE
           IN  [binding |-> CHOOSE b \in Fits(x, c) : TRUE,
                steps |-> CASE c = "windows-26.901" -> Script901
                            [] c = "windows-26.820" -> Script820
                            [] c = "windows-26.825" -> Script825
                            [] OTHER -> LegacyScript]

=============================================================================
