---------------------------- MODULE ServerRequests ----------------------------
(***************************************************************************)
(* internal/mux/mux.go: requests that an app-server makes of the client    *)
(* (approvals, input).  Every app-server numbers its own, so the mux gives *)
(* each an id of its own and remembers whose it was; the inbound loop      *)
(* forwards requests while the stdin loop sends answers back.              *)
(***************************************************************************)
EXTENDS Naturals, FiniteSets

CONSTANTS
  Accounts,  \* one app-server each
  Originals, \* the ids app-servers give their requests
  MaxAsks    \* bound: requests made, hence m.serverSequence

ASSUME AskAssumption == MaxAsks \in Nat

Numbers == 1 .. MaxAsks

(* A request: who made it, under which id, and (history) its number.       *)
Asks == [account : Accounts, original : Originals, number : Numbers]

VARIABLES
  running,  \* the app-servers that run
  made,     \* how many requests were made
  open,     \* the requests their app-server waits for
  inbound,  \* the requests on their way to the inbound loop
  sequence, \* m.serverSequence
  routes,   \* m.serverRoutes: whose request is behind each id
  shown,    \* the requests the client has been sent, by that id
  answers   \* the answers on their way to an app-server

vars == <<running, made, open, inbound, sequence, routes, shown, answers>>

NewIds == [account : Accounts, seq : Numbers]
Entries == [id : NewIds, account : Accounts, original : Originals]
Shown == [id : NewIds, ask : Asks]
Answers == [account : Accounts, original : Originals, ask : Asks]

Init ==
  /\ running = Accounts
  /\ made = 0
  /\ open = {}
  /\ inbound = {}
  /\ sequence = 0
  /\ routes = {}
  /\ shown = {}
  /\ answers = {}

(* An app-server makes a request, under an id that it has not open.        *)
ChildAsks(a, o) ==
  /\ a \in running
  /\ made < MaxAsks
  /\ \A ask \in open : ask.account = a => ask.original # o
  /\ made' = made + 1
  /\ LET ask == [account |-> a, original |-> o, number |-> made']
     IN  open' = open \cup {ask} /\ inbound' = inbound \cup {ask}
  /\ UNCHANGED <<running, sequence, routes, shown, answers>>

(* Storing under an id replaces what was there.                            *)
Stored(table, id, a, o) ==
  {e \in table : e.id # id} \cup {[id |-> id, account |-> a, original |-> o]}

(* Seeded fault: the new id does not count, it repeats the app-server's.   *)
ForwardUncounted(ask) ==
  /\ ask \in inbound
  /\ inbound' = inbound \ {ask}
  /\ UNCHANGED sequence
  /\ LET id == [account |-> ask.account, seq |-> 1]
     IN  /\ routes' = Stored(routes, id, ask.account, ask.original)
         /\ shown' = shown \cup {[id |-> id, ask |-> ask]}
  /\ UNCHANGED <<running, made, open, answers>>

(* Seeded fault: the client is sent the request before it is remembered.   *)
ForwardUnremembered(ask) ==
  /\ ask \in inbound
  /\ sequence' = sequence + 1
  /\ LET id == [account |-> ask.account, seq |-> sequence']
         earlier == {s \in shown : s.ask = ask}
     IN  IF earlier = {}
           THEN shown' = shown \cup {[id |-> id, ask |-> ask]} /\ UNCHANGED <<inbound, routes>>
           ELSE /\ inbound' = inbound \ {ask}
                /\ \E s \in earlier : routes' = Stored(routes, s.id, ask.account, ask.original)
                /\ UNCHANGED shown
  /\ UNCHANGED <<running, made, open, answers>>

(* forwardServerRequest, for the message the inbound loop takes next; the  *)
(* counter never gets past the number of requests made.                    *)
ForwardServerRequest(ask) ==
  /\ ask \in inbound
  /\ sequence < MaxAsks
  /\ inbound' = inbound \ {ask}
  /\ sequence' = sequence + 1
  /\ LET id == [account |-> ask.account, seq |-> sequence']
     IN  /\ routes' = Stored(routes, id, ask.account, ask.original)
         /\ shown' = shown \cup {[id |-> id, ask |-> ask]}
  /\ UNCHANGED <<running, made, open, answers>>

(* Seeded fault: the route stays for a second answer.                      *)
AnswerKeepingRoute(s) ==
  /\ s \in shown
  /\ \E e \in routes :
       /\ e.id = s.id
       /\ answers' = IF e.account \in running
                       THEN answers \cup {[account |-> e.account, original |-> e.original, ask |-> s.ask]}
                       ELSE answers
  /\ UNCHANGED <<running, made, open, inbound, sequence, routes, shown>>

(* handleServerRequestResponse: the client answers, perhaps more than once;*)
(* only an answer with a route goes on, to the app-server and the id that  *)
(* the route names.                                                        *)
HandleServerRequestResponse(s) ==
  /\ s \in shown
  /\ \E e \in routes :
       /\ e.id = s.id
       /\ routes' = routes \ {e}
       /\ answers' = IF e.account \in running
                       THEN answers \cup {[account |-> e.account, original |-> e.original, ask |-> s.ask]}
                       ELSE answers
  /\ UNCHANGED <<running, made, open, inbound, sequence, shown>>

(* The app-server takes an answer for the request it has open under the id.*)
TakeAnswer(m) ==
  /\ m \in answers
  /\ answers' = answers \ {m}
  /\ open' = {ask \in open : ask.account # m.account \/ ask.original # m.original}
  /\ UNCHANGED <<running, made, inbound, sequence, routes, shown>>

(* An app-server exits; its routes stay.                                   *)
Exit(a) ==
  /\ a \in running
  /\ running' = running \ {a}
  /\ open' = {ask \in open : ask.account # a}
  /\ answers' = {m \in answers : m.account # a}
  /\ UNCHANGED <<made, inbound, sequence, routes, shown>>

Next ==
  \/ \E a \in Accounts : Exit(a) \/ \E o \in Originals : ChildAsks(a, o)
  \/ \E ask \in inbound : ForwardServerRequest(ask)
  \/ \E s \in shown : HandleServerRequestResponse(s)
  \/ \E m \in answers : TakeAnswer(m)

Spec == Init /\ [][Next]_vars
-----------------------------------------------------------------------------
(* Type correctness.                                                       *)
TypeOK ==
  /\ running \subseteq Accounts
  /\ made \in 0 .. MaxAsks
  /\ open \subseteq Asks
  /\ inbound \subseteq Asks
  /\ sequence \in 0 .. MaxAsks
  /\ routes \subseteq Entries
  /\ shown \subseteq Shown
  /\ answers \subseteq Answers

(* An answer goes to the app-server that made the request, under the id it *)
(* gave it, while that very request is open: it approves nothing else,     *)
(* although app-servers use the same ids and use them again.               *)
AnswerReachesAsker ==
  \A m \in answers :
    /\ m.account = m.ask.account
    /\ m.original = m.ask.original
    /\ m.ask \in open

(* A running app-server that waits is never waited for by nobody: its      *)
(* request is on its way to the client, with the client and routed, or its *)
(* answer is on its way back.                                              *)
NothingStranded ==
  \A ask \in open :
    \/ ask \in inbound
    \/ \E s \in shown, e \in routes :
         /\ s.ask = ask /\ e.id = s.id
         /\ e.account = ask.account /\ e.original = ask.original
    \/ \E m \in answers : m.ask = ask
=============================================================================
