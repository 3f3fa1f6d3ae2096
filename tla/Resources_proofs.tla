-------------------------- MODULE Resources_proofs --------------------------
(***************************************************************************)
(* Proofs about what requests and runs share: the token set of an OAuth    *)
(* provider (Credentials) and the toolsets and models a run opens          *)
(* (Lifecycle).                                                            *)
(*                                                                         *)
(* A refresh token is presented once and nobody waits for a flight that    *)
(* has landed, for any number of requests and processes.  Whatever fails   *)
(* to open or to close, resources are closed in the reverse order of their *)
(* opening, a run ends with all of them closed, and a model is asked while *)
(* it is open.                                                             *)
(***************************************************************************)
EXTENDS Credentials, Lifecycle, SequenceTheorems, FiniteSetTheorems, TLAPS

-----------------------------------------------------------------------------
(* Credentials *)


Resting == {"idle", "loading", "awaitLoad", "done", "failed"}
Flying  == {"source", "exchange", "save", "settle"}
Knowing == Flying \cup {"send", "enter", "awaitRefresh", "woken", "replay"}
Places  == Resting \cup Knowing \cup {"snapshot"}

Outcomes == {"none", "ok", "late", "failed", "unsaved"}
Purposes == {"none", "stale", "unauthorized"}
Locals   == [set : Nat, revision : Nat, failures : Nat, purpose : Purposes, stored : Nat,
             outcome : Outcomes]
Failures == [revision : Nat, err : {"none", "failed", "unsaved"}]

(* ---- updates of the variables of a request ------------------------------ *)

\* Two records agree on the fields no flight changes.
Alike(l, m) == l.revision = m.revision /\ l.purpose = m.purpose /\ l.failures = m.failures

\* One lemma for each field that an action changes.
LEMMA OutcomeMove ==
  ASSUME NEW f \in [Requests -> Locals], NEW r \in Requests, NEW o \in Outcomes,
         NEW g, g = [f EXCEPT ![r].outcome = o]
  PROVE  /\ g \in [Requests -> Locals] /\ \A q \in Requests \ {r} : g[q] = f[q]
         /\ g[r].outcome = o /\ g[r].set = f[r].set /\ g[r].stored = f[r].stored
         /\ Alike(g[r], f[r])
<1>1. f[r] \in Locals /\ [f[r] EXCEPT !.outcome = o] \in Locals
  BY DEF Locals
<1> QED  BY <1>1 DEF Locals, Alike

LEMMA SetMove ==
  ASSUME NEW f \in [Requests -> Locals], NEW r \in Requests, NEW n \in Nat,
         NEW g, g = [f EXCEPT ![r].set = n]
  PROVE  /\ g \in [Requests -> Locals] /\ \A q \in Requests \ {r} : g[q] = f[q]
         /\ g[r].set = n /\ g[r].outcome = f[r].outcome /\ g[r].stored = f[r].stored
         /\ Alike(g[r], f[r])
<1>1. f[r] \in Locals /\ [f[r] EXCEPT !.set = n] \in Locals
  BY DEF Locals
<1> QED  BY <1>1 DEF Locals, Alike

LEMMA StoredMove ==
  ASSUME NEW f \in [Requests -> Locals], NEW r \in Requests, NEW n \in Nat,
         NEW g, g = [f EXCEPT ![r].stored = n]
  PROVE  /\ g \in [Requests -> Locals] /\ \A q \in Requests \ {r} : g[q] = f[q]
         /\ g[r].stored = n /\ g[r].outcome = f[r].outcome /\ g[r].set = f[r].set
         /\ Alike(g[r], f[r])
<1>1. f[r] \in Locals /\ [f[r] EXCEPT !.stored = n] \in Locals
  BY DEF Locals
<1> QED  BY <1>1 DEF Locals, Alike

LEMMA PurposeMove ==
  ASSUME NEW f \in [Requests -> Locals], NEW r \in Requests,
         NEW g, g = [f EXCEPT ![r].purpose = "unauthorized"]
  PROVE  /\ g \in [Requests -> Locals] /\ \A q \in Requests \ {r} : g[q] = f[q]
         /\ g[r].purpose = "unauthorized" /\ g[r].outcome = f[r].outcome
         /\ g[r].set = f[r].set /\ g[r].stored = f[r].stored
         /\ g[r].revision = f[r].revision /\ g[r].failures = f[r].failures
<1>1. f[r] \in Locals /\ [f[r] EXCEPT !.purpose = "unauthorized"] \in Locals
  BY DEF Locals, Purposes
<1> QED  BY <1>1 DEF Locals

LEMMA FreshLocal == Fresh \in Locals /\ Fresh.set = 0 /\ Fresh.outcome = "none"
  BY DEF Fresh, Locals, Outcomes, Purposes

\* And one for a record put in place of another.
LEMMA RecordMove ==
  ASSUME NEW f \in [Requests -> Locals], NEW r \in Requests, NEW l \in Locals,
         NEW g, g = [f EXCEPT ![r] = l]
  PROVE  /\ g \in [Requests -> Locals] /\ \A q \in Requests \ {r} : g[q] = f[q]
         /\ g[r] = l
  OBVIOUS

(* ---- types ------------------------------------------------------------- *)

Types ==
    /\ issued \in Nat \ {0} /\ store \in 1..issued
    /\ spent \in SUBSET (1..issued) /\ expired \in SUBSET (1..issued)
    /\ held \in [Processes -> 0..issued]
    /\ revision \in [Processes -> Nat] /\ failureCount \in [Processes -> Nat]
    /\ lastFailure \in [Processes -> Failures]
    /\ loadFlight \in [Processes -> Requests \cup {Nobody}]
    /\ refreshFlight \in [Processes -> Requests \cup {Nobody}]
    /\ unsavedPredecessor \in [Processes -> Nat]
    /\ exchanged \in [Processes -> SUBSET (1..issued)]
    /\ at \in [Requests -> Places]
    /\ local \in [Requests -> Locals]

\* What a request that is under way knows of the set it uses.
Known ==
    \A r \in Requests :
        /\ at[r] \notin Resting => held[Process[r]] # 0
        /\ local[r].set <= issued
        /\ at[r] \in {"source", "exchange"} => local[r].set # 0
        /\ at[r] = "settle" => local[r].outcome \in {"ok", "failed", "unsaved"}

LEMMA ProcessOf == \A r \in Requests : Process[r] \in Processes
  BY DEF Processes

LEMMA TypesInit == Init => Types /\ Known
<1> SUFFICES ASSUME Init PROVE Types /\ Known
  OBVIOUS
<1>1. NoFailure \in Failures
  BY DEF NoFailure, Failures
<1>2. Types
  BY <1>1, FreshLocal DEF Init, Types, Places, Resting
<1>3. Known
  BY <1>2, FreshLocal DEF Init, Known, Types, Resting
<1> QED  BY <1>2, <1>3

\* Every step keeps the types: the leaves differ in which field of local they change.
LEMMA TypesNext == Types /\ Known /\ [Next]_vars => Types' /\ Known'
<1> SUFFICES ASSUME Types, Known, [Next]_vars PROVE Types' /\ Known'
  OBVIOUS
<1>t. local \in [Requests -> Locals] /\ store \in Nat /\ held \in [Processes -> Nat]
      /\ revision \in [Processes -> Nat] /\ failureCount \in [Processes -> Nat]
  BY DEF Types
<1> USE ProcessOf DEF Types, Known
<1>n. /\ NoFailure \in Failures
      /\ \A p \in Processes : lastFailure[p].err \in {"none", "failed", "unsaved"}
      /\ \A r \in Requests : local[r].outcome \in Outcomes /\ local[r].set \in Nat
                             /\ local[r].stored \in Nat /\ local[r].revision \in Nat
                             /\ local[r].purpose \in Purposes
  BY DEF NoFailure, Failures, Locals
<1>0. CASE UNCHANGED vars
  BY <1>0 DEF vars, provider, managed, flights
<1>1. CASE Expire
  BY <1>1 DEF Expire, managed, flights
<1>2. ASSUME NEW r \in Requests, Load(r) PROVE Types' /\ Known'
  <2>1. at' \in [Requests -> Places]
    BY <1>2 DEF Load, Goto, provider, Places, Resting
  <2>2. local' = local
    BY <1>2 DEF Load
  <2>3. Types'
    BY <1>2, <1>n, <2>1, <2>2, SMTT(30) DEF Load, Goto, provider
  <2>4. Known'
    BY <1>2, <1>n, <2>1, <2>2 DEF Load, Goto, provider, Resting
  <2> QED  BY <2>3, <2>4
<1>3. ASSUME NEW r \in Requests, Loaded(r) PROVE Types' /\ Known'
  <2>1. at' \in [Requests -> Places]
    BY <1>3 DEF Loaded, provider, Places, Resting
  <2>2. local' = local
    BY <1>3 DEF Loaded
  <2>3. Types'
    BY <1>3, <1>n, <2>1, <2>2 DEF Loaded, provider
  <2>4. Known'
    BY <1>3, <1>n, <2>1, <2>2 DEF Loaded, provider, Resting
  <2> QED  BY <2>3, <2>4
<1>4. ASSUME NEW r \in Requests, Snapshot(r) PROVE Types' /\ Known'
  <2>1. at' \in [Requests -> Places]
    BY <1>4
      DEF Snapshot, Goto, provider, managed, flights, Purposes, Places, Resting, Knowing, Flying
  <2>2. /\ local' \in [Requests -> Locals] /\ \A q \in Requests \ {r} : local'[q] = local[q]
        /\ local'[r].set = held[Process[r]]
    <3> DEFINE seen(u) == [set |-> held[Process[r]], revision |-> revision[Process[r]],
                           failures |-> failureCount[Process[r]], purpose |-> u, stored |-> 0,
                           outcome |-> "none"]
    <3>1. PICK u \in Purposes : local' = [local EXCEPT ![r] = seen(u)]
      BY <1>4, <1>n DEF Snapshot, Purposes
    <3> HIDE DEF Types, Known
    <3>2. seen(u) \in Locals /\ seen(u).set = held[Process[r]]
      BY <1>t DEF Locals, Outcomes
    <3> HIDE DEF seen
    <3> QED  BY <1>t, <3>1, <3>2, RecordMove
  <2>3. Types'
    BY <1>4, <1>n, <2>1, <2>2 DEF Snapshot, Goto, provider, managed, flights, Purposes
  <2>4. Known'
    BY <1>4, <1>n, <2>1, <2>2 DEF Snapshot, Goto, provider, managed, flights, Purposes, Resting
  <2> QED  BY <2>3, <2>4
<1>5. ASSUME NEW r \in Requests, Send(r) PROVE Types' /\ Known'
  <2>1. at' \in [Requests -> Places]
    BY <1>5 DEF Send, Goto, End, provider, managed, flights, Places, Resting, Knowing, Flying
  <2>2. /\ local' \in [Requests -> Locals] /\ \A q \in Requests \ {r} : local'[q] = local[q]
        /\ local'[r].set <= issued
    BY <1>5, <1>n, FreshLocal, PurposeMove, SMTT(30) DEF Send, Goto, End, provider, managed, flights
  <2>3. Types'
    BY <1>5, <1>n, <2>1, <2>2 DEF Send, Goto, End, provider, managed, flights
  <2>4. Known'
    BY <1>5, <1>n, <2>1, <2>2 DEF Send, Goto, End, provider, managed, flights, Resting
  <2> QED  BY <2>3, <2>4
<1>6. ASSUME NEW r \in Requests, EnterLate(r) PROVE Types' /\ Known'
  <2>1. at' \in [Requests -> Places]
    BY <1>6
      DEF EnterLate, SharedFailure, Goto, provider, managed, flights, Outcomes, Places,
          Resting, Knowing, Flying
  <2>2. /\ local' \in [Requests -> Locals] /\ \A q \in Requests \ {r} : local'[q] = local[q]
        /\ local'[r].set = local[r].set
    BY <1>6, <1>n, OutcomeMove, SMTT(30)
      DEF EnterLate, SharedFailure, Goto, provider, managed, flights, Outcomes
  <2>3. Types'
    BY <1>6, <1>n, <2>1, <2>2
      DEF EnterLate, SharedFailure, Goto, provider, managed, flights, Outcomes
  <2>4. Known'
    BY <1>6, <1>n, <2>1, <2>2
      DEF EnterLate, SharedFailure, Goto, provider, managed, flights, Outcomes, Resting
  <2> QED  BY <2>3, <2>4
<1>7. ASSUME NEW r \in Requests, Join(r) PROVE Types' /\ Known'
  <2>1. at' \in [Requests -> Places]
    BY <1>7
      DEF Join, Goto, provider, managed, flights, Outcomes, Places, Resting, Knowing, Flying
  <2>2. /\ local' \in [Requests -> Locals] /\ \A q \in Requests \ {r} : local'[q] = local[q]
        /\ local'[r].set = local[r].set
    <3>1. PICK o \in Outcomes : local' = [local EXCEPT ![r].outcome = o]
      BY <1>7 DEF Join, Outcomes
    <3> HIDE DEF Types, Known
    <3> QED  BY <1>t, <3>1, OutcomeMove
  <2>3. Types'
    BY <1>7, <1>n, <2>1, <2>2 DEF Join, Goto, provider, managed, flights, Outcomes
  <2>4. Known'
    BY <1>7, <1>n, <2>1, <2>2 DEF Join, Goto, provider, managed, flights, Outcomes, Resting
  <2> QED  BY <2>3, <2>4
<1>8. ASSUME NEW r \in Requests, TakeOff(r) PROVE Types' /\ Known'
  <2>1. at' \in [Requests -> Places]
    BY <1>8 DEF TakeOff, Goto, provider, Places, Resting, Knowing, Flying
  <2>2. /\ local' \in [Requests -> Locals] /\ \A q \in Requests \ {r} : local'[q] = local[q]
        /\ local'[r].set = held[Process[r]]
    <3> HIDE DEF Types, Known
    <3>1. local' = [local EXCEPT ![r].set = held[Process[r]]] /\ held[Process[r]] \in Nat
      BY <1>8, <1>t DEF TakeOff
    <3> QED  BY <1>t, <3>1, SetMove
  <2>3. Types'
    BY <1>8, <1>n, <2>1, <2>2 DEF TakeOff, Goto, provider
  <2>4. Known'
    BY <1>8, <1>n, <2>1, <2>2 DEF TakeOff, Goto, provider, Resting
  <2> QED  BY <2>3, <2>4
<1>9. ASSUME NEW r \in Requests, LoadStored(r) PROVE Types' /\ Known'
  <2>1. at' \in [Requests -> Places]
    BY <1>9
      DEF LoadStored, Land, Replace, Goto, provider, flights, Outcomes, Places, Resting,
          Knowing, Flying
  <2>2. /\ local' \in [Requests -> Locals] /\ \A q \in Requests \ {r} : local'[q] = local[q]
        /\ local'[r].set = local[r].set
        /\ at'[r] = "settle" => local'[r].outcome \in {"ok", "failed"}
    <3>1. CASE at'[r] = "settle"
      <4>1. PICK o \in {"ok", "failed"} : local' = [local EXCEPT ![r].outcome = o]
        BY <1>9, <3>1 DEF LoadStored, Land, Goto
      <4> HIDE DEF Types, Known
      <4> QED  BY <1>t, <4>1, OutcomeMove DEF Outcomes
    <3>2. CASE at'[r] # "settle"
      <4>1. local' = [local EXCEPT ![r].stored = store]
        BY <1>9, <3>2 DEF LoadStored, Land, Goto
      <4> HIDE DEF Types, Known
      <4> QED  BY <1>t, <3>2, <4>1, StoredMove, SMTT(30)
    <3> QED  BY <3>1, <3>2
  <2>t. /\ held' \in [Processes -> 0..issued] /\ revision' \in [Processes -> Nat]
        /\ lastFailure' \in [Processes -> Failures]
        /\ unsavedPredecessor' \in [Processes -> Nat]
    <3>1. \/ UNCHANGED <<held, revision, lastFailure, unsavedPredecessor>>
          \/ Replace(Process[r], store) /\ unsavedPredecessor' =
                [unsavedPredecessor EXCEPT ![Process[r]] = 0]
      BY <1>9 DEF LoadStored
    <3>2. CASE UNCHANGED <<held, revision, lastFailure, unsavedPredecessor>>
      BY <3>2
    <3>3. CASE Replace(Process[r], store) /\ unsavedPredecessor' =
                [unsavedPredecessor EXCEPT ![Process[r]] = 0]
      BY <1>n, <3>3 DEF Replace
    <3> QED  BY <3>1, <3>2, <3>3
  <2>3. Types'
    BY <1>9, <2>1, <2>2, <2>t DEF LoadStored, provider, flights
  <2>4. Known'
    BY <1>9, <1>n, <2>1, <2>2, SMTT(30)
      DEF LoadStored, Land, Replace, Goto, provider, flights, Outcomes, Resting
  <2> QED  BY <2>3, <2>4
<1>10. ASSUME NEW r \in Requests, Exchange(r) PROVE Types' /\ Known'
  <2>1. at' \in [Requests -> Places]
    BY <1>10
      DEF Exchange, Land, Replace, Goto, flights, Outcomes, Places, Resting, Knowing, Flying
  <2>2. /\ local' \in [Requests -> Locals] /\ \A q \in Requests \ {r} : local'[q] = local[q]
        /\ local'[r].set = local[r].set
        /\ at'[r] = "settle" => local'[r].outcome = "failed"
    BY <1>10, <1>n, OutcomeMove, SMTT(30) DEF Exchange, Land, Replace, Goto, flights, Outcomes
  <2>t. /\ issued' \in Nat \ {0} /\ issued <= issued'
        /\ held' \in [Processes -> 0..issued'] /\ revision' \in [Processes -> Nat]
        /\ lastFailure' \in [Processes -> Failures]
    BY <1>10, <1>n, SMTT(30) DEF Exchange, Replace
  <2>u. local[r].set \in 1..issued
    BY <1>10, <1>n DEF Exchange
  <2>v. spent' \in SUBSET (1..issued') /\ expired' \in SUBSET (1..issued')
    BY <1>10, <2>t, <2>u DEF Exchange
  <2>w. exchanged' \in [Processes -> SUBSET (1..issued')]
    BY <1>10, <2>t, <2>u, SMTT(30) DEF Exchange
  <2>3. Types'
    BY <1>10, <2>1, <2>2, <2>t, <2>v, <2>w DEF Exchange, flights
  <2>4. Known'
    BY <1>10, <1>n, <2>1, <2>2 DEF Exchange, Land, Replace, Goto, flights, Outcomes, Resting
  <2> QED  BY <2>3, <2>4
<1>11. ASSUME NEW r \in Requests, Save(r) PROVE Types' /\ Known'
  <2>1. at' \in [Requests -> Places]
    BY <1>11 DEF Save, Land, Goto, flights, Outcomes, Places, Resting, Knowing, Flying
  <2>2. /\ local' \in [Requests -> Locals] /\ \A q \in Requests \ {r} : local'[q] = local[q]
        /\ local'[r].set = local[r].set
        /\ local'[r].outcome \in {"ok", "unsaved"}
    <3>1. PICK o \in {"ok", "unsaved"} : local' = [local EXCEPT ![r].outcome = o]
      BY <1>11 DEF Save, Land
    <3> HIDE DEF Types, Known
    <3> QED  BY <1>t, <3>1, OutcomeMove DEF Outcomes
  <2>t. store' \in 1..issued /\ unsavedPredecessor' \in [Processes -> Nat]
    BY <1>11, <1>n DEF Save, Resting
  <2>3. Types'
    BY <1>11, <2>1, <2>2, <2>t DEF Save, flights
  <2>4. Known'
    BY <1>11, <1>n, <2>1, <2>2 DEF Save, Land, Goto, flights, Outcomes, Resting
  <2> QED  BY <2>3, <2>4
<1>12. ASSUME NEW r \in Requests, Settle(r) PROVE Types' /\ Known'
  <2>0. \A q \in Requests : \A o \in Outcomes :
           /\ [local[q] EXCEPT !.outcome = o] \in Locals
           /\ [local[q] EXCEPT !.outcome = o].set = local[q].set
    BY DEF Locals
  <2>1. at' \in [Requests -> Places]
    BY <1>12 DEF Settle, Release, Places, Knowing
  <2>2. /\ local' \in [Requests -> Locals]
        /\ \A q \in Requests : local'[q].set = local[q].set
    <3>1. \A q \in Requests : Shared(q, local[r].outcome) \in Outcomes
      BY <1>n DEF Shared, Outcomes
    <3> QED  BY <1>12, <2>0, <3>1 DEF Settle, Release
  <2>3. lastFailure' \in [Processes -> Failures] /\ failureCount' \in [Processes -> Nat]
    BY <1>12, <1>n DEF Settle, Release, Failures
  <2>4. Types'
    BY <1>12, <2>1, <2>2, <2>3 DEF Settle, Release, provider
  <2>5. Known'
    BY <1>12, <2>1, <2>2 DEF Settle, Release, Joined, Resting, provider
  <2> QED  BY <2>4, <2>5
<1>13. ASSUME NEW r \in Requests, Continue(r) PROVE Types' /\ Known'
  <2>1. at' \in [Requests -> Places]
    BY <1>13
      DEF Continue, Goto, End, provider, managed, flights, Places, Resting, Knowing, Flying
  <2>2. /\ local' \in [Requests -> Locals] /\ \A q \in Requests \ {r} : local'[q] = local[q]
        /\ local'[r].set <= issued
    BY <1>13, <1>n, FreshLocal DEF Continue, Goto, End, provider, managed, flights
  <2>3. Types'
    BY <1>13, <1>n, <2>1, <2>2 DEF Continue, Goto, End, provider, managed, flights
  <2>4. Known'
    BY <1>13, <1>n, <2>1, <2>2 DEF Continue, Goto, End, provider, managed, flights, Resting
  <2> QED  BY <2>3, <2>4
<1>14. ASSUME NEW r \in Requests, Replay(r) PROVE Types' /\ Known'
  <2>1. at' \in [Requests -> Places]
    BY <1>14 DEF Replay, Goto, End, provider, managed, flights, Places, Resting, Knowing, Flying
  <2>2. /\ local' \in [Requests -> Locals] /\ \A q \in Requests \ {r} : local'[q] = local[q]
        /\ local'[r].set <= issued
    BY <1>14, <1>n, FreshLocal DEF Replay, Goto, End, provider, managed, flights
  <2>3. Types'
    BY <1>14, <1>n, <2>1, <2>2 DEF Replay, Goto, End, provider, managed, flights
  <2>4. Known'
    BY <1>14, <1>n, <2>1, <2>2 DEF Replay, Goto, End, provider, managed, flights, Resting
  <2> QED  BY <2>3, <2>4
<1>15. ASSUME NEW r \in Requests, GiveUpWaiting(r) PROVE Types' /\ Known'
  <2>1. at' \in [Requests -> Places]
    BY <1>15
      DEF GiveUpWaiting, Goto, End, provider, managed, flights, Places, Resting, Knowing, Flying
  <2>2. /\ local' \in [Requests -> Locals] /\ \A q \in Requests \ {r} : local'[q] = local[q]
        /\ local'[r].set <= issued
    BY <1>15, <1>n, FreshLocal DEF GiveUpWaiting, Goto, End, provider, managed, flights
  <2>3. Types'
    BY <1>15, <1>n, <2>1, <2>2 DEF GiveUpWaiting, Goto, End, provider, managed, flights
  <2>4. Known'
    BY <1>15, <1>n, <2>1, <2>2 DEF GiveUpWaiting, Goto, End, provider, managed, flights, Resting
  <2> QED  BY <2>3, <2>4
<1> QED
  BY <1>0, <1>1, <1>2, <1>3, <1>4, <1>5, <1>6, <1>7, <1>8, <1>9, <1>10, <1>11, <1>12, <1>13,
        <1>14, <1>15 DEF Next, Step

(* ---- flights ------------------------------------------------------------ *)

\* One request at most loads for a process, and one refreshes; nobody waits for neither.
Owned ==
    /\ \A r \in Requests :
         /\ at[r] = "loading" => loadFlight[Process[r]] = r /\ held[Process[r]] = 0
         /\ at[r] \in Flying => refreshFlight[Process[r]] = r
    /\ \A p \in Processes : LET owner == refreshFlight[p] IN
         owner # Nobody => Process[owner] = p /\ at[owner] \in Flying
    /\ WaitsForFlight

LEMMA OwnedInit == Init => Owned
  BY ProcessOf DEF Init, Owned, WaitsForFlight, Flying

\* Flights change hands in Load, Loaded, TakeOff and Settle only.
LEMMA OwnedNext == Types /\ Known /\ Owned /\ [Next]_vars => Owned'
<1> SUFFICES ASSUME Types, Known, Owned, [Next]_vars PROVE Owned'
  OBVIOUS
<1>t. /\ loadFlight \in [Processes -> Requests \cup {Nobody}]
      /\ refreshFlight \in [Processes -> Requests \cup {Nobody}]
      /\ held \in [Processes -> Nat] /\ at \in [Requests -> Places]
      /\ store \in Nat \ {0} /\ issued \in Nat
      /\ \A r \in Requests : at[r] \notin Resting => held[Process[r]] # 0
  BY DEF Types, Known
<1> USE ProcessOf, RequestsAssumption, <1>t DEF Owned, WaitsForFlight, Flying, Resting
<1>0. CASE UNCHANGED vars
  BY <1>0 DEF vars, provider, managed, flights
<1>1. CASE Expire
  BY <1>1 DEF Expire, managed, flights
<1>2. ASSUME NEW r \in Requests, Load(r) PROVE Owned'
  BY <1>2 DEF Load, Goto, provider
<1>3. ASSUME NEW r \in Requests, Loaded(r) PROVE Owned'
  BY <1>3 DEF Loaded, provider
<1>4. ASSUME NEW r \in Requests, Snapshot(r) PROVE Owned'
  BY <1>4 DEF Snapshot, Goto, provider, managed, flights
<1>5. ASSUME NEW r \in Requests, Send(r) PROVE Owned'
  BY <1>5 DEF Send, Goto, End, provider, managed, flights
<1>6. ASSUME NEW r \in Requests, EnterLate(r) PROVE Owned'
  BY <1>6 DEF EnterLate, Goto, provider, managed, flights
<1>7. ASSUME NEW r \in Requests, Join(r) PROVE Owned'
  BY <1>7 DEF Join, Goto, provider, managed, flights
<1>8. ASSUME NEW r \in Requests, TakeOff(r) PROVE Owned'
  BY <1>8 DEF TakeOff, Goto, provider
<1>9. ASSUME NEW r \in Requests, LoadStored(r) PROVE Owned'
  BY <1>9 DEF LoadStored, Land, Replace, Goto, provider, flights
<1>10. ASSUME NEW r \in Requests, Exchange(r) PROVE Owned'
  BY <1>10 DEF Exchange, Land, Replace, Goto, flights
<1>11. ASSUME NEW r \in Requests, Save(r) PROVE Owned'
  BY <1>11 DEF Save, Land, Goto, flights
<1>12. ASSUME NEW r \in Requests, Settle(r) PROVE Owned'
  BY <1>12 DEF Settle, Release, Joined, provider
<1>13. ASSUME NEW r \in Requests, Continue(r) PROVE Owned'
  BY <1>13 DEF Continue, Goto, End, provider, managed, flights
<1>14. ASSUME NEW r \in Requests, Replay(r) PROVE Owned'
  BY <1>14 DEF Replay, Goto, End, provider, managed, flights
<1>15. ASSUME NEW r \in Requests, GiveUpWaiting(r) PROVE Owned'
  BY <1>15 DEF GiveUpWaiting, Goto, End, provider, managed, flights
<1> QED
  BY <1>0, <1>1, <1>2, <1>3, <1>4, <1>5, <1>6, <1>7, <1>8, <1>9, <1>10, <1>11, <1>12, <1>13,
        <1>14, <1>15 DEF Next, Step

(* ---- what an action does to the variables of its request ---------------- *)

Others(r) == \A q \in Requests \ {r} : local'[q] = local[q] /\ at'[q] = at[q]

Keeps(r) == local'[r].set = local[r].set /\ local'[r].revision = local[r].revision

\* One lemma for each action: where its request goes, and what it then knows.
LEMMA SnapshotLocal ==
  ASSUME Types, NEW r \in Requests, Snapshot(r)
  PROVE  /\ Others(r) /\ at[r] = "snapshot" /\ at'[r] \in {"send", "enter"}
         /\ local'[r].set = held[Process[r]] /\ local'[r].revision = revision[Process[r]]
         /\ local'[r].stored = 0
<1> DEFINE seen(u) == [set |-> held[Process[r]], revision |-> revision[Process[r]],
                       failures |-> failureCount[Process[r]], purpose |-> u, stored |-> 0,
                       outcome |-> "none"]
<1>1. /\ Process[r] \in Processes /\ local \in [Requests -> Locals]
      /\ at \in [Requests -> Places] /\ held \in [Processes -> Nat]
      /\ revision \in [Processes -> Nat] /\ failureCount \in [Processes -> Nat]
  BY ProcessOf DEF Types
<1>2. PICK u \in Purposes : local' = [local EXCEPT ![r] = seen(u)]
  BY <1>1 DEF Snapshot, Purposes, Locals
<1>3. /\ seen(u) \in Locals /\ seen(u).set = held[Process[r]]
      /\ seen(u).revision = revision[Process[r]] /\ seen(u).stored = 0
  BY <1>1 DEF Locals, Outcomes
<1> HIDE DEF seen
<1>4. local'[r] = seen(u) /\ \A q \in Requests \ {r} : local'[q] = local[q]
  BY <1>1, <1>2, <1>3, RecordMove
<1>5. /\ at[r] = "snapshot" /\ at'[r] \in {"send", "enter"}
      /\ \A q \in Requests \ {r} : at'[q] = at[q]
  BY <1>1 DEF Snapshot, Goto
<1> QED  BY <1>3, <1>4, <1>5 DEF Others

LEMMA SendLocal ==
  ASSUME Types, NEW r \in Requests, Send(r)
  PROVE  /\ Others(r) /\ at[r] = "send"
         /\ at'[r] = "done" \/ (at'[r] = "enter" /\ Keeps(r))
<1>1. local \in [Requests -> Locals] /\ at \in [Requests -> Places]
  BY DEF Types
<1>2. CASE local[r].set \in expired
  <2>1. local' = [local EXCEPT ![r].purpose = "unauthorized"] /\ Goto(r, "enter")
        /\ at[r] = "send"
    BY <1>2 DEF Send
  <2> QED  BY <1>1, <2>1, PurposeMove DEF Others, Keeps, Goto
<1>3. CASE local[r].set \notin expired
  <2>1. local' = [local EXCEPT ![r] = Fresh] /\ Goto(r, "done") /\ at[r] = "send"
    BY <1>3 DEF Send, End
  <2> QED  BY <1>1, <2>1, RecordMove, FreshLocal DEF Others, Goto
<1> QED  BY <1>2, <1>3

LEMMA EnterLateLocal ==
  ASSUME Types, NEW r \in Requests, EnterLate(r)
  PROVE  /\ Others(r) /\ Keeps(r) /\ at[r] = "enter" /\ at'[r] = "woken"
         /\ local'[r].outcome # "late"
         /\ local'[r].outcome = "ok" => revision[Process[r]] # local[r].revision
<1>1. /\ local \in [Requests -> Locals] /\ at \in [Requests -> Places]
      /\ lastFailure[Process[r]].err \in {"none", "failed", "unsaved"}
  BY ProcessOf DEF Types, Failures
<1>2. PICK o \in Outcomes \ {"late"} :
        /\ local' = [local EXCEPT ![r].outcome = o]
        /\ o = "ok" => revision[Process[r]] # local[r].revision
  BY <1>1 DEF EnterLate, Outcomes
<1>3. at[r] = "enter" /\ Goto(r, "woken")
  BY DEF EnterLate
<1> QED  BY <1>1, <1>2, <1>3, OutcomeMove DEF Others, Keeps, Goto, Alike

LEMMA JoinLocal ==
  ASSUME Types, NEW r \in Requests, Join(r)
  PROVE  /\ Others(r) /\ Keeps(r) /\ at[r] = "enter" /\ at'[r] = "awaitRefresh"
         /\ local'[r].outcome \in {"none", "late"}
         /\ local'[r].outcome = "none" =>
              local[refreshFlight[Process[r]]].revision = local[r].revision
<1>1. local \in [Requests -> Locals] /\ at \in [Requests -> Places]
  BY DEF Types
<1>2. PICK o \in {"none", "late"} :
        /\ local' = [local EXCEPT ![r].outcome = o]
        /\ o = "none" => local[refreshFlight[Process[r]]].revision = local[r].revision
  BY DEF Join
<1>3. at[r] = "enter" /\ Goto(r, "awaitRefresh") /\ o \in Outcomes
  BY DEF Join, Outcomes
<1> QED  BY <1>1, <1>2, <1>3, OutcomeMove DEF Others, Keeps, Goto, Alike

LEMMA TakeOffLocal ==
  ASSUME Types, NEW r \in Requests, TakeOff(r)
  PROVE  /\ Others(r) /\ at[r] = "enter" /\ at'[r] = "source"
         /\ local'[r].set = held[Process[r]] /\ local'[r].revision = local[r].revision
         /\ revision[Process[r]] = local[r].revision
<1>1. /\ local \in [Requests -> Locals] /\ at \in [Requests -> Places]
      /\ held[Process[r]] \in Nat
  BY ProcessOf DEF Types
<1>2. /\ local' = [local EXCEPT ![r].set = held[Process[r]]]
      /\ at[r] = "enter" /\ Goto(r, "source") /\ revision[Process[r]] = local[r].revision
  BY DEF TakeOff
<1> QED  BY <1>1, <1>2, SetMove DEF Others, Goto, Alike

LEMMA LoadStoredLocal ==
  ASSUME Types, NEW r \in Requests, LoadStored(r)
  PROVE  /\ Others(r) /\ Keeps(r) /\ at[r] = "source"
         /\ \/ at'[r] = "settle" /\ local'[r].outcome = "failed" /\ UNCHANGED <<held, revision>>
            \/ /\ at'[r] = "settle" /\ local'[r].outcome = "ok"
               /\ Adoptable(Process[r], store, local[r].set) /\ Replace(Process[r], store)
            \/ at'[r] = "exchange" /\ local'[r].stored = store /\ UNCHANGED <<held, revision>>
<1>1. local \in [Requests -> Locals] /\ at \in [Requests -> Places] /\ store \in Nat
  BY DEF Types
<1>2. /\ at[r] = "source"
      /\ \/ Land(r, "failed") /\ UNCHANGED <<held, revision>>
         \/ /\ Land(r, "ok")
            /\ Adoptable(Process[r], store, local[r].set) /\ Replace(Process[r], store)
         \/ /\ local' = [local EXCEPT ![r].stored = store] /\ Goto(r, "exchange")
            /\ UNCHANGED <<held, revision>>
  BY DEF LoadStored
<1>3. CASE Land(r, "failed") /\ UNCHANGED <<held, revision>>
  BY <1>1, <1>2, <1>3, OutcomeMove DEF Land, Outcomes, Others, Keeps, Goto, Alike
<1>4. CASE /\ Land(r, "ok")
           /\ Adoptable(Process[r], store, local[r].set) /\ Replace(Process[r], store)
  BY <1>1, <1>2, <1>4, OutcomeMove DEF Land, Outcomes, Others, Keeps, Goto, Alike
<1>5. CASE /\ local' = [local EXCEPT ![r].stored = store] /\ Goto(r, "exchange")
           /\ UNCHANGED <<held, revision>>
  BY <1>1, <1>2, <1>5, StoredMove DEF Others, Keeps, Goto, Alike
<1> QED  BY <1>2, <1>3, <1>4, <1>5

LEMMA ExchangeLocal ==
  ASSUME Types, NEW r \in Requests, Exchange(r)
  PROVE  /\ Others(r) /\ Keeps(r) /\ at[r] = "exchange"
         /\ \/ /\ at'[r] = "settle" /\ local'[r].outcome = "failed"
               /\ UNCHANGED <<issued, held, revision, exchanged>>
            \/ at'[r] = "save" /\ local' = local
<1>1. local \in [Requests -> Locals] /\ at \in [Requests -> Places]
  BY DEF Types
<1>2. /\ at[r] = "exchange"
      /\ \/ Land(r, "failed") /\ UNCHANGED <<issued, held, revision, exchanged>>
         \/ Goto(r, "save") /\ UNCHANGED local
  BY DEF Exchange
<1>3. CASE Land(r, "failed") /\ UNCHANGED <<issued, held, revision, exchanged>>
  BY <1>1, <1>2, <1>3, OutcomeMove DEF Land, Outcomes, Others, Keeps, Goto, Alike
<1>4. CASE Goto(r, "save") /\ UNCHANGED local
  BY <1>1, <1>2, <1>4 DEF Others, Keeps, Goto
<1> QED  BY <1>2, <1>3, <1>4

LEMMA SaveLocal ==
  ASSUME Types, NEW r \in Requests, Save(r)
  PROVE  /\ Others(r) /\ Keeps(r) /\ at[r] = "save" /\ at'[r] = "settle"
         /\ local'[r].outcome \in {"ok", "unsaved"}
<1>1. local \in [Requests -> Locals] /\ at \in [Requests -> Places]
  BY DEF Types
<1>2. PICK o \in {"ok", "unsaved"} : Land(r, o) /\ at[r] = "save"
  BY DEF Save
<1>3. o \in Outcomes
  BY DEF Outcomes
<1> QED  BY <1>1, <1>2, <1>3, OutcomeMove DEF Land, Others, Keeps, Goto, Alike

LEMMA SettleLocal ==
  ASSUME Types, NEW r \in Requests, Settle(r)
  PROVE  /\ at[r] = "settle"
         /\ \A q \in Requests : Keeps(q) /\ local'[q].stored = local[q].stored
         /\ \A q \in Joined(r) : local'[q].outcome = Shared(q, local[r].outcome)
         /\ \A q \in Requests \ Joined(r) : local'[q] = local[q]
         /\ \A q \in Requests :
              at'[q] = IF q = r \/ q \in Joined(r) THEN "woken" ELSE at[q]
<1>1. /\ local \in [Requests -> Locals] /\ at \in [Requests -> Places]
      /\ \A q \in Requests : Shared(q, local[r].outcome) \in Outcomes
  BY DEF Types, Shared, Locals, Outcomes
<1>2. \A q \in Requests, o \in Outcomes :
        LET l == [local[q] EXCEPT !.outcome = o]
        IN  l.outcome = o /\ l.set = local[q].set /\ l.revision = local[q].revision
            /\ l.stored = local[q].stored
  BY <1>1 DEF Locals
<1>3. \A q \in Requests :
        /\ q \in Joined(r) =>
             local'[q] = [local[q] EXCEPT !.outcome = Shared(q, local[r].outcome)]
        /\ q \notin Joined(r) => local'[q] = local[q]
        /\ at'[q] = IF q \in {r} \cup Joined(r) THEN "woken" ELSE at[q]
  BY <1>1 DEF Settle, Release
<1>4. at[r] = "settle" /\ Joined(r) \subseteq Requests
  BY DEF Settle, Release, Joined
<1>5. \A q \in Joined(r) : /\ local'[q].outcome = Shared(q, local[r].outcome)
                          /\ Keeps(q) /\ local'[q].stored = local[q].stored
  <2> SUFFICES ASSUME NEW q \in Joined(r)
               PROVE  /\ local'[q].outcome = Shared(q, local[r].outcome)
                      /\ Keeps(q) /\ local'[q].stored = local[q].stored
    OBVIOUS
  <2>1. q \in Requests /\ Shared(q, local[r].outcome) \in Outcomes
    BY <1>1, <1>4
  <2>2. local'[q] = [local[q] EXCEPT !.outcome = Shared(q, local[r].outcome)]
    BY <1>3, <2>1
  <2> QED  BY <1>2, <2>1, <2>2 DEF Keeps
<1>6. \A q \in Requests \ Joined(r) : /\ local'[q] = local[q]
                                     /\ Keeps(q) /\ local'[q].stored = local[q].stored
  BY <1>3 DEF Keeps
<1> QED  BY <1>3, <1>4, <1>5, <1>6

LEMMA ContinueLocal ==
  ASSUME Types, NEW r \in Requests, Continue(r)
  PROVE  /\ Others(r) /\ at[r] = "woken"
         /\ \/ at'[r] \in {"failed", "snapshot"}
            \/ at'[r] = "replay" /\ local' = local /\ local[r].outcome \in {"ok", "late"}
<1>1. local \in [Requests -> Locals] /\ at \in [Requests -> Places]
  BY DEF Types
<1>2. /\ at[r] = "woken"
      /\ \/ Goto(r, "snapshot") /\ local' = local
         \/ Goto(r, "replay") /\ local' = local /\ local[r].outcome \in {"ok", "late"}
         \/ Goto(r, "failed") /\ local' = [local EXCEPT ![r] = Fresh]
  BY DEF Continue, End
<1> QED  BY <1>1, <1>2, RecordMove, FreshLocal DEF Others, Goto

LEMMA EndLocal ==
  ASSUME Types, NEW r \in Requests, Replay(r) \/ GiveUpWaiting(r)
  PROVE  /\ Others(r) /\ at[r] \in {"replay", "awaitLoad", "awaitRefresh"}
         /\ at'[r] \in {"done", "failed"}
<1>1. local \in [Requests -> Locals] /\ at \in [Requests -> Places]
  BY DEF Types
<1>2. /\ at[r] \in {"replay", "awaitLoad", "awaitRefresh"}
      /\ local' = [local EXCEPT ![r] = Fresh] /\ (Goto(r, "done") \/ Goto(r, "failed"))
  BY DEF Replay, GiveUpWaiting, End
<1> QED  BY <1>1, <1>2, RecordMove, FreshLocal DEF Others, Goto

(* ---- credential sets ----------------------------------------------------- *)

\* The set a process holds is one it has not exchanged, and what it refreshes.
Unspent ==
    /\ \A p \in Processes :
         held[p] \notin exchanged[p] /\ (held[p] = 0 => exchanged[p] = {})
    /\ \A r \in Requests :
         at[r] \in {"source", "exchange"} => local[r].set = held[Process[r]]

\* A set the process has exchanged is in the storage only as the one it must not adopt, or
\* will remember so once its save has failed.
Remembered ==
    /\ \A p \in Processes : store \in exchanged[p] =>
         \/ store = unsavedPredecessor[p]
         \/ \E r \in Requests : Process[r] = p /\ at[r] = "save"
    /\ \A r \in Requests : LET p == Process[r] IN
         /\ at[r] = "save" /\ store \in exchanged[p] => store = local[r].stored
         /\ at[r] = "exchange" /\ (store \in exchanged[p] \/ store = held[p]) =>
              store = local[r].stored

\* Until it is saved nobody else knows a new set.
Private ==
    \A r \in Requests : at[r] = "save" =>
        LET new == held[Process[r]] IN
        /\ store # new
        /\ \A p \in Processes \ {Process[r]} : held[p] # new /\ new \notin exchanged[p]
        /\ \A q \in Requests :
             at[q] \in Knowing /\ Process[q] # Process[r] => local[q].set # new

Secrets == Unspent /\ Remembered /\ Private

LEMMA SecretsInit == Init => Secrets
  BY ProcessOf DEF Init, Secrets, Unspent, Remembered, Private

\* The step to look at is LoadStored: Remembered says that what it adopts is not spent.
LEMMA SecretsNext == Types /\ Known /\ Owned /\ Secrets /\ [Next]_vars => Secrets'
<1> SUFFICES ASSUME Types, Known, Owned, Secrets, [Next]_vars PROVE Secrets'
  OBVIOUS
<1>t. /\ issued \in Nat \ {0} /\ store \in 1..issued /\ held \in [Processes -> 0..issued]
      /\ unsavedPredecessor \in [Processes -> Nat]
      /\ exchanged \in [Processes -> SUBSET (1..issued)]
      /\ at \in [Requests -> Places]
      /\ \A r \in Requests : Process[r] \in Processes
      /\ \A r \in Requests : local[r].set \in Nat /\ local[r].set <= issued
  BY ProcessOf DEF Types, Known, Locals
<1>o. /\ \A r \in Requests : at[r] \notin Resting => held[Process[r]] # 0
      /\ \A r \in Requests : at[r] = "loading" => held[Process[r]] = 0
      /\ \A r, q \in Requests :
           at[r] \in Flying /\ at[q] \in Flying /\ Process[r] = Process[q] => r = q
  BY DEF Known, Owned
<1> USE <1>t, <1>o DEF Secrets, Unspent, Remembered, Private, Flying, Resting, Knowing
<1>0. CASE UNCHANGED vars
  BY <1>0 DEF vars, provider, managed, flights
<1>1. CASE Expire
  BY <1>1 DEF Expire, managed, flights
<1>2. ASSUME NEW r \in Requests, Load(r) PROVE Secrets'
  BY <1>2 DEF Load, Goto, provider
<1>3. ASSUME NEW r \in Requests, Loaded(r) PROVE Secrets'
  BY <1>3 DEF Loaded, provider
<1>4. ASSUME NEW r \in Requests, Snapshot(r) PROVE Secrets'
  <2>1. /\ Others(r) /\ at[r] = "snapshot" /\ at'[r] \in {"send", "enter"}
        /\ local'[r].set = held[Process[r]]
    BY <1>4, SnapshotLocal DEF Keeps
  <2>2. UNCHANGED <<store, issued, held, exchanged, unsavedPredecessor>>
    BY <1>4 DEF Snapshot, provider, managed, flights
  <2> QED  BY <2>1, <2>2 DEF Others
<1>5. ASSUME NEW r \in Requests, Send(r) PROVE Secrets'
  <2>1. Unspent'
    BY <1>5, SendLocal DEF Send, provider, managed, flights, Others, Keeps
  <2>2. Remembered'
    BY <1>5, SendLocal DEF Send, provider, managed, flights, Others, Keeps
  <2>3. Private'
    BY <1>5, SendLocal DEF Send, provider, managed, flights, Others, Keeps
  <2> QED  BY <2>1, <2>2, <2>3
<1>6. ASSUME NEW r \in Requests, EnterLate(r) PROVE Secrets'
  <2>1. Unspent'
    BY <1>6, EnterLateLocal DEF EnterLate, provider, managed, flights, Others, Keeps
  <2>2. Remembered'
    BY <1>6, EnterLateLocal DEF EnterLate, provider, managed, flights, Others, Keeps
  <2>3. Private'
    BY <1>6, EnterLateLocal DEF EnterLate, provider, managed, flights, Others, Keeps
  <2> QED  BY <2>1, <2>2, <2>3
<1>7. ASSUME NEW r \in Requests, Join(r) PROVE Secrets'
  <2>1. /\ Others(r) /\ at[r] = "enter" /\ at'[r] = "awaitRefresh"
        /\ local'[r].set = local[r].set
    BY <1>7, JoinLocal DEF Keeps
  <2>2. UNCHANGED <<store, issued, held, exchanged, unsavedPredecessor>>
    BY <1>7 DEF Join, provider, managed, flights
  <2> QED  BY <2>1, <2>2 DEF Others
<1>8. ASSUME NEW r \in Requests, TakeOff(r) PROVE Secrets'
  <2>1. /\ Others(r) /\ at[r] = "enter" /\ at'[r] = "source"
        /\ local'[r].set = held[Process[r]]
    BY <1>8, TakeOffLocal DEF Keeps
  <2>2. UNCHANGED <<store, issued, held, exchanged, unsavedPredecessor>>
    BY <1>8 DEF TakeOff, provider
  <2> QED  BY <2>1, <2>2 DEF Others
<1>9. ASSUME NEW r \in Requests, LoadStored(r) PROVE Secrets'
  <2>1. Unspent'
    BY <1>9, LoadStoredLocal
      DEF LoadStored, Replace, Adoptable, provider, flights, Others, Keeps
  <2>2. Remembered'
    BY <1>9, LoadStoredLocal
      DEF LoadStored, Replace, Adoptable, provider, flights, Others, Keeps
  <2>3. Private'
    BY <1>9, LoadStoredLocal
      DEF LoadStored, Replace, Adoptable, provider, flights, Others, Keeps
  <2> QED  BY <2>1, <2>2, <2>3
<1>10. ASSUME NEW r \in Requests, Exchange(r) PROVE Secrets'
  <2>1. CASE UNCHANGED <<issued, held, exchanged>> /\ at'[r] = "settle"
    BY <1>10, <2>1, ExchangeLocal DEF Exchange, Others, Keeps
  <2>2. CASE at'[r] = "save" /\ local' = local
    <3>1. /\ issued' = issued + 1 /\ UNCHANGED <<store, unsavedPredecessor>>
          /\ held' = [held EXCEPT ![Process[r]] = issued + 1]
          /\ exchanged' = [exchanged EXCEPT ![Process[r]] = @ \cup {local[r].set}]
      BY <1>10, <2>2 DEF Exchange, Replace, Land, Goto
    <3>2. /\ at[r] = "exchange" /\ Others(r)
      BY <1>10, ExchangeLocal
    <3>3. Unspent'
      BY <2>2, <3>1, <3>2 DEF Others
    <3>4. Remembered'
      BY <2>2, <3>1, <3>2 DEF Others
    <3>5. Private'
      BY <2>2, <3>1, <3>2 DEF Others
    <3> QED  BY <3>3, <3>4, <3>5
  <2> QED  BY <1>10, <2>1, <2>2, ExchangeLocal
<1>11. ASSUME NEW r \in Requests, Save(r) PROVE Secrets'
  <2>1. Unspent'
    BY <1>11, SaveLocal DEF Save, flights, Others, Keeps
  <2>2. Remembered'
    BY <1>11, SaveLocal DEF Save, flights, Others, Keeps
  <2>3. Private'
    BY <1>11, SaveLocal DEF Save, flights, Others, Keeps
  <2> QED  BY <2>1, <2>2, <2>3
<1>12. ASSUME NEW r \in Requests, Settle(r) PROVE Secrets'
  <2>1. Unspent'
    BY <1>12, SettleLocal DEF Settle, Release, provider, Keeps, Joined
  <2>2. Remembered'
    BY <1>12, SettleLocal DEF Settle, Release, provider, Keeps, Joined
  <2>3. Private'
    BY <1>12, SettleLocal DEF Settle, Release, provider, Keeps, Joined
  <2> QED  BY <2>1, <2>2, <2>3
<1>13. ASSUME NEW r \in Requests, Continue(r) PROVE Secrets'
  <2>1. Unspent'
    BY <1>13, ContinueLocal DEF Continue, provider, managed, flights, Others, Keeps
  <2>2. Remembered'
    BY <1>13, ContinueLocal DEF Continue, provider, managed, flights, Others, Keeps
  <2>3. Private'
    BY <1>13, ContinueLocal DEF Continue, provider, managed, flights, Others, Keeps
  <2> QED  BY <2>1, <2>2, <2>3
<1>14. ASSUME NEW r \in Requests, Replay(r) PROVE Secrets'
  <2>1. Unspent'
    BY <1>14, EndLocal DEF Replay, provider, managed, flights, Others, Keeps
  <2>2. Remembered'
    BY <1>14, EndLocal DEF Replay, provider, managed, flights, Others, Keeps
  <2>3. Private'
    BY <1>14, EndLocal DEF Replay, provider, managed, flights, Others, Keeps
  <2> QED  BY <2>1, <2>2, <2>3
<1>15. ASSUME NEW r \in Requests, GiveUpWaiting(r) PROVE Secrets'
  <2>1. Unspent'
    BY <1>15, EndLocal DEF GiveUpWaiting, provider, managed, flights, Others, Keeps
  <2>2. Remembered'
    BY <1>15, EndLocal DEF GiveUpWaiting, provider, managed, flights, Others, Keeps
  <2>3. Private'
    BY <1>15, EndLocal DEF GiveUpWaiting, provider, managed, flights, Others, Keeps
  <2> QED  BY <2>1, <2>2, <2>3
<1> QED
  BY <1>0, <1>1, <1>2, <1>3, <1>4, <1>5, <1>6, <1>7, <1>8, <1>9, <1>10, <1>11, <1>12, <1>13,
        <1>14, <1>15 DEF Next, Step

(* ---- revisions ------------------------------------------------------------ *)

\* The revision a request has seen tells whether its process still holds the set it saw, and
\* a set no longer held is not coming back.
Seen ==
    \A r \in Requests : at[r] \in Knowing =>
        LET p == Process[r] IN
        /\ local[r].revision <= revision[p]
        /\ local[r].revision = revision[p] <=> local[r].set = held[p]
        /\ local[r].set # held[p] => store # local[r].set \/ local[r].set \in exchanged[p]

\* Success means that the set was rotated, also for those that joined the flight.
Rotated ==
    \A r \in Requests : LET p == Process[r] IN
        /\ at[r] = "save" => local[r].revision # revision[p]
        /\ at[r] \in {"settle", "woken", "replay"} /\ local[r].outcome = "ok" =>
             local[r].revision # revision[p]
        /\ at[r] = "awaitRefresh" =>
             /\ local[r].outcome \in {"none", "late"}
             /\ local[r].outcome = "none" =>
                  local[r].revision = local[refreshFlight[p]].revision
        /\ at[r] = "replay" => local[r].outcome \in {"ok", "late"}

LEMMA RevisionsInit == Init => Seen /\ Rotated
  BY ProcessOf DEF Init, Seen, Rotated, Knowing, Flying

\* A rotation moves the set and the revision of a process together.
LEMMA RevisionsNext ==
  Types /\ Known /\ Owned /\ Secrets /\ Seen /\ Rotated /\ [Next]_vars => Seen' /\ Rotated'
<1> SUFFICES ASSUME Types, Known, Owned, Secrets, Seen, Rotated, [Next]_vars
             PROVE  Seen' /\ Rotated'
  OBVIOUS
<1>t. /\ issued \in Nat \ {0} /\ store \in 1..issued /\ held \in [Processes -> 0..issued]
      /\ unsavedPredecessor \in [Processes -> Nat] /\ revision \in [Processes -> Nat]
      /\ exchanged \in [Processes -> SUBSET (1..issued)]
      /\ at \in [Requests -> Places]
      /\ refreshFlight \in [Processes -> Requests \cup {Nobody}]
      /\ \A r \in Requests : Process[r] \in Processes
      /\ \A r \in Requests : /\ local[r].set \in Nat /\ local[r].set <= issued
                             /\ local[r].revision \in Nat
  BY ProcessOf DEF Types, Known, Locals
<1>o. /\ \A r \in Requests : at[r] \notin Resting => held[Process[r]] # 0
      /\ \A r \in Requests : at[r] = "loading" => held[Process[r]] = 0
      /\ \A r \in Requests : at[r] \in Flying => refreshFlight[Process[r]] = r
      /\ \A r \in Requests : at[r] = "awaitRefresh" =>
           /\ refreshFlight[Process[r]] \in Requests
           /\ at[refreshFlight[Process[r]]] \in Flying
           /\ Process[refreshFlight[Process[r]]] = Process[r]
  BY <1>t, RequestsAssumption DEF Known, Owned, WaitsForFlight
<1> USE <1>t, <1>o DEF Seen, Rotated, Flying, Resting, Knowing
<1>0. CASE UNCHANGED vars
  BY <1>0 DEF vars, provider, managed, flights
<1>1. CASE Expire
  BY <1>1 DEF Expire, managed, flights
<1>2. ASSUME NEW r \in Requests, Load(r) PROVE Seen' /\ Rotated'
  BY <1>2 DEF Load, Goto, provider
<1>3. ASSUME NEW r \in Requests, Loaded(r) PROVE Seen' /\ Rotated'
  BY <1>3 DEF Loaded, provider
<1>4. ASSUME NEW r \in Requests, Snapshot(r) PROVE Seen' /\ Rotated'
  <2>1. /\ Others(r) /\ at[r] = "snapshot" /\ at'[r] \in {"send", "enter"}
        /\ local'[r].set = held[Process[r]] /\ local'[r].revision = revision[Process[r]]
    BY <1>4, SnapshotLocal
  <2>2. UNCHANGED <<store, held, revision, exchanged, refreshFlight>>
    BY <1>4 DEF Snapshot, provider, managed, flights
  <2>3. Seen'
    BY <2>1, <2>2 DEF Others, Keeps
  <2>4. Rotated'
    BY <2>1, <2>2 DEF Others, Keeps
  <2> QED  BY <2>3, <2>4
<1>5. ASSUME NEW r \in Requests, Send(r) PROVE Seen' /\ Rotated'
  <2>1. /\ Others(r) /\ at[r] = "send"
        /\ at'[r] = "done" \/ (at'[r] = "enter" /\ Keeps(r))
    BY <1>5, SendLocal
  <2>2. UNCHANGED <<store, held, revision, exchanged, refreshFlight>>
    BY <1>5 DEF Send, provider, managed, flights
  <2>3. Seen'
    BY <2>1, <2>2 DEF Others, Keeps
  <2>4. Rotated'
    BY <2>1, <2>2 DEF Others, Keeps
  <2> QED  BY <2>3, <2>4
<1>6. ASSUME NEW r \in Requests, EnterLate(r) PROVE Seen' /\ Rotated'
  <2>1. /\ Others(r) /\ Keeps(r) /\ at[r] = "enter" /\ at'[r] = "woken"
        /\ local'[r].outcome = "ok" => revision[Process[r]] # local[r].revision
    BY <1>6, EnterLateLocal
  <2>2. UNCHANGED <<store, held, revision, exchanged, refreshFlight>>
    BY <1>6 DEF EnterLate, provider, managed, flights
  <2>3. Seen'
    BY <2>1, <2>2 DEF Others, Keeps
  <2>4. Rotated'
    BY <2>1, <2>2 DEF Others, Keeps
  <2> QED  BY <2>3, <2>4
<1>7. ASSUME NEW r \in Requests, Join(r) PROVE Seen' /\ Rotated'
  <2>0. refreshFlight[Process[r]] # r
    <3>1. at[r] = "enter" /\ refreshFlight[Process[r]] # Nobody
      BY <1>7 DEF Join
    <3> QED  BY <3>1 DEF Owned
  <2>1. /\ Others(r) /\ Keeps(r) /\ at[r] = "enter" /\ at'[r] = "awaitRefresh"
        /\ local'[r].outcome \in {"none", "late"}
        /\ local'[r].outcome = "none" =>
             local[refreshFlight[Process[r]]].revision = local[r].revision
        /\ refreshFlight[Process[r]] # r
    BY <1>7, JoinLocal, <2>0
  <2>2. UNCHANGED <<store, held, revision, exchanged, refreshFlight>>
    BY <1>7 DEF Join, provider, managed, flights
  <2>3. Seen'
    BY <2>1, <2>2 DEF Others, Keeps
  <2>4. ASSUME NEW q \in Requests PROVE Rotated!(q)'
    <3>1. at[q] = "awaitRefresh" =>
            refreshFlight[Process[q]] \in Requests \ {r}
      BY <2>1
    <3>2. refreshFlight[Process[r]] \in Requests \ {r}
      BY <1>7, <2>0 DEF Join
    <3>3. CASE q = r
      BY <2>1, <2>2, <3>2, <3>3 DEF Others, Keeps
    <3>4. CASE q # r
      BY <2>1, <2>2, <3>1, <3>4 DEF Others
    <3> QED  BY <3>3, <3>4
  <2> QED  BY <2>3, <2>4
<1>8. ASSUME NEW r \in Requests, TakeOff(r) PROVE Seen' /\ Rotated'
  <2>1. /\ Others(r) /\ at[r] = "enter" /\ at'[r] = "source"
        /\ local'[r].set = held[Process[r]] /\ local'[r].revision = local[r].revision
        /\ revision[Process[r]] = local[r].revision
    BY <1>8, TakeOffLocal
  <2>2. /\ UNCHANGED <<store, held, revision, exchanged>>
        /\ refreshFlight[Process[r]] = Nobody
        /\ refreshFlight' = [refreshFlight EXCEPT ![Process[r]] = r]
    BY <1>8 DEF TakeOff, provider
  <2>3. \A q \in Requests : at[q] = "awaitRefresh" => Process[q] # Process[r]
    BY <2>2, RequestsAssumption
  <2>4. Seen'
    BY <2>1, <2>2 DEF Others
  <2>5. Rotated'
    BY <2>1, <2>2, <2>3 DEF Others
  <2> QED  BY <2>4, <2>5
<1>9. ASSUME NEW r \in Requests, LoadStored(r) PROVE Seen' /\ Rotated'
  <2>1. /\ Others(r) /\ Keeps(r) /\ at[r] = "source"
        /\ UNCHANGED <<store, exchanged, refreshFlight>>
        /\ at'[r] \in {"settle", "exchange"}
    BY <1>9, LoadStoredLocal DEF LoadStored, provider, flights
  <2>2. CASE UNCHANGED <<held, revision>> /\ (at'[r] = "settle" => local'[r].outcome # "ok")
    <3>1. Seen'
      BY <2>1, <2>2 DEF Others, Keeps
    <3>2. Rotated'
      BY <2>1, <2>2 DEF Others, Keeps
    <3> QED  BY <3>1, <3>2
  <2>3. CASE Adoptable(Process[r], store, local[r].set) /\ Replace(Process[r], store)
             /\ at'[r] = "settle"
    <3>1. /\ held' = [held EXCEPT ![Process[r]] = store]
          /\ revision' = [revision EXCEPT ![Process[r]] = @ + 1]
      BY <2>3 DEF Replace
    <3>2. store \notin exchanged[Process[r]] /\ store # held[Process[r]]
      BY <2>1, <2>3 DEF Adoptable, Secrets, Unspent, Remembered
    <3>3. Seen'
      BY <2>1, <2>3, <3>1, <3>2 DEF Others, Keeps
    <3>4. Rotated'
      BY <2>1, <2>3, <3>1 DEF Others, Keeps
    <3> QED  BY <3>3, <3>4
  <2>4. \/ /\ UNCHANGED <<held, revision>> /\ (at'[r] = "settle" => local'[r].outcome # "ok")
        \/ Adoptable(Process[r], store, local[r].set) /\ Replace(Process[r], store)
             /\ at'[r] = "settle"
    BY <1>9, LoadStoredLocal
  <2> QED  BY <2>2, <2>3, <2>4
<1>10. ASSUME NEW r \in Requests, Exchange(r) PROVE Seen' /\ Rotated'
  <2>1. /\ Others(r) /\ Keeps(r) /\ at[r] = "exchange" /\ local[r].set = held[Process[r]]
        /\ UNCHANGED <<store, refreshFlight>>
    BY <1>10, ExchangeLocal DEF Exchange, flights, Secrets, Unspent
  <2>2. CASE /\ UNCHANGED <<held, revision, exchanged>>
             /\ at'[r] = "settle" /\ local'[r].outcome = "failed"
    <3>1. Seen'
      BY <2>1, <2>2 DEF Others, Keeps
    <3>2. Rotated'
      BY <2>1, <2>2 DEF Others, Keeps
    <3> QED  BY <3>1, <3>2
  <2>3. CASE at'[r] = "save" /\ local' = local
    <3>1. /\ held' = [held EXCEPT ![Process[r]] = issued + 1]
          /\ revision' = [revision EXCEPT ![Process[r]] = @ + 1]
          /\ exchanged' = [exchanged EXCEPT ![Process[r]] = @ \cup {local[r].set}]
      BY <1>10, <2>3 DEF Exchange, Replace, Land, Goto
    <3>2. Seen'
      BY <2>1, <2>3, <3>1 DEF Others
    <3>3. Rotated'
      BY <2>1, <2>3, <3>1 DEF Others
    <3> QED  BY <3>2, <3>3
  <2> QED  BY <1>10, <2>2, <2>3, ExchangeLocal
<1>11. ASSUME NEW r \in Requests, Save(r) PROVE Seen' /\ Rotated'
  <2>1. /\ Others(r) /\ Keeps(r) /\ at[r] = "save" /\ at'[r] = "settle"
        /\ local'[r].outcome \in {"ok", "unsaved"}
        /\ UNCHANGED <<held, revision, exchanged, refreshFlight>>
        /\ store' \in {store, held[Process[r]]}
    BY <1>11, SaveLocal DEF Save, flights
  <2>2. \A q \in Requests :
           at[q] \in Knowing /\ Process[q] # Process[r] => local[q].set # held[Process[r]]
    BY <2>1 DEF Secrets, Private
  <2>3. Seen'
    BY <2>1, <2>2 DEF Others, Keeps
  <2>4. Rotated'
    BY <2>1, SMTT(30) DEF Others, Keeps
  <2> QED  BY <2>3, <2>4
<1>12. ASSUME NEW r \in Requests, Settle(r) PROVE Seen' /\ Rotated'
  <2>1. /\ at[r] = "settle" /\ UNCHANGED <<store, held, revision, exchanged>>
        /\ \A q \in Requests : Process[q] # Process[r] =>
             refreshFlight'[Process[q]] = refreshFlight[Process[q]]
    BY <1>12 DEF Settle, Release, provider
  <2>2. \A q \in Requests :
          /\ q \in Joined(r) => local'[q].outcome = Shared(q, local[r].outcome)
          /\ q \notin Joined(r) => local'[q] = local[q]
          /\ at'[q] = IF q = r \/ q \in Joined(r) THEN "woken" ELSE at[q]
    BY <1>12, SettleLocal
  <2>3. \A q \in Requests : Keeps(q)
    BY <1>12, SettleLocal
  <2>4. \A q \in Joined(r) : q \in Requests /\ Process[q] = Process[r] /\ at[q] = "awaitRefresh"
    BY DEF Joined
  <2>5. \A q \in Requests : at[q] = "awaitRefresh"
        /\ q \notin Joined(r) => Process[q] # Process[r]
    BY DEF Joined
  <2>6. Seen'
    BY <2>1, <2>2, <2>3, <2>4 DEF Keeps
  <2>7. ASSUME NEW q \in Requests, q \in Joined(r), local'[q].outcome = "ok"
        PROVE  local[q].revision # revision[Process[q]]
    <3>1. local[q].outcome = "none" /\ local[r].outcome = "ok"
      BY <2>2, <2>4, <2>7 DEF Shared
    <3> QED  BY <2>1, <2>4, <2>7, <3>1
  <2>8. ASSUME NEW q \in Requests PROVE Rotated!(q)'
    BY <2>1, <2>2, <2>3, <2>4, <2>5, <2>7 DEF Keeps
  <2> QED  BY <2>6, <2>8
<1>13. ASSUME NEW r \in Requests, Continue(r) PROVE Seen' /\ Rotated'
  <2>1. /\ Others(r) /\ at[r] = "woken"
        /\ \/ at'[r] \in {"failed", "snapshot"}
           \/ at'[r] = "replay" /\ local' = local /\ local[r].outcome \in {"ok", "late"}
    BY <1>13, ContinueLocal
  <2>2. UNCHANGED <<store, held, revision, exchanged, refreshFlight>>
    BY <1>13 DEF Continue, provider, managed, flights
  <2>3. Seen'
    BY <2>1, <2>2 DEF Others, Keeps
  <2>4. Rotated'
    BY <2>1, <2>2 DEF Others, Keeps
  <2> QED  BY <2>3, <2>4
<1>14. ASSUME NEW r \in Requests, Replay(r) PROVE Seen' /\ Rotated'
  <2>1. /\ Others(r) /\ at'[r] \in {"done", "failed"} /\ at[r] \notin Flying
    BY <1>14, EndLocal
  <2>2. UNCHANGED <<store, held, revision, exchanged, refreshFlight>>
    BY <1>14 DEF Replay, provider, managed, flights
  <2>3. Seen'
    BY <2>1, <2>2 DEF Others, Keeps
  <2>4. Rotated'
    BY <2>1, <2>2 DEF Others, Keeps
  <2> QED  BY <2>3, <2>4
<1>15. ASSUME NEW r \in Requests, GiveUpWaiting(r) PROVE Seen' /\ Rotated'
  <2>1. /\ Others(r) /\ at'[r] \in {"done", "failed"} /\ at[r] \notin Flying
    BY <1>15, EndLocal
  <2>2. UNCHANGED <<store, held, revision, exchanged, refreshFlight>>
    BY <1>15 DEF GiveUpWaiting, provider, managed, flights
  <2>3. Seen'
    BY <2>1, <2>2 DEF Others, Keeps
  <2>4. Rotated'
    BY <2>1, <2>2 DEF Others, Keeps
  <2> QED  BY <2>3, <2>4
<1> QED
  BY <1>0, <1>1, <1>2, <1>3, <1>4, <1>5, <1>6, <1>7, <1>8, <1>9, <1>10, <1>11, <1>12, <1>13,
        <1>14, <1>15 DEF Next, Step

(* ---- the theorems --------------------------------------------------------- *)

IInv == Types /\ Known /\ Owned /\ Secrets /\ Seen /\ Rotated

\* The invariant the properties below are read from.
THEOREM CredentialsInvariant == Spec => []IInv
<1>1. Init => IInv
  BY TypesInit, OwnedInit, SecretsInit, RevisionsInit DEF IInv
<1>2. IInv /\ [Next]_vars => IInv'
  BY TypesNext, OwnedNext, SecretsNext, RevisionsNext DEF IInv
<1> QED  BY <1>1, <1>2, PTL DEF Spec

\* The variables keep their types, and a flight belongs to a request that is in it.
THEOREM TypeCorrect == Spec => []TypeOK
<1>1. IInv => TypeOK
  BY DEF IInv, Types, Owned, TypeOK, Places, Resting, Knowing, Flying
<1> QED  BY <1>1, CredentialsInvariant, PTL

\* No process presents a refresh token it has exchanged for a new set already: refresh
\* (manager.go) recognizes the set a failed save left in the storage, for any number of
\* processes that share it and of requests that refresh.
THEOREM TokensPresentedOnce == Spec => []NeverSpendsTwice
<1>1. IInv => NeverSpendsTwice
  BY ProcessOf DEF IInv, Secrets, Unspent, NeverSpendsTwice
<1> QED  BY <1>1, CredentialsInvariant, PTL

\* RoundTrip (transport.go) never repeats a refused request with the set it was refused for,
\* the exception of ReplaysFreshSet aside.
THEOREM FreshReplay == Spec => []ReplaysFreshSet
<1>1. IInv => ReplaysFreshSet
  <2> SUFFICES ASSUME IInv, NEW r \in Requests, at[r] = "replay", local[r].outcome # "late"
               PROVE  held[Process[r]] # local[r].set
    BY DEF ReplaysFreshSet
  <2>1. local[r].revision # revision[Process[r]]
    BY DEF IInv, Rotated
  <2> QED  BY <2>1 DEF IInv, Seen, Knowing
<1> QED  BY <1>1, CredentialsInvariant, PTL

\* Whoever waits for a load or a refresh (wait in manager.go) waits for one under way.
THEOREM NobodyStranded == Spec => []WaitsForFlight
<1>1. IInv => WaitsForFlight
  BY DEF IInv, Owned
<1> QED  BY <1>1, CredentialsInvariant, PTL


-----------------------------------------------------------------------------
(* Lifecycle: sequences of resources, and of what the closers hold *)

Below(S, T) == \A x \in S : \A y \in T : x < y

Sorted(s) == \A i, j \in DOMAIN s : i < j => s[i] < s[j]

\* Each closer holds resources in their order, all later than those before it.
Nested(c) ==
    /\ \A i \in DOMAIN c : Sorted(c[i])
    /\ \A i, j \in DOMAIN c : i < j => Below(Elems(c[i]), Elems(c[j]))

LEMMA Empty ==
    /\ Elems(<<>>) = {} /\ Sorted(<<>>)
    /\ Held(<<>>) = {} /\ Nested(<<>>)
  BY DEF Elems, Sorted, Held, Nested

LEMMA Added ==
    ASSUME NEW s \in Seq(Nat), NEW x \in Nat
    PROVE  /\ Append(s, x) \in Seq(Nat)
           /\ Append(s, x) # <<>>
           /\ Elems(Append(s, x)) = Elems(s) \cup {x}
           /\ Sorted(s) /\ Below(Elems(s), {x}) => Sorted(Append(s, x))
  <1> DEFINE t == Append(s, x)
  <1>1. t \in Seq(Nat) /\ Len(t) = Len(s) + 1 /\ t # <<>>
    BY AppendProperties
  <1>2. DOMAIN s = 1..Len(s) /\ DOMAIN t = 1..(Len(s) + 1) /\ Len(s) \in Nat
    BY <1>1
  <1>3. t[Len(s) + 1] = x /\ \A i \in 1..Len(s) : t[i] = s[i]
    BY AppendProperties
  <1>4. Elems(t) = Elems(s) \cup {x}
    <2>1. \A i \in 1..(Len(s) + 1) : i \in 1..Len(s) \/ i = Len(s) + 1
      BY <1>2
    <2> HIDE DEF t
    <2> QED
      BY <1>2, <1>3, <2>1 DEF Elems
  <1>5. ASSUME Sorted(s), Below(Elems(s), {x}) PROVE Sorted(t)
    <2> SUFFICES ASSUME NEW i \in DOMAIN t, NEW j \in DOMAIN t, i < j
                 PROVE  t[i] < t[j]
      BY DEF Sorted
    <2>1. i \in 1..Len(s)
      BY <1>2
    <2>2. CASE j \in 1..Len(s)
      BY <1>2, <1>3, <1>5, <2>1, <2>2 DEF Sorted
    <2>3. CASE j = Len(s) + 1
      <3>1. s[i] \in Elems(s)
        BY <1>2, <2>1 DEF Elems
      <3> QED
        BY <1>3, <1>5, <2>1, <2>3, <3>1 DEF Below
    <2> QED
      BY <1>2, <2>2, <2>3
  <1> QED
    BY <1>1, <1>4, <1>5

LEMMA Popped ==
    ASSUME NEW s \in Seq(Nat), s # <<>>, Sorted(s)
    PROVE  LET rest == SubSeq(s, 1, Len(s) - 1)
           IN  /\ rest \in Seq(Nat) /\ Sorted(rest)
               /\ s[Len(s)] \in Nat
               /\ Elems(s) = Elems(rest) \cup {s[Len(s)]}
               /\ Below(Elems(rest), {s[Len(s)]})
  <1> DEFINE n == Len(s)
             rest == SubSeq(s, 1, n - 1)
  <1>1. n \in Nat \ {0} /\ DOMAIN s = 1..n /\ \A i \in 1..n : s[i] \in Nat
    OBVIOUS
  <1>2. /\ rest \in Seq(Nat) /\ DOMAIN rest = 1..(n - 1)
        /\ \A i \in 1..(n - 1) : rest[i] = s[i]
    OBVIOUS
  <1> HIDE DEF rest, n
  <1>3. n \in 1..n /\ \A i \in 1..(n - 1) : i \in 1..n /\ i < n
    BY <1>1
  <1>4. \A i \in 1..n : i = n \/ i \in 1..(n - 1)
    BY <1>1
  <1>5. Sorted(rest)
    <2> SUFFICES ASSUME NEW i \in 1..(n - 1), NEW j \in 1..(n - 1), i < j
                 PROVE  rest[i] < rest[j]
      BY <1>2 DEF Sorted
    <2>1. i \in DOMAIN s /\ j \in DOMAIN s
      BY <1>1, <1>3
    <2>2. s[i] < s[j]
      BY <2>1 DEF Sorted
    <2>3. rest[i] = s[i] /\ rest[j] = s[j]
      BY <1>2
    <2> QED
      BY <2>2, <2>3
  <1>6. Elems(s) = Elems(rest) \cup {s[n]}
    BY <1>1, <1>2, <1>3, <1>4 DEF Elems
  <1>7. Below(Elems(rest), {s[n]})
    BY <1>1, <1>2, <1>3 DEF Below, Elems, Sorted
  <1> QED
    BY <1>1, <1>2, <1>3, <1>5, <1>6, <1>7 DEF rest, n

LEMMA AddedCloser ==
    ASSUME NEW c \in Seq(Seq(Nat)), NEW s \in Seq(Nat)
    PROVE  /\ Append(c, s) \in Seq(Seq(Nat))
           /\ Append(c, s) # <<>>
           /\ Held(Append(c, s)) = Held(c) \cup Elems(s)
           /\ Nested(c) /\ Sorted(s) /\ Below(Held(c), Elems(s)) => Nested(Append(c, s))
  <1> DEFINE t == Append(c, s)
  <1>1. t \in Seq(Seq(Nat)) /\ Len(t) = Len(c) + 1 /\ t # <<>>
    BY AppendProperties
  <1>2. DOMAIN c = 1..Len(c) /\ DOMAIN t = 1..(Len(c) + 1) /\ Len(c) \in Nat
    BY <1>1
  <1>3. t[Len(c) + 1] = s /\ \A i \in 1..Len(c) : t[i] = c[i]
    BY AppendProperties
  <1>0. \A i \in 1..(Len(c) + 1) : i \in 1..Len(c) \/ i = Len(c) + 1
    BY <1>2
  <1>9. Len(c) + 1 \in 1..(Len(c) + 1) /\ \A i \in 1..Len(c) : i \in 1..(Len(c) + 1)
    BY <1>2
  <1> HIDE DEF t
  <1>4. Held(t) = Held(c) \cup Elems(s)
    <2>1. ASSUME NEW x \in Held(t) PROVE x \in Held(c) \cup Elems(s)
      <3>1. PICK i \in DOMAIN t : x \in Elems(t[i])
        BY <2>1 DEF Held
      <3> QED
        BY <1>2, <1>3, <1>0, <3>1 DEF Held
    <2>2. ASSUME NEW x \in Held(c) PROVE x \in Held(t)
      BY <1>2, <1>3, <1>9, <2>2 DEF Held
    <2>3. ASSUME NEW x \in Elems(s) PROVE x \in Held(t)
      BY <1>2, <1>3, <1>9, <2>3 DEF Held
    <2> QED
      BY <2>1, <2>2, <2>3
  <1>5. ASSUME Nested(c), Sorted(s), Below(Held(c), Elems(s)) PROVE Nested(t)
    <2>1. \A i \in DOMAIN t : Sorted(t[i])
      BY <1>2, <1>3, <1>0, <1>5 DEF Nested
    <2>2. ASSUME NEW i \in DOMAIN t, NEW j \in DOMAIN t, i < j
          PROVE  Below(Elems(t[i]), Elems(t[j]))
      <3>1. i \in 1..Len(c)
        BY <1>2, <2>2
      <3>2. CASE j \in 1..Len(c)
        BY <1>2, <1>3, <1>5, <2>2, <3>1, <3>2 DEF Nested
      <3>3. CASE j = Len(c) + 1
        <4>1. Elems(c[i]) \subseteq Held(c)
          BY <1>2, <3>1 DEF Held
        <4> QED
          BY <1>3, <1>5, <3>1, <3>3, <4>1 DEF Below
      <3> QED
        BY <1>2, <1>0, <3>2, <3>3
    <2> QED
      BY <2>1, <2>2 DEF Nested
  <1> QED
    BY <1>1, <1>4, <1>5 DEF t

LEMMA PoppedCloser ==
    ASSUME NEW c \in Seq(Seq(Nat)), c # <<>>, Nested(c)
    PROVE  LET rest == SubSeq(c, 1, Len(c) - 1)
           IN  /\ rest \in Seq(Seq(Nat)) /\ Nested(rest)
               /\ c[Len(c)] \in Seq(Nat) /\ Sorted(c[Len(c)])
               /\ Held(c) = Held(rest) \cup Elems(c[Len(c)])
               /\ Below(Held(rest), Elems(c[Len(c)]))
  <1> DEFINE n == Len(c)
             rest == SubSeq(c, 1, n - 1)
  <1>1. n \in Nat \ {0} /\ DOMAIN c = 1..n /\ \A i \in 1..n : c[i] \in Seq(Nat)
    OBVIOUS
  <1>2. /\ rest \in Seq(Seq(Nat)) /\ DOMAIN rest = 1..(n - 1)
        /\ \A i \in 1..(n - 1) : rest[i] = c[i]
    OBVIOUS
  <1> HIDE DEF rest, n
  <1>3. n \in 1..n /\ \A i \in 1..(n - 1) : i \in 1..n /\ i < n
    BY <1>1
  <1>4. \A i \in 1..n : i = n \/ i \in 1..(n - 1)
    BY <1>1
  <1>5. Nested(rest) /\ Sorted(c[n])
    <2>1. \A i \in 1..n : Sorted(c[i])
      BY <1>1 DEF Nested
    <2>2. \A i, j \in 1..n : i < j => Below(Elems(c[i]), Elems(c[j]))
      BY <1>1 DEF Nested
    <2>3. \A i \in DOMAIN rest : rest[i] = c[i] /\ i \in 1..n
      BY <1>2, <1>3
    <2>4. \A i, j \in DOMAIN rest : i < j => Below(Elems(rest[i]), Elems(rest[j]))
      BY <2>2, <2>3
    <2> QED
      BY <1>3, <2>1, <2>3, <2>4 DEF Nested
  <1>6. Held(c) = Held(rest) \cup Elems(c[n])
    <2>1. ASSUME NEW x \in Held(c) PROVE x \in Held(rest) \cup Elems(c[n])
      <3>1. PICK i \in DOMAIN c : x \in Elems(c[i])
        BY <2>1 DEF Held
      <3> QED
        BY <1>1, <1>2, <1>4, <3>1 DEF Held
    <2>2. ASSUME NEW x \in Held(rest) PROVE x \in Held(c)
      BY <1>1, <1>2, <1>3, <2>2 DEF Held
    <2>3. ASSUME NEW x \in Elems(c[n]) PROVE x \in Held(c)
      BY <1>1, <1>3, <2>3 DEF Held
    <2> QED
      BY <2>1, <2>2, <2>3
  <1>7. Below(Held(rest), Elems(c[n]))
    <2> SUFFICES ASSUME NEW x \in Held(rest) PROVE Below({x}, Elems(c[n]))
      BY DEF Below
    <2>1. PICK i \in DOMAIN rest : x \in Elems(rest[i])
      BY DEF Held
    <2>2. x \in Elems(c[i]) /\ i \in 1..n /\ i < n
      BY <1>2, <1>3, <2>1
    <2>3. Below(Elems(c[i]), Elems(c[n]))
      BY <1>1, <1>3, <2>2 DEF Nested
    <2> QED
      BY <2>2, <2>3 DEF Below
  <1> QED
    BY <1>1, <1>2, <1>3, <1>5, <1>6, <1>7 DEF rest, n

-----------------------------------------------------------------------------
(* The inductive invariant *)

Kept    == Held(toolsetClosers) \cup Held(modelClosers)
Pending == Elems(opening) \cup Elems(closing)

Typed ==
    /\ opening \in Seq(Nat) /\ closing \in Seq(Nat)
    /\ toolsetClosers \in Seq(Seq(Nat)) /\ modelClosers \in Seq(Seq(Nat))
    /\ opened \in Nat
    /\ live \subseteq 1..opened

\* Everything open has a closer, or will have one, or has lost it; what is being opened or
\* closed is later than what the closers hold, and models are later than toolsets.
Order ==
    /\ Sorted(opening) /\ Sorted(closing)
    /\ Nested(toolsetClosers) /\ Nested(modelClosers)
    /\ Below(Held(toolsetClosers), Held(modelClosers))
    /\ Below(Kept, Pending)
    /\ live = lost \cup Kept \cup Pending
    /\ lost \cap (Kept \cup Pending) = {}

\* Where a run is when it holds what.
Staged ==
    /\ opening # <<>> => stage = "model" \/ ToolsetOpening
    /\ closing # <<>> => stage \in {"closing", "rollback"}
    /\ stage \in {"resolve", "toolsets"} => modelClosers = <<>>
    /\ stage = "ended" =>
         /\ toolsetClosers = <<>> /\ modelClosers = <<>>
         /\ result => left \/ ~failed
    /\ lost # {} => stage \in {"closing", "ended"}

\* The model that is going to be asked has been entered, or it was not and a wrapper asks
\* again; the one that is being opened has not.
Chosen ==
    /\ stage \in {"hooks", "request"} => model \in entered \cup refused
    /\ stage = "model" => model \notin entered

LInv == Typed /\ Order /\ Staged /\ Chosen

\* The books of a step that neither opens nor closes.
LEMMA Rest ==
    ASSUME Typed, Order, UNCHANGED <<opening, closers, closing, books>>
    PROVE  Typed' /\ Order'
  BY DEF Typed, Order, Kept, Pending, closers, books

\* What is in a closer or on its way to one is open.
LEMMA Open ==
    ASSUME Typed, Order
    PROVE  /\ Kept \cup Pending \subseteq live
           /\ \A x \in live : x \in Nat /\ x <= opened
  BY DEF Typed, Order

LEMMA OpensInOrder ==
    ASSUME LInv, NothingOpened \/ PartOpened, UNCHANGED <<closers, closing>>, closing = <<>>
    PROVE  Typed' /\ Order'
  <1>1. CASE NothingOpened
    BY <1>1, Rest DEF LInv, NothingOpened
  <1>2. CASE PartOpened
    <2> DEFINE x == opened + 1
    <2>1. /\ Typed /\ Order
          /\ x \in Nat /\ opened' = x /\ live' = live \cup {x} /\ lost' = lost
          /\ opening' = Append(opening, x)
          /\ toolsetClosers' = toolsetClosers /\ modelClosers' = modelClosers
          /\ closing' = closing
      BY <1>2 DEF LInv, PartOpened, Typed, closers
    <2>2. \A y \in live : y < x /\ y \in Nat
      BY <2>1, Open DEF Typed
    <2> HIDE DEF x
    <2>3. /\ opening' \in Seq(Nat)
          /\ Elems(opening') = Elems(opening) \cup {x}
          /\ Below(Elems(opening), {x}) => Sorted(opening')
      BY <2>1, Added DEF Typed, Order
    <2>4. Kept \cup Pending \subseteq live
      BY <2>1, Open
    <2>5. Below(Elems(opening), {x}) /\ Below(Kept, {x})
      BY <2>2, <2>4 DEF Below, Pending
    <2>6. Kept' = Kept /\ Pending' = Pending \cup {x}
      BY <2>1, <2>3 DEF Kept, Pending
    <2>7. Below(Kept', Pending')
      BY <2>1, <2>5, <2>6 DEF Order, Below
    <2>8. x \notin live
      BY <2>2
    <2>9. live' = lost' \cup Kept' \cup Pending' /\ lost' \cap (Kept' \cup Pending') = {}
      BY <2>1, <2>6, <2>8 DEF Order
    <2>10. Order'
      BY <2>1, <2>3, <2>5, <2>7, <2>9 DEF Order
    <2>11. live' \subseteq 1..opened'
      BY <2>1 DEF Typed, x
    <2> QED
      BY <2>1, <2>3, <2>10, <2>11 DEF Typed
  <1> QED
    BY <1>1, <1>2

\* What has been opened of something that fails to open is closed.
LEMMA FailsInOrder ==
    ASSUME LInv, closing = <<>>, closing' = opening, opening' = <<>>, UNCHANGED closers,
           UNCHANGED books \/ PartLost
    PROVE  Typed' /\ Order'
  <1>1. /\ Typed /\ Order
        /\ toolsetClosers' = toolsetClosers /\ modelClosers' = modelClosers
    BY DEF LInv, closers
  <1>2. opening' \in Seq(Nat) /\ closing' \in Seq(Nat)
    BY <1>1 DEF Typed
  <1>3. Kept' = Kept /\ Pending' = Pending
    BY <1>1 DEF Kept, Pending
  <1>4. Sorted(opening') /\ Sorted(closing')
    BY <1>1, Empty DEF Order
  <1>5. CASE UNCHANGED books
    BY <1>1, <1>2, <1>3, <1>4, <1>5 DEF Typed, Order, books
  <1>6. CASE PartLost
    <2>1. opened \in Nat /\ opened + 1 \notin live
      BY <1>1, Open DEF Typed
    <2>2. live' \subseteq 1..opened' /\ opened' \in Nat
      BY <1>1, <1>6 DEF Typed, PartLost
    <2>3. live' = lost' \cup Kept' \cup Pending' /\ lost' \cap (Kept' \cup Pending') = {}
      BY <1>1, <1>3, <1>6, <2>1, Open DEF Order, PartLost
    <2> QED
      BY <1>1, <1>2, <1>3, <1>4, <2>2, <2>3 DEF Typed, Order
  <1> QED
    BY <1>5, <1>6

\* What was opened gets its closer.
LEMMA EntersInOrder ==
    ASSUME LInv, closing = <<>>, opening' = <<>>, UNCHANGED <<closing, books>>,
           \/ /\ toolsetClosers' = Append(toolsetClosers, opening)
              /\ modelClosers = <<>> /\ modelClosers' = modelClosers
           \/ /\ modelClosers' = Append(modelClosers, opening)
              /\ toolsetClosers' = toolsetClosers
    PROVE  Typed' /\ Order'
  <1>1. /\ Typed /\ Order
        /\ opening' = <<>> /\ closing' = <<>> /\ opened' = opened
        /\ live' = live /\ lost' = lost
    BY DEF LInv, books
  <1>2. Elems(opening') = {} /\ Elems(closing') = {} /\ Elems(closing) = {}
    BY <1>1, Empty
  <1>3. Pending = Elems(opening) /\ Pending' = {}
    BY <1>2 DEF Pending
  <1>4. Sorted(opening) /\ opening \in Seq(Nat) /\ Below(Kept, Elems(opening))
    BY <1>1, <1>3 DEF Order, Typed
  <1>5. Below(Held(toolsetClosers), Elems(opening)) /\ Below(Held(modelClosers), Elems(opening))
    BY <1>4 DEF Kept, Below
  <1>6. CASE /\ toolsetClosers' = Append(toolsetClosers, opening)
             /\ modelClosers = <<>> /\ modelClosers' = modelClosers
    <2>1. /\ toolsetClosers' \in Seq(Seq(Nat)) /\ Nested(toolsetClosers')
          /\ Held(toolsetClosers') = Held(toolsetClosers) \cup Elems(opening)
      BY <1>1, <1>4, <1>5, <1>6, AddedCloser DEF Typed, Order
    <2>2. Held(modelClosers') = {} /\ Held(modelClosers) = {}
      BY <1>6, Empty
    <2>3. Kept' = Kept \cup Elems(opening)
      BY <2>1, <2>2 DEF Kept
    <2>4. Below(Held(toolsetClosers'), Held(modelClosers')) /\ Below(Kept', Pending')
      BY <1>3, <2>2 DEF Below
    <2>5. modelClosers' \in Seq(Seq(Nat)) /\ Nested(modelClosers')
      BY <1>1, <1>6 DEF Typed, Order
    <2> QED
      BY <1>1, <1>3, <2>1, <2>3, <2>4, <2>5, Empty DEF Typed, Order
  <1>7. CASE /\ modelClosers' = Append(modelClosers, opening)
             /\ toolsetClosers' = toolsetClosers
    <2>1. /\ modelClosers' \in Seq(Seq(Nat)) /\ Nested(modelClosers')
          /\ Held(modelClosers') = Held(modelClosers) \cup Elems(opening)
      BY <1>1, <1>4, <1>5, <1>7, AddedCloser DEF Typed, Order
    <2>2. Kept' = Kept \cup Elems(opening)
      BY <1>7, <2>1 DEF Kept
    <2>3. Below(Held(toolsetClosers'), Held(modelClosers'))
      BY <1>1, <1>5, <1>7, <2>1 DEF Below, Order
    <2>4. Below(Kept', Pending')
      BY <1>3 DEF Below
    <2>5. toolsetClosers' \in Seq(Seq(Nat)) /\ Nested(toolsetClosers')
      BY <1>1, <1>7 DEF Typed, Order
    <2> QED
      BY <1>1, <1>3, <2>1, <2>2, <2>3, <2>4, <2>5, Empty DEF Typed, Order
  <1> QED
    BY <1>6, <1>7

\* The next closer is the last one, of a model as long as there is one.
LEMMA NextInOrder ==
    ASSUME LInv, CloseNext
    PROVE  Typed' /\ Order'
  <1>1. /\ Typed /\ Order
        /\ opening = <<>> /\ opening' = <<>> /\ closing = <<>> /\ opened' = opened
        /\ live' = live /\ lost' = lost
    BY DEF LInv, Staged, ToolsetOpening, CloseNext, books
  <1>2. Elems(opening) = {} /\ Elems(opening') = {} /\ Elems(closing) = {} /\ Sorted(opening')
    BY <1>1, Empty
  <1>3. Pending = {} /\ Pending' = Elems(closing')
    BY <1>2 DEF Pending
  <1>4. Below(Held(toolsetClosers), Held(modelClosers))
    BY <1>1 DEF Order
  <1>5. CASE /\ modelClosers # <<>>
             /\ closing' = modelClosers[Len(modelClosers)]
             /\ modelClosers' = SubSeq(modelClosers, 1, Len(modelClosers) - 1)
             /\ toolsetClosers' = toolsetClosers
    <2>1. /\ modelClosers' \in Seq(Seq(Nat)) /\ Nested(modelClosers')
          /\ closing' \in Seq(Nat) /\ Sorted(closing')
          /\ Held(modelClosers) = Held(modelClosers') \cup Elems(closing')
          /\ Below(Held(modelClosers'), Elems(closing'))
      BY <1>1, <1>5, PoppedCloser DEF Typed, Order
    <2>2. Kept \cup Pending = Kept' \cup Pending'
      BY <1>3, <1>5, <2>1 DEF Kept
    <2>3. Below(Kept', Pending') /\ Below(Held(toolsetClosers'), Held(modelClosers'))
      BY <1>3, <1>4, <1>5, <2>1 DEF Kept, Below
    <2> QED
      BY <1>1, <1>2, <1>5, <2>1, <2>2, <2>3 DEF Typed, Order
  <1>6. CASE /\ modelClosers = <<>>
             /\ toolsetClosers # <<>>
             /\ closing' = toolsetClosers[Len(toolsetClosers)]
             /\ toolsetClosers' = SubSeq(toolsetClosers, 1, Len(toolsetClosers) - 1)
             /\ modelClosers' = modelClosers
    <2>1. /\ toolsetClosers' \in Seq(Seq(Nat)) /\ Nested(toolsetClosers')
          /\ closing' \in Seq(Nat) /\ Sorted(closing')
          /\ Held(toolsetClosers) = Held(toolsetClosers') \cup Elems(closing')
          /\ Below(Held(toolsetClosers'), Elems(closing'))
      BY <1>1, <1>6, PoppedCloser DEF Typed, Order
    <2>0. Held(modelClosers) = {} /\ Held(modelClosers') = {}
      BY <1>6, Empty
    <2>2. Kept \cup Pending = Kept' \cup Pending'
      BY <1>3, <2>0, <2>1 DEF Kept
    <2>3. Below(Kept', Pending') /\ Below(Held(toolsetClosers'), Held(modelClosers'))
      BY <1>3, <2>0, <2>1 DEF Kept, Below
    <2> QED
      BY <1>1, <1>2, <1>6, <2>1, <2>2, <2>3 DEF Typed, Order
  <1> QED
    BY <1>5, <1>6 DEF CloseNext

\* A closer closes what it opened last, which is the last of everything open.
LEMMA ClosesInOrder ==
    ASSUME LInv, CloseOne
    PROVE  /\ Typed' /\ Order'
           /\ \A r \in live \ live' : r \notin lost /\ \A other \in live \ lost : other <= r
  <1> DEFINE x == closing[Len(closing)]
  <1>1. /\ Typed /\ Order
        /\ opening = <<>> /\ opening' = <<>> /\ opened' = opened
        /\ closing # <<>> /\ closing' = SubSeq(closing, 1, Len(closing) - 1)
        /\ live' = live \ {x} /\ lost' = lost
        /\ toolsetClosers' = toolsetClosers /\ modelClosers' = modelClosers
    BY DEF LInv, Staged, ToolsetOpening, CloseOne, closers
  <1>2. Elems(opening) = {} /\ Elems(opening') = {} /\ Sorted(opening')
    BY <1>1, Empty
  <1>3. /\ closing' \in Seq(Nat) /\ Sorted(closing')
        /\ x \in Nat
        /\ Elems(closing) = Elems(closing') \cup {x}
        /\ Below(Elems(closing'), {x})
    BY <1>1, Popped DEF Typed, Order
  <1> HIDE DEF x
  <1>4. Pending = Elems(closing') \cup {x} /\ Pending' = Elems(closing') /\ Kept' = Kept
    BY <1>1, <1>2, <1>3 DEF Pending, Kept
  <1>5. Below(Kept, Pending') /\ Below(Kept, {x}) /\ Below(Pending', {x})
    BY <1>1, <1>3, <1>4 DEF Order, Below
  <1>6. x \notin Kept /\ x \notin Pending' /\ x \notin lost
    <2>1. ~(x < x)
      BY <1>3
    <2> QED
      BY <1>1, <1>4, <1>5, <2>1 DEF Order, Below
  <1>7. live' = lost' \cup Kept' \cup Pending' /\ lost' \cap (Kept' \cup Pending') = {}
    BY <1>1, <1>4, <1>6 DEF Order
  <1>8. Typed' /\ Order'
    BY <1>1, <1>2, <1>3, <1>4, <1>5, <1>7 DEF Typed, Order
  <1>9. ASSUME NEW other \in live \ lost PROVE other <= x
    <2>1. other \in Kept \/ other \in Pending' \/ other = x
      BY <1>1, <1>4 DEF Order
    <2>2. other < x \/ other = x
      BY <1>5, <2>1 DEF Below
    <2>3. other \in Nat
      BY <1>1 DEF Typed
    <2> QED
      BY <1>3, <2>2, <2>3
  <1> QED
    BY <1>1, <1>6, <1>8, <1>9

-----------------------------------------------------------------------------
(* Every step *)

\* Steps that hold the same before and after.
LEMMA StillKeeps ==
    ASSUME LInv, UNCHANGED <<opening, closers, closing, books>>,
           stage \notin {"closing", "ended"}, stage' # "ended",
           stage \notin {"resolve", "toolsets"} => stage' \notin {"resolve", "toolsets"},
           opening = <<>>,
           closing # <<>> => stage' \in {"closing", "rollback"},
           Chosen'
    PROVE  LInv'
  BY Rest DEF LInv, Staged, closers, books

LEMMA StepKeeps == LInv /\ [LifeNext]_lifecycleVars => LInv'
  <1> SUFFICES ASSUME LInv, [LifeNext]_lifecycleVars PROVE LInv'
    OBVIOUS
  <1> USE DEF LInv
  <1>1. CASE Resolve
    <2>1. Chosen'
      BY <1>1 DEF Resolve, Chosen
    <2> QED
      BY <1>1, <2>1, StillKeeps DEF Resolve, Staged, ToolsetOpening
  <1>2. CASE OpenPart
    <2>1. closing = <<>>
      BY <1>2 DEF OpenPart, Staged, ToolsetOpening
    <2>2. Typed' /\ Order'
      BY <1>2, <2>1, OpensInOrder DEF OpenPart
    <2> QED
      BY <1>2, <2>1, <2>2 DEF OpenPart, Staged, ToolsetOpening, Chosen, NothingOpened,
                               PartOpened, closers, books, selection
  <1>3. CASE OpenPartFails
    <2>1. closing = <<>>
      BY <1>3 DEF OpenPartFails, Staged, ToolsetOpening
    <2>2. Typed' /\ Order'
      BY <1>3, <2>1, FailsInOrder DEF OpenPartFails
    <2> QED
      BY <1>3, <2>2 DEF OpenPartFails, Staged, ToolsetOpening, Chosen, selection
  <1>4. CASE ToolsetOpened
    <2>1. closing = <<>> /\ modelClosers = <<>>
      BY <1>4 DEF ToolsetOpened, Staged, ToolsetOpening
    <2>2. Typed' /\ Order'
      BY <1>4, <2>1, EntersInOrder DEF ToolsetOpened
    <2> QED
      BY <1>4, <2>1, <2>2 DEF ToolsetOpened, Staged, ToolsetOpening, Chosen, books, selection
  <1>5. CASE ToolsetsOpened
    <2>1. ~ToolsetOpening
      BY <1>5, LifecycleAssumption DEF ToolsetsOpened, ToolsetOpening
    <2> QED
      BY <1>5, <2>1, StillKeeps DEF ToolsetsOpened, Staged, ToolsetOpening, Chosen
  <1>6. CASE Select
    <2>1. Chosen'
      BY <1>6 DEF Select, Enter, Chosen
    <2> QED
      BY <1>6, <2>1, StillKeeps DEF Select, Enter, Staged, ToolsetOpening
  <1>7. CASE SelectFails
    BY <1>7, StillKeeps DEF SelectFails, Staged, ToolsetOpening, Chosen
  <1>8. CASE OpenModel
    <2>1. closing = <<>>
      BY <1>8 DEF OpenModel, Staged, ToolsetOpening
    <2>2. Typed' /\ Order'
      BY <1>8, <2>1, OpensInOrder DEF OpenModel
    <2> QED
      BY <1>8, <2>1, <2>2 DEF OpenModel, Staged, ToolsetOpening, Chosen, NothingOpened,
                               PartOpened, closers, books, selection
  <1>9. CASE OpenModelFails
    <2>1. closing = <<>>
      BY <1>9 DEF OpenModelFails, Staged, ToolsetOpening
    <2>2. Typed' /\ Order'
      BY <1>9, <2>1, FailsInOrder DEF OpenModelFails
    <2> QED
      BY <1>9, <2>2 DEF OpenModelFails, Staged, ToolsetOpening, Chosen, books, selection
  <1>10. CASE ModelOpened
    <2>1. closing = <<>>
      BY <1>10 DEF ModelOpened, Staged, ToolsetOpening
    <2>2. Typed' /\ Order'
      BY <1>10, <2>1, EntersInOrder DEF ModelOpened
    <2> QED
      BY <1>10, <2>1, <2>2 DEF ModelOpened, Staged, ToolsetOpening, Chosen, books
  <1>11. CASE Hooks
    <2>1. Chosen'
      BY <1>11 DEF Hooks, Enter, Chosen
    <2> QED
      BY <1>11, <2>1, StillKeeps DEF Hooks, Enter, Staged, ToolsetOpening
  <1>12. CASE HooksFail
    BY <1>12, StillKeeps DEF HooksFail, Staged, ToolsetOpening, Chosen
  <1>13. CASE Respond
    BY <1>13, StillKeeps DEF Respond, Leave, Staged, ToolsetOpening, Chosen
  <1>14. CASE AskAgain
    BY <1>14, StillKeeps DEF AskAgain, Staged, ToolsetOpening, Chosen
  <1>15. CASE GiveUp
    BY <1>15, StillKeeps DEF GiveUp, Leave, Staged, ToolsetOpening, Chosen
  <1>16. CASE CloseOne
    <2>1. Typed' /\ Order'
      BY <1>16, ClosesInOrder
    <2> QED
      BY <1>16, <2>1 DEF CloseOne, Staged, ToolsetOpening, Chosen, closers, selection
  <1>17. CASE RolledBack
    BY <1>17, StillKeeps DEF RolledBack, Staged, ToolsetOpening, Chosen
  <1>18. CASE CloseNext
    <2>1. Typed' /\ Order'
      BY <1>18, NextInOrder
    <2> QED
      BY <1>18, <2>1 DEF CloseNext, Staged, ToolsetOpening, Chosen, books, selection
  <1>19. CASE EndRun
    <2>1. Typed' /\ Order'
      BY <1>19, Rest DEF EndRun
    <2> QED
      BY <1>19, <2>1 DEF EndRun, Staged, ToolsetOpening, Chosen, closers, books, selection
  <1>20. CASE UNCHANGED lifecycleVars
    <2>1. Typed' /\ Order'
      BY <1>20, Rest DEF lifecycleVars
    <2> QED
      BY <1>20, <2>1 DEF lifecycleVars, Staged, ToolsetOpening, Chosen, closers, books,
                          selection, outcome
  <1> QED
    BY <1>1, <1>2, <1>3, <1>4, <1>5, <1>6, <1>7, <1>8, <1>9, <1>10, <1>11, <1>12, <1>13,
       <1>14, <1>15, <1>16, <1>17, <1>18, <1>19, <1>20 DEF LifeNext

\* The inductive invariant: what a run holds at each place, in the order of its opening.
THEOREM ResourcesOrdered == LifeSpec => []LInv
  <1>1. LifeInit => LInv
    <2> SUFFICES ASSUME LifeInit PROVE LInv
      OBVIOUS
    <2>1. Kept = {} /\ Pending = {}
      BY Empty DEF LifeInit, Kept, Pending
    <2> QED
      BY <2>1, Empty DEF LifeInit, LInv, Typed, Order, Staged, Chosen, Below
  <1> QED
    BY <1>1, StepKeeps, PTL DEF LifeSpec

\* Whatever fails to open or to close, what a run closes is what it opened last, and it ends
\* with everything closed.
THEOREM AllReleased == LifeSpec => Released
  <1>1. LInv /\ [LifeNext]_lifecycleVars => [ReleaseStep]_lifecycleVars
    <2> SUFFICES ASSUME LInv, LInv', LifeNext PROVE ReleaseStep
      BY StepKeeps
    <2>1. \A r \in live \ live' : \A other \in live \ lost : other <= r /\ r \notin lost
      <3>1. CASE CloseOne
        BY <3>1, ClosesInOrder
      <3>2. CASE ~CloseOne
        <4>1. live \subseteq live'
          BY <3>2 DEF LifeNext, Resolve, OpenPart, OpenPartFails, ToolsetOpened, ToolsetsOpened,
                      Select, SelectFails, OpenModel, OpenModelFails, ModelOpened, Hooks,
                      HooksFail, Respond, AskAgain, GiveUp, RolledBack, CloseNext, EndRun,
                      NothingOpened, PartOpened, PartLost, Leave, books
        <4> QED
          BY <4>1
      <3> QED
        BY <3>1, <3>2
    <2>2. ASSUME stage' = "ended" PROVE live' = lost' /\ (result' => left' \/ ~failed')
      <3>1. /\ toolsetClosers' = <<>> /\ modelClosers' = <<>>
            /\ opening' = <<>> /\ closing' = <<>>
            /\ result' => left' \/ ~failed'
        BY <2>2 DEF LInv, Staged, ToolsetOpening
      <3>2. Kept' = {} /\ Pending' = {}
        BY <3>1, Empty DEF Kept, Pending
      <3> QED
        BY <3>1, <3>2 DEF LInv, Order
    <2> QED
      BY <2>1, <2>2 DEF ReleaseStep
  <1> QED
    BY ResourcesOrdered, <1>1, PTL DEF LifeSpec, Released

\* While the run goes on, each model it remembers has been opened and has its closer.
Matched ==
    /\ IsFiniteSet(entered)
    /\ stage \notin {"closing", "ended"} => Len(modelClosers) = Cardinality(entered)

LEMMA StillMatched ==
    ASSUME LInv, Matched, [LifeNext]_lifecycleVars
    PROVE  Matched'
  <1>1. CASE ModelOpened
    <2>1. /\ entered' = entered \cup {model} /\ model \notin entered
          /\ modelClosers' = Append(modelClosers, opening)
          /\ modelClosers \in Seq(Seq(Nat)) /\ opening \in Seq(Nat)
          /\ Len(modelClosers) = Cardinality(entered)
      BY <1>1 DEF ModelOpened, LInv, Chosen, Typed, Matched
    <2>2. IsFiniteSet(entered') /\ Cardinality(entered') = Cardinality(entered) + 1
      BY <2>1, FS_AddElement DEF Matched
    <2>3. Len(modelClosers') = Len(modelClosers) + 1
      BY <2>1
    <2> QED
      BY <2>1, <2>2, <2>3 DEF Matched
  <1>2. CASE stage \in {"closing", "ended"}
    BY <1>2 DEF LifeNext, lifecycleVars, selection, Matched, Resolve, OpenPart, OpenPartFails,
                ToolsetOpened, ToolsetsOpened, ToolsetOpening, Select, SelectFails, OpenModel,
                OpenModelFails, ModelOpened, Hooks, HooksFail, Respond, AskAgain, GiveUp,
                CloseOne, RolledBack, CloseNext, EndRun
  <1>3. CASE ~ModelOpened /\ stage \notin {"closing", "ended"}
    <2>1. entered' = entered /\ modelClosers' = modelClosers
      BY <1>3 DEF LifeNext, lifecycleVars, selection, closers, Resolve, OpenPart, OpenPartFails,
                  ToolsetOpened, ToolsetsOpened, Select, SelectFails, OpenModel, OpenModelFails,
                  Hooks, HooksFail, Respond, Leave, AskAgain, GiveUp, CloseOne, RolledBack,
                  CloseNext, EndRun
    <2> QED
      BY <1>3, <2>1 DEF Matched
  <1> QED
    BY <1>1, <1>2, <1>3

\* A request reaches a model that has been opened, or the one that did not open when a wrapper
\* calls next again; whatever failed to open before, all that is open has a closer and all that
\* has a closer is open; and no model is opened twice.
THEOREM AskedWhileOpen == LifeSpec => []UsedWhileOpen
  <1>1. LifeInit => Matched
    BY FS_EmptySet DEF LifeInit, Matched
  <1>2. LInv /\ Matched => UsedWhileOpen
    <2> SUFFICES ASSUME LInv, Matched PROVE UsedWhileOpen
      OBVIOUS
    <2>1. ASSUME stage = "request" PROVE live = Held(toolsetClosers) \cup Held(modelClosers)
      <3>1. opening = <<>> /\ closing = <<>> /\ lost = {}
        BY <2>1 DEF LInv, Staged, ToolsetOpening
      <3>2. Pending = {}
        BY <3>1, Empty DEF Pending
      <3> QED
        BY <3>1, <3>2 DEF LInv, Order, Kept
    <2> QED
      BY <2>1 DEF LInv, Chosen, Matched, UsedWhileOpen
  <1>3. LInv /\ Matched /\ [LifeNext]_lifecycleVars => Matched'
    BY StillMatched
  <1> QED
    BY ResourcesOrdered, <1>1, <1>2, <1>3, PTL DEF LifeSpec

-----------------------------------------------------------------------------
(* Lifecycle: the types *)

\* What selects, counts and ends.
Control ==
    /\ stage \in Stages
    /\ nth \in Nat /\ toolsets \in 0..Len(Parts)
    /\ model \in Models /\ entered \subseteq Models
    /\ switched \in BOOLEAN /\ refused \subseteq Models
    /\ result \in BOOLEAN /\ failed \in BOOLEAN /\ left \in BOOLEAN
    /\ steps \in 0..MaxSteps /\ again \in 0..MaxAgain

\* Every step keeps their types.
LEMMA ControlKeeps ==
    ASSUME Control, [LifeNext]_lifecycleVars
    PROVE  Control'
  <1> USE LifecycleAssumption DEF Control, Stages
  <1>1. CASE Resolve
    BY <1>1 DEF Resolve, selection, outcome
  <1>2. CASE OpenPart
    BY <1>2 DEF OpenPart, selection, outcome
  <1>3. CASE OpenPartFails
    BY <1>3 DEF OpenPartFails, selection, outcome
  <1>4. CASE ToolsetOpened
    <2>1. Len(Parts) \in Nat /\ toolsets < Len(Parts)
      BY <1>4 DEF ToolsetOpened, ToolsetOpening
    <2>2. toolsets' \in 0..Len(Parts) /\ nth' \in Nat
      BY <1>4, <2>1 DEF ToolsetOpened
    <2> QED
      BY <1>4, <2>2 DEF ToolsetOpened, selection, outcome
  <1>5. CASE ToolsetsOpened
    BY <1>5 DEF ToolsetsOpened, selection, outcome
  <1>6. CASE Select
    <2>1. steps' \in 0..MaxSteps
      BY <1>6 DEF Select
    <2>2. model' \in Models /\ stage' \in Stages
      BY <1>6 DEF Select, Enter
    <2> QED
      BY <1>6, <2>1, <2>2 DEF Select, outcome
  <1>7. CASE SelectFails
    BY <1>7 DEF SelectFails, selection, outcome
  <1>8. CASE OpenModel
    BY <1>8 DEF OpenModel, selection, outcome
  <1>9. CASE OpenModelFails
    BY <1>9 DEF OpenModelFails, selection, outcome
  <1>10. CASE ModelOpened
    BY <1>10 DEF ModelOpened, selection, outcome
  <1>11. CASE Hooks
    BY <1>11 DEF Hooks, Enter, selection, outcome
  <1>12. CASE HooksFail
    BY <1>12 DEF HooksFail, selection, outcome
  <1>13. CASE Respond
    BY <1>13 DEF Respond, Leave, selection, outcome
  <1>14. CASE AskAgain
    BY <1>14 DEF AskAgain, selection, outcome
  <1>15. CASE GiveUp
    BY <1>15 DEF GiveUp, Leave, selection, outcome
  <1>16. CASE CloseOne
    BY <1>16 DEF CloseOne, selection, outcome
  <1>17. CASE RolledBack
    BY <1>17 DEF RolledBack, selection, outcome
  <1>18. CASE CloseNext
    BY <1>18 DEF CloseNext, selection, outcome
  <1>19. CASE EndRun
    BY <1>19 DEF EndRun, selection, outcome
  <1>20. CASE UNCHANGED lifecycleVars
    BY <1>20 DEF lifecycleVars, selection, outcome
  <1> QED
    BY <1>1, <1>2, <1>3, <1>4, <1>5, <1>6, <1>7, <1>8, <1>9, <1>10, <1>11, <1>12, <1>13,
       <1>14, <1>15, <1>16, <1>17, <1>18, <1>19, <1>20 DEF LifeNext

\* A sequence is one of the members of a set that all its elements belong to.
LEMMA Narrowed ==
    ASSUME NEW T, NEW s \in Seq(T), NEW S, \A i \in 1..Len(s) : s[i] \in S
    PROVE  s \in Seq(S)
  <1>1. Len(s) \in Nat /\ s \in [1..Len(s) -> S]
    BY LenProperties
  <1> QED
    BY <1>1, SeqDef

\* A sequence of numbers is one of resources when its elements are.
LEMMA OfResources ==
    ASSUME NEW s \in Seq(Nat), Elems(s) \subseteq Resources
    PROVE  s \in Seq(Resources)
  <1>1. \A i \in 1..Len(s) : s[i] \in Resources
    BY DEF Elems
  <1> QED
    BY <1>1, Narrowed

\* What was opened has been numbered: everything a run is opening, has closers for, is closing
\* or has lost is among the resources opened so far (toolset_open.go and the closers of
\* loop.go).
THEOREM ResourcesKeepTypes == LifeSpec => []ResourcesTyped
  <1>1. LifeInit => Control
    <2> SUFFICES ASSUME LifeInit PROVE Control
      OBVIOUS
    <2>1. Len(Parts) \in Nat
      BY LifecycleAssumption
    <2>2. toolsets \in 0..Len(Parts) /\ steps \in 0..MaxSteps /\ again \in 0..MaxAgain
      BY <2>1, LifecycleAssumption DEF LifeInit
    <2>3. switched \in BOOLEAN /\ refused \subseteq Models
      BY DEF LifeInit
    <2>4. result \in BOOLEAN /\ failed \in BOOLEAN /\ left \in BOOLEAN
      BY DEF LifeInit
    <2>5. stage \in Stages /\ nth \in Nat /\ model \in Models /\ entered \subseteq Models
      BY DEF LifeInit, Stages
    <2> QED
      BY <2>2, <2>3, <2>4, <2>5 DEF Control
  <1>2. LInv /\ Control => ResourcesTyped
    <2> SUFFICES ASSUME LInv, Control PROVE ResourcesTyped
      OBVIOUS
    <2>1. Typed /\ Kept \cup Pending \subseteq live
      BY Open DEF LInv
    <2>2. /\ Elems(opening) \subseteq Resources /\ Elems(closing) \subseteq Resources
          /\ Held(toolsetClosers) \subseteq Resources /\ Held(modelClosers) \subseteq Resources
          /\ live \subseteq Resources /\ lost \subseteq Resources
      BY <2>1 DEF LInv, Order, Typed, Kept, Pending, Resources
    <2>3. opening \in Seq(Resources) /\ closing \in Seq(Resources)
      BY <2>1, <2>2, OfResources DEF Typed
    <2>4. ASSUME NEW list \in Seq(Seq(Nat)), Held(list) \subseteq Resources
          PROVE  list \in Seq(Seq(Resources))
      <3>1. \A i \in 1 .. Len(list) : list[i] \in Seq(Nat) /\ Elems(list[i]) \subseteq Resources
        BY <2>4 DEF Held
      <3>2. \A i \in 1 .. Len(list) : list[i] \in Seq(Resources)
        BY <3>1, OfResources
      <3> QED
        BY <3>2, Narrowed
    <2>5. toolsetClosers \in Seq(Seq(Resources)) /\ modelClosers \in Seq(Seq(Resources))
      BY <2>1, <2>2, <2>4 DEF Typed
    <2> QED
      BY <2>1, <2>2, <2>3, <2>5 DEF ResourcesTyped, Control, Typed
  <1> QED
    BY <1>1, <1>2, ControlKeeps, ResourcesOrdered, PTL DEF LifeSpec
=============================================================================
