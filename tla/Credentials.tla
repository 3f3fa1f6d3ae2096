---------------------------- MODULE Credentials ----------------------------
(***************************************************************************)
(* The credential manager of the models that authenticate with OAuth       *)
(* tokens (src/ai/internal/oauthcreds): loading a set on first use,        *)
(* refreshing it before it expires or after a 401, one flight at a time,   *)
(* and saving the rotated set to a storage that several processes share.   *)
(*                                                                         *)
(* A credential set is a number, in the order in which the provider issued *)
(* them; 0 is no set.  Refresh tokens are single-use: the provider issues  *)
(* a new set for one it has not exchanged yet, and refuses it afterwards.  *)
(***************************************************************************)
EXTENDS Naturals, FiniteSets

CONSTANTS
    Requests,       \* HTTP requests through Transport
    Process,        \* Process[r]: the process whose manager request r uses
    MaxSets,        \* bound: sets the provider issues
    MaxFailures     \* bound: refreshes a process fails

Processes == {Process[r] : r \in Requests}

VARIABLES
    store,          \* the set the shared storage holds
    issued,         \* sets issued so far
    spent,          \* sets whose refresh token the provider has exchanged
    expired,        \* sets whose access token the provider refuses
    \* of each process: the fields of its Manager
    held, revision, failureCount, lastFailure, loadFlight, refreshFlight, unsavedPredecessor,
    exchanged,      \* sets it exchanged for a new one itself
    \* of each request
    at,             \* where it is
    local           \* its variables: the set, revision and failure count it last saw, what it
                    \* refreshes for, what its refresh found in the storage, and its outcome

provider  == <<store, issued, spent, expired>>
flights   == <<loadFlight, refreshFlight>>
managed   == <<held, revision, failureCount, lastFailure, flights, unsavedPredecessor, exchanged>>
vars      == <<provider, managed, at, local>>

NoFailure == [revision |-> 0, err |-> "none"]
Nobody    == "nobody"
Fresh     == [set |-> 0, revision |-> 0, failures |-> 0, purpose |-> "none", stored |-> 0,
              outcome |-> "none"]

ASSUME RequestsAssumption == Nobody \notin Requests

TypeOK ==
    /\ store \in 1..issued /\ spent \subseteq 1..issued /\ expired \subseteq 1..issued
    /\ held \in [Processes -> 0..issued]
    /\ loadFlight \in [Processes -> Requests \cup {Nobody}]
    /\ refreshFlight \in [Processes -> Requests \cup {Nobody}]
    /\ at \in [Requests -> {"idle", "loading", "awaitLoad", "snapshot", "enter", "source",
                            "exchange", "save", "settle", "awaitRefresh", "woken", "send",
                            "replay", "done", "failed"}]
    /\ \A p \in Processes : LET owner == refreshFlight[p] IN
          owner # Nobody => at[owner] \in {"source", "exchange", "save", "settle"}

Init ==
    /\ store = 1 /\ issued = 1 /\ spent = {} /\ expired = {}
    /\ held \in [Processes -> {0, 1}]
    /\ revision = [p \in Processes |-> 0]
    /\ failureCount = [p \in Processes |-> 0]
    /\ lastFailure = [p \in Processes |-> NoFailure]
    /\ loadFlight = [p \in Processes |-> Nobody]
    /\ refreshFlight = [p \in Processes |-> Nobody]
    /\ unsavedPredecessor = [p \in Processes |-> 0]
    /\ exchanged = [p \in Processes |-> {}]
    /\ at = [r \in Requests |-> "idle"]
    /\ local = [r \in Requests |-> Fresh]

Goto(r, place) == at' = [at EXCEPT ![r] = place]
End(r, how) == Goto(r, how) /\ local' = [local EXCEPT ![r] = Fresh]

(* ---- loading on first use -------------------------------------------- *)

\* load: the set is there, another request is loading it, or this one does.
Load(r) ==
    LET p == Process[r] IN
    /\ at[r] = "idle"
    /\ \/ held[p] # 0 /\ Goto(r, "snapshot") /\ UNCHANGED loadFlight
       \/ held[p] = 0 /\ loadFlight[p] # Nobody /\ Goto(r, "awaitLoad") /\ UNCHANGED loadFlight
       \/ /\ held[p] = 0 /\ loadFlight[p] = Nobody
          /\ loadFlight' = [loadFlight EXCEPT ![p] = r] /\ Goto(r, "loading")
    /\ UNCHANGED <<provider, held, revision, failureCount, lastFailure, refreshFlight,
                   unsavedPredecessor, exchanged, local>>

\* The load is over, and with it the wait of those that joined it.
Loaded(r) ==
    LET p == Process[r]
        waiting == {q \in Requests : Process[q] = p /\ at[q] = "awaitLoad"} IN
    /\ at[r] = "loading"
    /\ \E ok \in BOOLEAN :
         /\ held' = IF ok THEN [held EXCEPT ![p] = store] ELSE held
         /\ at' = [q \in Requests |-> IF q \notin {r} \cup waiting THEN at[q]
                                      ELSE IF ok THEN "snapshot" ELSE "failed"]
    /\ loadFlight' = [loadFlight EXCEPT ![p] = Nobody]
    /\ UNCHANGED <<provider, revision, failureCount, lastFailure, refreshFlight,
                   unsavedPredecessor, exchanged, local>>

(* ---- a request -------------------------------------------------------- *)

\* Prepare: a set whose expiry hint is near is refreshed first, once.  The hint and the clock
\* of the process are no matter of the provider, which may go on accepting the set.
Snapshot(r) ==
    LET p == Process[r] IN
    /\ at[r] = "snapshot"
    /\ \E purpose \in {local[r].purpose, "stale"} :
         /\ IF purpose = local[r].purpose THEN Goto(r, "send")
            ELSE Goto(r, "enter")
         /\ local' = [local EXCEPT ![r] =
                        [set |-> held[p], revision |-> revision[p], failures |-> failureCount[p],
                         purpose |-> purpose, stored |-> 0, outcome |-> "none"]]
    /\ UNCHANGED <<provider, managed>>

\* RoundTrip: an answer other than a 401 ends the request.
Send(r) ==
    /\ at[r] = "send"
    /\ IF local[r].set \in expired
       THEN Goto(r, "enter") /\ local' = [local EXCEPT ![r].purpose = "unauthorized"]
       ELSE End(r, "done")
    /\ UNCHANGED <<provider, managed>>

(* ---- refreshRevision -------------------------------------------------- *)

SharedFailure(r) ==
    LET p == Process[r] IN
    /\ lastFailure[p].err # "none" /\ lastFailure[p].revision = local[r].revision
    /\ failureCount[p] # local[r].failures

\* The set was rotated meanwhile, or the refresh of it failed meanwhile.
EnterLate(r) ==
    LET p == Process[r] IN
    /\ at[r] = "enter"
    /\ \/ /\ revision[p] # local[r].revision
          /\ local' = [local EXCEPT ![r].outcome = "ok"]
       \/ /\ revision[p] = local[r].revision /\ SharedFailure(r)
          /\ local' = [local EXCEPT ![r].outcome = lastFailure[p].err]
    /\ Goto(r, "woken")
    /\ UNCHANGED <<provider, managed>>

\* A flight is under way, whatever revision it was started for.
Join(r) ==
    LET p == Process[r] IN
    /\ at[r] = "enter" /\ revision[p] = local[r].revision /\ ~SharedFailure(r)
    /\ refreshFlight[p] # Nobody
    /\ Goto(r, "awaitRefresh")
    /\ local' = [local EXCEPT ![r].outcome =
                   IF local[refreshFlight[p]].revision = local[r].revision THEN "none"
                   ELSE "late"]
    /\ UNCHANGED <<provider, managed>>

TakeOff(r) ==
    LET p == Process[r] IN
    /\ at[r] = "enter" /\ revision[p] = local[r].revision /\ ~SharedFailure(r)
    /\ refreshFlight[p] = Nobody
    /\ refreshFlight' = [refreshFlight EXCEPT ![p] = r]
    /\ local' = [local EXCEPT ![r].set = held[p]]
    /\ Goto(r, "source")
    /\ UNCHANGED <<provider, held, revision, failureCount, lastFailure, loadFlight,
                   unsavedPredecessor, exchanged>>

\* A waiting request whose context is done leaves.
GiveUpWaiting(r) ==
    /\ at[r] \in {"awaitLoad", "awaitRefresh"} /\ End(r, "failed")
    /\ UNCHANGED <<provider, managed>>

(* ---- refresh, in the flight of request r ------------------------------ *)

Replace(p, set) ==
    /\ held' = [held EXCEPT ![p] = set]
    /\ revision' = [revision EXCEPT ![p] = @ + 1]
    /\ lastFailure' = [lastFailure EXCEPT ![p] = NoFailure]

Land(r, outcome) == Goto(r, "settle") /\ local' = [local EXCEPT ![r].outcome = outcome]

\* Mutant: the set this process has spent is adopted again.
AdoptableAny(p, set, rejected) == set # rejected

\* A set another process saved is adopted, but not the one this process has spent.
Adoptable(p, set, rejected) == set # rejected /\ set # unsavedPredecessor[p]

LoadStored(r) ==
    LET p == Process[r] IN
    /\ at[r] = "source"
    /\ \/ /\ failureCount[p] < MaxFailures /\ Land(r, "failed")
          /\ UNCHANGED <<held, revision, lastFailure, unsavedPredecessor>>
       \/ /\ Adoptable(p, store, local[r].set)
          /\ Replace(p, store)
          /\ unsavedPredecessor' = [unsavedPredecessor EXCEPT ![p] = 0]
          /\ Land(r, "ok")
       \/ /\ ~Adoptable(p, store, local[r].set)
          /\ local' = [local EXCEPT ![r].stored = store]
          /\ Goto(r, "exchange")
          /\ UNCHANGED <<held, revision, lastFailure, unsavedPredecessor>>
    /\ UNCHANGED <<provider, failureCount, flights, exchanged>>

\* hooks.Refresh.  An answer that is lost leaves the token exchanged and the process with
\* nothing to show for it.
Exchange(r) ==
    LET p == Process[r]
        refused == local[r].set \in spent \/ issued = MaxSets IN
    /\ at[r] = "exchange"
    /\ spent' \in {spent, spent \cup {local[r].set}}
    /\ \/ /\ ~refused /\ local[r].set \in spent'
          /\ issued' = issued + 1
          /\ exchanged' = [exchanged EXCEPT ![p] = @ \cup {local[r].set}]
          /\ Replace(p, issued + 1)
          /\ Goto(r, "save") /\ UNCHANGED local
       \/ /\ refused \/ failureCount[p] < MaxFailures
          /\ Land(r, "failed")
          /\ UNCHANGED <<issued, held, revision, lastFailure, exchanged>>
    /\ UNCHANGED <<store, expired, failureCount, flights, unsavedPredecessor>>

Save(r) ==
    LET p == Process[r] IN
    /\ at[r] = "save"
    /\ \/ /\ store' = held[p] /\ Land(r, "ok")
          /\ unsavedPredecessor' = [unsavedPredecessor EXCEPT ![p] = 0]
       \/ /\ failureCount[p] < MaxFailures /\ Land(r, "unsaved")
          /\ unsavedPredecessor' = [unsavedPredecessor EXCEPT ![p] = local[r].stored]
          /\ UNCHANGED store
    /\ UNCHANGED <<issued, spent, expired, held, revision, failureCount, lastFailure, flights,
                   exchanged>>

\* The flight is over: the failure is recorded, and those that joined it share its result.
Joined(r) == {q \in Requests : Process[q] = Process[r] /\ at[q] = "awaitRefresh"}

\* Mutant: those that joined do not learn of the failure.
SharedSuccess(q, outcome) == IF local[q].outcome = "late" THEN "late" ELSE "ok"

Shared(q, outcome) == IF local[q].outcome = "late" /\ outcome = "ok" THEN "late" ELSE outcome

\* Mutant: those that joined are not woken.
SettleAlone(r) ==
    /\ at[r] = "settle" /\ Goto(r, "woken")
    /\ refreshFlight' = [refreshFlight EXCEPT ![Process[r]] = Nobody]
    /\ UNCHANGED <<provider, held, revision, failureCount, lastFailure, loadFlight,
                   unsavedPredecessor, exchanged, local>>

\* A failure is recorded and shared with the requests that joined the flight.
Release(r) ==
    LET p == Process[r]
        failed == local[r].outcome # "ok" IN
    /\ at[r] = "settle"
    /\ failureCount' = [failureCount EXCEPT ![p] = IF failed THEN @ + 1 ELSE @]
    /\ lastFailure' = [lastFailure EXCEPT ![p] =
         IF failed THEN [revision |-> local[r].revision, err |-> local[r].outcome] ELSE @]
    /\ at' = [q \in Requests |-> IF q \in {r} \cup Joined(r) THEN "woken" ELSE at[q]]
    /\ local' = [q \in Requests |->
         IF q \in Joined(r)
         THEN [local[q] EXCEPT !.outcome = Shared(q, local[r].outcome)] ELSE local[q]]
    /\ UNCHANGED <<provider, held, revision, loadFlight, unsavedPredecessor, exchanged>>

\* Mutant: the next request joins a flight that has landed.
SettleStaying(r) == Release(r) /\ UNCHANGED refreshFlight

Settle(r) == Release(r) /\ refreshFlight' = [refreshFlight EXCEPT ![Process[r]] = Nobody]

\* Before a request only a failed save is an error; after a 401 every failure is, and the
\* request is sent again with what the process holds now.
Continue(r) ==
    /\ at[r] = "woken"
    /\ CASE local[r].purpose = "stale" /\ local[r].outcome # "unsaved" ->
              Goto(r, "snapshot") /\ UNCHANGED local
         [] local[r].purpose = "unauthorized" /\ local[r].outcome \in {"ok", "late"} ->
              Goto(r, "replay") /\ UNCHANGED local
         [] OTHER -> End(r, "failed")
    /\ UNCHANGED <<provider, managed>>

\* The second answer is returned whatever it is.
Replay(r) ==
    /\ at[r] = "replay" /\ End(r, "done")
    /\ UNCHANGED <<provider, managed>>

\* The provider stops accepting an access token.
Expire ==
    /\ \E set \in (1..issued) \ expired : expired' = expired \cup {set}
    /\ UNCHANGED <<store, issued, spent, managed, at, local>>

Step(r) == \/ Load(r) \/ Loaded(r) \/ Snapshot(r) \/ Send(r)
           \/ EnterLate(r) \/ Join(r) \/ TakeOff(r)
           \/ LoadStored(r) \/ Exchange(r) \/ Save(r) \/ Settle(r) \/ Continue(r) \/ Replay(r)

Next == Expire \/ \E r \in Requests : Step(r) \/ GiveUpWaiting(r)

Spec == Init /\ [][Next]_vars

(* ---- properties ------------------------------------------------------- *)

\* A process never presents a refresh token it has already exchanged for a new set, not even
\* when saving that set failed and the storage still holds the old one: the provider would
\* refuse it, and may revoke the whole family (unsavedPredecessor, manager.go:154).
NeverSpendsTwice ==
    \A r \in Requests : at[r] = "exchange" => local[r].set \notin exchanged[Process[r]]

\* The request sent again after a 401 bears another set than the refused one, whoever
\* rotated it.  The exception is a request that was refused with a set whose own flight was
\* still saving it: it joins that flight (manager.go:120), whose success says nothing about
\* the refused set.
ReplaysFreshSet ==
    \A r \in Requests : at[r] = "replay" =>
        held[Process[r]] # local[r].set \/ local[r].outcome = "late"

\* Nobody waits for a flight that has landed: whoever joins one is woken by it, also when it
\* fails, and a request that finds none starts one (the channel closed at manager.go:141).
WaitsForFlight ==
    \A r \in Requests :
        /\ at[r] = "awaitLoad" => loadFlight[Process[r]] # Nobody
        /\ at[r] = "awaitRefresh" => refreshFlight[Process[r]] # Nobody
=============================================================================
