--------------------------- MODULE ResponseTracker ---------------------------
(***************************************************************************)
(* The book-keeping of requests and answers on the sidecar's protocol:     *)
(* ResponseTracker, and SidecarResponseTracker with the same code, of      *)
(* crates/sidecar/src/protocol.rs.  A request is known by its id, and      *)
(* remembered with its ownership scope and the kind of answer it wants.    *)
(* Answers come from the other side in any order, twice, late, for ids     *)
(* that were never used, for the wrong scope or of the wrong kind; the     *)
(* registering side may use an id again.                                   *)
(***************************************************************************)
EXTENDS Naturals, Sequences, FiniteSets

CONSTANTS
    RequestIdSet, Scopes, AnswerKinds,
    completed_cap,
    MaxRegistrations    \* bound: how often one id is used

ASSUME TrackerAssumption == completed_cap \in Nat \ {0} /\ MaxRegistrations \in Nat

VARIABLES
    tracked,            \* pending: the requests that wait, by id
    completed,
    completed_order,
    registered, accepted, forfeited   \* history: by id, how often

trackerVars == <<tracked, completed, completed_order, registered, accepted, forfeited>>

TrackedRequest == Scopes \X AnswerKinds
NotTracked == <<>>

TrackerInit ==
    /\ tracked = [i \in RequestIdSet |-> NotTracked]
    /\ completed = {} /\ completed_order = <<>>
    /\ registered = [i \in RequestIdSet |-> 0]
    /\ accepted = [i \in RequestIdSet |-> 0]
    /\ forfeited = [i \in RequestIdSet |-> 0]

\* register_request: an id is refused while it waits and while its answer is remembered.
MayRegister_Again(i) == i \notin completed

MayRegister(i) == tracked[i] = NotTracked /\ i \notin completed

register_request(i, r) ==
    /\ registered[i] < MaxRegistrations
    /\ MayRegister(i)
    /\ tracked' = [tracked EXCEPT ![i] = r]
    /\ registered' = [registered EXCEPT ![i] = @ + 1]
    /\ UNCHANGED <<completed, completed_order, accepted, forfeited>>

\* accept_response's end: remember the id, and forget the oldest when there are too many.  The
\* loop that forgets runs at most once, for one id is added and the window was full at most.
Complete(i) ==
    LET order == Append(completed_order, i)
        all == completed \cup {i}
    IN IF Cardinality(all) > completed_cap
       THEN completed_order' = Tail(order) /\ completed' = all \ {Head(order)}
       ELSE completed_order' = order /\ completed' = all

\* accept_response of an answer for id i with scope and kind r.  An answer that does not fit
\* takes the request out all the same: nothing will answer it any more.
accept_response(i, r) ==
    /\ i \notin completed
    /\ tracked[i] # NotTracked
    /\ tracked' = [tracked EXCEPT ![i] = NotTracked]
    /\ IF tracked[i] = r
       THEN /\ Complete(i)
            /\ accepted' = [accepted EXCEPT ![i] = @ + 1]
            /\ UNCHANGED forfeited
       ELSE /\ forfeited' = [forfeited EXCEPT ![i] = @ + 1]
            /\ UNCHANGED <<completed, completed_order, accepted>>
    /\ UNCHANGED registered

TrackerNext ==
    \E i \in RequestIdSet, r \in TrackedRequest : register_request(i, r) \/ accept_response(i, r)

TrackerSpec == TrackerInit /\ [][TrackerNext]_trackerVars

-----------------------------------------------------------------------------
(* Properties. *)

TrackerTypeOK ==
    /\ tracked \in [RequestIdSet -> TrackedRequest \cup {NotTracked}]
    /\ completed \in SUBSET RequestIdSet
    /\ completed_order \in Seq(RequestIdSet)
    /\ registered \in [RequestIdSet -> Nat]
    /\ accepted \in [RequestIdSet -> Nat]
    /\ forfeited \in [RequestIdSet -> Nat]

\* The window of remembered answers stays consistent over any number of requests: the set and
\* the queue hold the same ids, each once and no more than the cap, and no remembered id waits
\* again.  An id the queue lost would be refused for ever, one the set lost would let its
\* duplicate through at once (register_request, accept_response).
WindowIsConsistent ==
    /\ completed = {completed_order[k] : k \in DOMAIN completed_order}
    /\ \A j, k \in DOMAIN completed_order : completed_order[j] = completed_order[k] => j = k
    /\ Len(completed_order) <= completed_cap
    /\ \A i \in completed : tracked[i] = NotTracked

\* Every request is answered at most once, however often its answer comes and also when its id
\* is used again: of the requests registered under an id, those accepted, those that a misfit
\* answer took away, and the one that waits make up all (register_request, accept_response).
OneAnswerPerRequest ==
    \A i \in RequestIdSet :
        registered[i] = accepted[i] + forfeited[i] + (IF tracked[i] = NotTracked THEN 0 ELSE 1)

\* Requests, answers and the window of remembered answers tally: WindowIsConsistent and
\* OneAnswerPerRequest (register_request, accept_response).
RequestsAreAccountedFor == WindowIsConsistent /\ OneAnswerPerRequest
=============================================================================
