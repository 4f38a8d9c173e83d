--------------------------- MODULE ReplyLifecycle ---------------------------
(***************************************************************************)
(* What the pending reply of a conversation promises, with no store, queue *)
(* or worker in sight: one reply at a time, opened by a request that is    *)
(* being served, settled once, told part by part, forgotten only when it   *)
(* was told or failed, or was never promised after all.                    *)
(***************************************************************************)
EXTENDS Naturals

CONSTANTS Requests, NoRequest

VARIABLES phase,   \* none, preparing, ready, told, failed
          owner,   \* the request the reply answers, NoRequest when none
          part,    \* the part of the reply to tell next or told last
          over     \* the requests that have been answered

vars == <<phase, owner, part, over>>

Init == phase = "none" /\ owner = NoRequest /\ part = 1 /\ over = {}

\* The fast path gave up on r: its answer is being prepared.
Start(r) ==
  /\ phase = "none" /\ r \notin over
  /\ phase' = "preparing" /\ owner' = r /\ part' = 1
  /\ UNCHANGED over

\* The fast path answered r: what follows the answer is kept.
KeepFollowup(r) ==
  /\ phase = "none" /\ r \notin over
  /\ phase' = "ready" /\ owner' = r /\ part' \in {1, 2}
  /\ UNCHANGED over

Settle ==
  /\ phase = "preparing"
  /\ phase' \in {"ready", "failed"}
  /\ UNCHANGED <<owner, part, over>>

Tell == phase = "ready" /\ phase' = "told" /\ UNCHANGED <<owner, part, over>>

NextPart ==
  /\ phase = "told" /\ part = 1
  /\ phase' = "ready" /\ part' = 2
  /\ UNCHANGED <<owner, over>>

Forget ==
  /\ phase \in {"told", "failed"}
  /\ phase' = "none" /\ owner' = NoRequest /\ part' = 1
  /\ UNCHANGED over

\* A request that cannot be queued is answered by taking its promise back.
TakeBack ==
  /\ phase = "preparing" /\ owner \notin over
  /\ phase' = "none" /\ owner' = NoRequest /\ part' = 1
  /\ over' = over \cup {owner}

Close(r) == over' = over \cup {r} /\ UNCHANGED <<phase, owner, part>>

Next ==
  \/ \E r \in Requests : Start(r) \/ KeepFollowup(r) \/ Close(r)
  \/ Settle \/ Tell \/ NextPart \/ Forget \/ TakeBack

Spec == Init /\ [][Next]_vars

=============================================================================
