-------------------------------- MODULE JobQueue --------------------------------
(***************************************************************************)
(* The consumer group of RedisStreamQueue: when it exists, and what it is  *)
(* given.  Entries are numbered as they are added, as stream ids grow.     *)
(* Reclaiming and acknowledging are in Conversation.                       *)
(***************************************************************************)
EXTENDS Integers

VARIABLES
  added,   \* entries ever added
  group,   \* the stream has its consumer group
  last     \* the last entry delivered to the group

queueVars == <<added, group, last>>

QueueTypeOK == added \in Nat /\ group \in BOOLEAN /\ last \in 0..added

QueueInit == added = 0 /\ group = FALSE /\ last = 0

\* Mutant of EnsureGroup: an existing group is set to the end as well.
EnsureGroup_Resets ==
  /\ group' = TRUE
  /\ last' = added
  /\ UNCHANGED added

\* XGROUP CREATE at "$", the end of the stream; BUSYGROUP is no error.
EnsureGroup ==
  /\ group' = TRUE
  /\ last' = IF group THEN last ELSE added
  /\ UNCHANGED added

\* XADD needs no group.
Add == added' = added + 1 /\ UNCHANGED <<group, last>>

\* XREADGROUP gives the next entry.
ReadNext ==
  /\ group
  /\ last < added
  /\ last' = last + 1
  /\ UNCHANGED <<added, group>>

\* Redis comes back empty: no stream, no group.  Ids do not start again.
ForgetStream == group' = FALSE /\ last' = added /\ UNCHANGED added

=============================================================================
