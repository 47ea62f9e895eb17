--------------------------- MODULE ChainFinality ----------------------------
(***************************************************************************)
(* The consensus engine implements Finality: of its queue only the events  *)
(* about confirmed and finalized blocks are announcements, and the secured *)
(* blocks are the volatile blocks with a majority of the votes.            *)
(***************************************************************************)
EXTENDS Chain

IsAnnouncement(e) == e.kind \in {"confirmed", "finalized"}

(* The announcements in a queue, in their order: SelectSeq, written as a   *)
(* recursive function so that the refinement can be proved.                *)
Announcements(q) ==
    LET upto[n \in 0..Len(q)] ==
            IF n = 0 THEN <<>>
            ELSE IF IsAnnouncement(q[n]) THEN Append(upto[n - 1], q[n])
            ELSE upto[n - 1]
    IN  upto[Len(q)]

F == INSTANCE Finality WITH
        secured <- {b \in forktrees : confirmed(b)},
        announcements <- Announcements(events)

(* Every step of the engine is a step of Finality or invisible to it: a    *)
(* block is announced as confirmed once, after its parent; it is finalized *)
(* only when confirmed and only on top of the finalized block; and blocks  *)
(* are announced as finalized in the order in which they were finalized,   *)
(* although injest_vote queues confirmations at the other end.             *)
ImplementsFinality == F!FinalitySpec
=============================================================================
