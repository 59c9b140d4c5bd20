--------------------------- MODULE ActionHistory ---------------------------
(***************************************************************************)
(* The action history kept in the ControlledJob status                     *)
(* (pkg/events/action_history.go, handler.go): every recorded action      *)
(* becomes status.mostRecentAction and is prepended to                     *)
(* status.actionHistory, which keeps at most HistoryEntriesToKeep entries, *)
(* newest first.  RecordEvent drops an action equal to the most recent one *)
(* once timestamps are ignored.                                            *)
(*                                                                         *)
(* An entry is [type, job]: the event type and the Job it names.  Its      *)
(* message is a function of the two, so it is not kept.  Its timestamp   *)
(* is NowFunc() of the reconcile that records it and is ignored by the    *)
(* de-duplication only: an entry that is prepended always changes the     *)
(* stored object, even when the sequence of [type, job] looks the same.   *)
(* AddsEntry says when that happens; the caller records it as a restamp.  *)
(***************************************************************************)
EXTENDS Integers, SequencesExt

CONSTANT HistoryEntriesToKeep   \* 16 in the code

ASSUME HistoryEntriesToKeep \in Nat \ {0}

\* nil *ControlledJobActionHistoryEntry (no action recorded yet)
NoAction == [type |-> "none", job |-> "none"]

\* isSameAction: DeepEqual after forcing the timestamps to match
IsSameAction(existing, proposed) ==
    /\ existing # NoAction
    /\ proposed # NoAction
    /\ existing = proposed

\* Seeded fault for mutation analysis: keeps maxLength old entries.
PrependAndTruncateKeepAll(existing, newEntry, maxLength) ==
    <<newEntry>> \o SubSeq(existing, 1, Min({Len(existing), maxLength}))

\* prependAndTruncateIfNeeded: the new entry, then at most maxLength - 1
\* of the existing ones.
PrependAndTruncateIfNeeded(existing, newEntry, maxLength) ==
    <<newEntry>> \o SubSeq(existing, 1, Min({Len(existing), maxLength - 1}))

\* addActionHistoryEntryImpl on the status record s (its fields
\* mostRecentAction and actionHistory).
AddActionHistoryEntryImpl(s, action, ignoreDuplicates) ==
    IF ignoreDuplicates /\ IsSameAction(s.mostRecentAction, action)
    THEN s
    ELSE [s EXCEPT !.mostRecentAction = action,
                   !.actionHistory =
                       PrependAndTruncateIfNeeded(@, action, HistoryEntriesToKeep)]

\* Whether addActionHistoryEntryImpl prepends a new entry, stamped with
\* NowFunc() (newActionForJob, NewFailedAction), rather than dropping it.
AddsEntry(s, action, ignoreDuplicates) ==
    ~(ignoreDuplicates /\ IsSameAction(s.mostRecentAction, action))

\* defaultHandler.RecordEvent: the Kubernetes Event it also emits changes
\* nothing the operator reads, so only the history entry is kept.
RecordEvent(s, action) == AddActionHistoryEntryImpl(s, action, TRUE)

=============================================================================
