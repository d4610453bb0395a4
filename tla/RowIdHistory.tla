--------------------------- MODULE RowIdHistory ---------------------------
(***************************************************************************)
(* LayeredRows with a history variable: the logical row ids that have been *)
(* deleted.  The code keeps no such record; the property is about reuse.   *)
(***************************************************************************)
EXTENDS LayeredRows

VARIABLE retired  \* the row ids that some applied transaction has deleted

HistoryInit == Init /\ retired = {}
HistoryNext == Next /\ retired' = retired \cup (VisibleIds \ VisibleIds')
HistorySpec == HistoryInit /\ [][HistoryNext]_<<vars, retired>>

\* docs/OPERATIONS.md:94: "a delete leaves the ID unused/tombstoned rather than
\* reassigning it": no visible row has an id that was deleted (compaction.rs drops the
\* overlay and with it max_row_id, from which the next id is allocated).
DeletedIdsStayUnused == retired \cap VisibleIds = {}
=============================================================================
