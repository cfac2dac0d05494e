------------------------------ MODULE TurnDiff ------------------------------
(***************************************************************************)
(* The diff of a turn (thread/turn/diff.rs): the last one the server sent, *)
(* shown once the turn is over, less the files the cards of the turn's     *)
(* edits have shown, and kept for /diff (thread/features/session/diff.rs). *)
(* A diff is the set of files it changes, and those of them it deletes; a   *)
(* path is the file it leads to, or one in the workspace that is not there. *)
(***************************************************************************)
EXTENDS Naturals, Sequences, SequencesExt

CONSTANTS
  Files,         \* files of the repository
  BelowRoot,     \* the workspace is a directory below the repository's root
  Namesakes,     \* of a file, the one with the same path from the workspace as
                 \* the file has from the root of the repository
  HistoryLimit   \* TURN_DIFF_HISTORY_LIMIT

ASSUME DiffAssumption ==
  /\ BelowRoot \in BOOLEAN /\ HistoryLimit \in Nat \ {0}
  /\ \E named \in SUBSET Files : Namesakes \in [named -> Files]
  /\ ~BelowRoot => DOMAIN Namesakes = {}

VARIABLES
  latest,      \* latest_turn_diff, NoDiff for none
  edited,      \* file_change_paths_this_turn
  history,     \* turn_diff_history
  diffCard,    \* the turn diff card of the last turn that had one
  report       \* what /diff has just shown, NoReport at other times

diffVars == <<latest, edited, history, diffCard>>

NoReport == [last |-> 0, files |-> {}]
NoDiff == [changed |-> {}, gone |-> {}]
Diffs == {d \in [changed : SUBSET Files, gone : SUBSET Files] : d.gone \subseteq d.changed}
Paths == {"file", "missing"} \X Files

DiffInit ==
  /\ latest = NoDiff /\ edited = {} /\ history = << >>
  /\ diffCard = [turn |-> 0, shown |-> {}, gone |-> {}] /\ report = NoReport

\* reset_turn_transient_state
DiffForgotten == latest' = NoDiff /\ edited' = {} /\ UNCHANGED <<history, diffCard>>

\* handle_turn_diff_updated
DiffUpdated(diff) == latest' = diff /\ UNCHANGED <<edited, history, diffCard>>

Mut_OnlyWhileOpen(file) == edited' = {<<"file", file>>}
(* file_change_target_path: the place of an edited file.  The paths of the  *)
(* server are absolute.                                                    *)
RememberEdit(file) == edited' = edited \cup {<<"file", file>>}

\* Files whose namesake exists after a diff.
NamesakesAfter(diff) ==
  {there \in SUBSET DOMAIN Namesakes :
     \A f \in DOMAIN Namesakes :
       Namesakes[f] \in diff.changed => (f \in there <=> Namesakes[f] \notin diff.gone)}

(* resolve_turn_diff_path: the paths of a diff are relative to the root of  *)
(* the repository.  A path is taken from the workspace if a file is there,  *)
(* then from the root, and from the workspace again if the file is gone.    *)
PathOf(file, diff, there) ==
  IF file \in there THEN <<"file", Namesakes[file]>>
  ELSE <<IF BelowRoot /\ file \in diff.gone THEN "missing" ELSE "file", file>>

Mut_DropNewest(turn, diff) ==
  LET longer == Append(history, [turn |-> turn, diff |-> diff]) IN
  IF Len(longer) > HistoryLimit THEN SubSeq(longer, 1, HistoryLimit) ELSE longer
\* record_turn_diff
Recorded(turn, diff) ==
  IF \E n \in DOMAIN history : history[n].turn = turn
  THEN [n \in DOMAIN history |-> IF history[n].turn = turn THEN [history[n] EXCEPT !.diff = diff]
                                 ELSE history[n]]
  ELSE LET longer == Append(history, [turn |-> turn, diff |-> diff])
       IN IF Len(longer) > HistoryLimit
          THEN SubSeq(longer, Len(longer) - HistoryLimit + 1, Len(longer)) ELSE longer

\* prepare_turn_diff_tool_call
CardOf(diff, there) == {f \in diff.changed : PathOf(f, diff, there) \notin edited}

\* prepare_finalized_turn_diff_snapshot, emit_finalized_turn_diff_snapshot; a
\* diff without files is dropped (parse_turn_unified_diff_files).
FinalizeDiff(turn) ==
  /\ latest' = NoDiff
  /\ history' = IF latest = NoDiff THEN history ELSE Recorded(turn, latest)
  /\ \E there \in NamesakesAfter(latest) :
       LET shown == CardOf(latest, there) IN
       diffCard' = IF shown = {} THEN diffCard
                   ELSE [turn |-> turn, shown |-> shown, gone |-> shown \cap latest.gone]
  /\ UNCHANGED edited

\* select_records, for --last n; the last turn is n = 1, the session all.
Selected(n) == SubSeq(history, IF n > Len(history) THEN 1 ELSE Len(history) - n + 1, Len(history))

(* aggregate_files: the files of the records, less those whose changes      *)
(* cancel out, which takes two turns and leaves the file in its place.     *)
ReportsOf(records) ==
  LET changed == UNION {records[n].diff.changed : n \in DOMAIN records}
      Touching(f) == {n \in DOMAIN records : f \in records[n].diff.changed}
      Latest(f) == CHOOSE n \in Touching(f) : \A m \in Touching(f) : m <= n
      mayCancel == {f \in changed : /\ Touching(f) # {Latest(f)}
                                    /\ f \notin records[Latest(f)].diff.gone}
  IN {changed \ cancelled : cancelled \in SUBSET mayCancel}

\* handle_diff_command
DiffCommand(n) ==
  /\ history # << >>
  /\ report' \in {[last |-> n, files |-> files] : files \in ReportsOf(Selected(n))}
  /\ UNCHANGED diffVars

\* apply_thread_switch
HistoryForgotten ==
  /\ latest' = NoDiff /\ edited' = {} /\ history' = << >>
  /\ UNCHANGED diffCard

DiffTypeOK ==
  /\ latest \in Diffs
  /\ edited \subseteq Paths
  /\ history \in Seq([turn : Nat, diff : Diffs])
  /\ diffCard \in [turn : Nat, shown : SUBSET Files, gone : SUBSET Files]
  /\ report \in [last : Nat, files : SUBSET Files]
=============================================================================
