------------------------ MODULE DeclaredIntentTable ------------------------
(***************************************************************************)
(* DeclaredIntentTable of src/src/advanced_features.cpp: an audit log and  *)
(* approval states, kept according to the intents of the table.  Both      *)
(* calls hold table_mutex_ for their whole body.  Images and times are     *)
(* left out.                                                               *)
(***************************************************************************)
EXTENDS Integers, Sequences, FiniteSets, FiniteSetsExt

CONSTANTS RowIds, People, Levels,
          MaxInserts, MaxApprovals   \* bounds on the calls

ASSUME LevelsAssumption == Levels \subseteq Nat

VARIABLES intents_, audit_log_, approval_states_,
          granted     \* history: the levels of a row's approvals since its last insert

tableVars == <<intents_, audit_log_, approval_states_, granted>>

TableInit == /\ intents_ \in SUBSET {"TRACEABLE", "APPROVAL_GATED"}
             /\ audit_log_ = <<>>
             /\ approval_states_ = [r \in {} |-> 0]
             /\ granted = [r \in {} |-> 0]

NewApproval == [approval_level |-> 0, approvers |-> <<>>, is_approved |-> FALSE]

(* map[key] = value *)
Assigned(map, key, value) ==
  [r \in DOMAIN map \cup {key} |-> IF r = key THEN value ELSE map[r]]

(* An insert through std::map::insert, which keeps an approval that is there. *)
Gated_KeepsApproval(row) ==
  IF row \in DOMAIN approval_states_ THEN approval_states_
  ELSE Assigned(approval_states_, row, NewApproval)

Gated(row) == Assigned(approval_states_, row, NewApproval)

insert_with_intent(row, performer) ==
  /\ Len(audit_log_) < MaxInserts
  /\ audit_log_' = IF "TRACEABLE" \in intents_
                   THEN Append(audit_log_, [row_id |-> row, performer_id |-> performer])
                   ELSE audit_log_
  /\ \/ /\ "APPROVAL_GATED" \in intents_
        /\ approval_states_' = Gated(row)
        /\ granted' = Assigned(granted, row, <<>>)
     \/ "APPROVAL_GATED" \notin intents_ /\ UNCHANGED <<approval_states_, granted>>
  /\ UNCHANGED intents_

Approved(state, approver, level) ==
  [approval_level |-> Max({state.approval_level, level}),
   approvers |-> Append(state.approvers, approver),
   is_approved |-> state.is_approved \/ level >= 3]

approve_row(row, approver, level) ==
  /\ row \in DOMAIN approval_states_
  /\ Len(approval_states_[row].approvers) < MaxApprovals
  /\ approval_states_' = [approval_states_ EXCEPT ![row] = Approved(@, approver, level)]
  /\ granted' = [granted EXCEPT ![row] = Append(@, level)]
  /\ UNCHANGED <<intents_, audit_log_>>

TableNext ==
  \/ \E row \in RowIds, performer \in People : insert_with_intent(row, performer)
  \/ \E row \in RowIds, approver \in People, level \in Levels : approve_row(row, approver, level)

TableSpec == TableInit /\ [][TableNext]_tableVars

-----------------------------------------------------------------------------
(* approve_row and insert_with_intent keep a row's approval in step with   *)
(* the approvals given since the row was last inserted, and with no older  *)
(* one: its level is the highest of them, its approvers are as many, and   *)
(* the row counts as approved exactly when one of them is a director's     *)
(* (level 3), whatever lower approvals came before or after.               *)
ApprovedByDirector ==
  /\ DOMAIN granted = DOMAIN approval_states_
  /\ \A row \in DOMAIN approval_states_ :
       LET state == approval_states_[row]
           levels == {granted[row][i] : i \in 1..Len(granted[row])}
       IN  /\ Len(state.approvers) = Len(granted[row])
           /\ \A l \in levels : l <= state.approval_level
           /\ state.approval_level \in levels \cup {0}
           /\ state.is_approved <=> \E l \in levels : l >= 3
=============================================================================
