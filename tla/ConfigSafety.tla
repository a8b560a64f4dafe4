---------------------------- MODULE ConfigSafety ----------------------------
(* What the settings pages promise about the rows they show and save.      *)
EXTENDS Config

(* A row of the page is the row of the database, every field of it, unless *)
(* it was written since the page was loaded by a call whose answer the     *)
(* page has not heard: whichever forms were saved, in whichever order, and *)
(* whichever of them were folded away or closed meanwhile.  The unit of an *)
(* account just saved is the known exception.                              *)
SameRow(shown, row) ==
    \A field \in DOMAIN row :
        shown[field] = row[field] \/ (field = "unit" /\ shown[field] = None)

RowsAreSaved == \A table \in Tables :
    \A id \in DOMAIN saved[table] \cup DOMAIN rows[table] :
        <<table, id>> \notin unseen =>
            /\ id \in DOMAIN saved[table] \cap DOMAIN rows[table]
            /\ SameRow(rows[table][id], saved[table][id])

(* A save changes the fields its user changed and no other, although it    *)
(* writes the whole row with the values its form took when it opened:      *)
(* unless an earlier save of the row was under way or unheard just then.   *)
SaveKeepsUntouched ==
    [][\A table \in Tables : \A id \in DOMAIN saved[table] :
         saved'[table][id] # saved[table][id] =>
            LET call == Head(queue)
            IN  /\ call.place = Edit(table, id)
                /\ ~call.behind => \A field \in DOMAIN saved[table][id] :
                     saved'[table][id][field] # saved[table][id][field] =>
                        field \in call.touched]_vars
=============================================================================
