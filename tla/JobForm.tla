------------------------------- MODULE JobForm -------------------------------
(***************************************************************************)
(* The form of a job (ui/src/pages/JobForm.tsx), a new one or one that is  *)
(* edited, with its catalog selectors and what the server makes of it. The *)
(* fields that hold what was typed are left out: they are sent as they     *)
(* are.                                                                    *)
(***************************************************************************)
EXTENDS CatalogSelectors

CONSTANT MaxSubmits   \* bound: clicks on the button

\* The defaults.
NewForm == [sport |-> None, facilities |-> {}, courts |-> {}]

\* A job that is edited may be any: the server takes what it gets.
ASSUME FormAssumption ==
    /\ MaxSubmits \in Nat
    /\ \A x \in Settings : x.saved \in Forms /\ (~x.edit => x.saved = NewForm)

VARIABLES
    page,      \* "open", "saved" (left by a save), "left" (by the other buttons)
    save,      \* the request: where it is, and the form it carries
    stored,    \* the table: the job that was written last, before that the edited one
    made,      \* the table: the jobs it has got from this form
    submits

formVars == <<page, save, stored, made, submits>>
allVars == <<vars, formVars>>

NoSave == [pc |-> "idle", form |-> NewForm]

\* When the job to edit cannot be fetched, the form shows the defaults.
FormInit ==
    /\ setting \in Settings
    /\ \/ form = setting.saved
       \/ setting.failing /\ form = NewForm
    /\ Mounted
    /\ page = "open" /\ save = NoSave
    /\ stored = setting.saved /\ made = 0
    /\ submits = 0

-----------------------------------------------------------------------------

\* The selectors; the fields are not locked while the form is saved.
Select ==
    /\ page = "open"
    /\ Next
    /\ setting.patient /\ save # NoSave => form' = form
    /\ UNCHANGED formVars

\* Faulty: the button is not disabled while the form is saved.
Submit_Again ==
    /\ page = "open" /\ save.pc \in {"idle", "written"} /\ submits < MaxSubmits
    /\ setting.patient => pending = {}
    /\ form.sport # None /\ form.facilities # {}
    /\ save' = [pc |-> "sent", form |-> form]
    /\ submits' = submits + 1
    /\ UNCHANGED <<vars, page, stored, made>>

\* handleSubmit: without a sport or a facility there is an error only.
Submit ==
    /\ page = "open" /\ save = NoSave /\ submits < MaxSubmits
    /\ setting.patient => pending = {}
    /\ form.sport # None /\ form.facilities # {}
    /\ save' = [pc |-> "sent", form |-> form]
    /\ submits' = submits + 1
    /\ UNCHANGED <<vars, page, stored, made>>

\* CreateJob and UpdateJob: a job that runs, or a table that cannot be written, is refused.
SaveServe ==
    /\ save.pc = "sent"
    /\ \/ /\ save' = [save EXCEPT !.pc = "written"]
          /\ stored' = save.form
          /\ made' = IF setting.edit THEN made ELSE made + 1
       \/ save' = [save EXCEPT !.pc = "refused"] /\ UNCHANGED <<stored, made>>
    /\ UNCHANGED <<vars, page, submits>>

\* Faulty: the form is left whatever the answer is.
SaveAnswer_Leaves ==
    /\ save.pc \in {"written", "refused"}
    /\ page' = "saved"
    /\ save' = NoSave
    /\ UNCHANGED <<vars, stored, made, submits>>

\* navigate to the job, also of a form that was left; or the error, and the form stays.
SaveAnswer ==
    /\ save.pc \in {"written", "refused"}
    /\ page' = IF save.pc = "written" THEN "saved" ELSE page
    /\ save' = NoSave
    /\ UNCHANGED <<vars, stored, made, submits>>

\* The request or its answer is lost: an error, and the form stays.
SaveLost ==
    /\ setting.failing /\ save # NoSave
    /\ save' = NoSave
    /\ UNCHANGED <<vars, page, stored, made, submits>>

\* "İptal" and the arrow.
Leave ==
    /\ page = "open"
    /\ page' = "left"
    /\ UNCHANGED <<vars, save, stored, made, submits>>

FormNext == Select \/ Submit \/ SaveServe \/ SaveAnswer \/ SaveLost \/ Leave

FormSpec == FormInit /\ [][FormNext]_allVars

-----------------------------------------------------------------------------

FormTypeOK ==
    /\ page \in {"open", "saved", "left"}
    /\ save.pc \in {"idle", "sent", "written", "refused"}
    /\ {save.form, stored} \subseteq Forms
    /\ made \in 0..submits /\ submits \in 0..MaxSubmits

\* A job that was saved has a facility and is sound, however fast the user clicked; but
\* for one that was not when it was opened and kept its facilities.
SavedFits ==
    stored # setting.saved =>
        stored.facilities # {} /\ (Sound(stored) \/ LeftAlone(stored))

\* A form makes one job at most, unless the answer to a save was lost: saving again
\* then makes another.
OneJob == ~setting.failing => made <= 1

\* A patient user who is taken to the job has saved what the form showed.
SavedIsShown == page = "saved" /\ setting.patient => stored = form

\* The types, and the form against the catalog and the table.
FormInv == FormTypeOK /\ SelectorInv /\ SavedFits /\ OneJob /\ SavedIsShown
=============================================================================
