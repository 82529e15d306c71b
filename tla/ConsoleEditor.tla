---------------------------- MODULE ConsoleEditor ----------------------------
(***************************************************************************)
(* What the editor of a resource console does to a field of a row          *)
(* (src/src/components/admin/AdminResourceConsole.tsx, the forms of        *)
(* src/src/components/admin/resource-configs and ResourceEditorDialog):    *)
(* a form is filled from the row as the list shows it, edited, and sent    *)
(* back whole; the server keeps what it is not sent.  A save is under way  *)
(* until it is answered: the buttons are then disabled and the fields are  *)
(* not, and the answer closes the form over what was typed since the       *)
(* press, which is nowhere kept.  A save that fails, before or after it    *)
(* took effect, leaves the form open.                                      *)
(*                                                                         *)
(* Fields do not depend on each other, so one field of the forms is        *)
(* followed at a time.  A value is a word; "10:00:30" stands for any time  *)
(* with seconds.                                                           *)
(***************************************************************************)
CONSTANT NULL \* no value

VARIABLES
  mode,    \* of the form
  field,   \* the field that is followed
  server,  \* its value at the server, or NULL
  before,  \* its value in the row the editor was opened on
  value,   \* its value in the form
  touched, \* has the operator edited it
  stage,   \* of the form: "open", "saving", "saved", "closed"
  request, \* the save: under way, or the one that closed the form
  others   \* history: has somebody saved since it took effect

vars == <<mode, field, server, before, value, touched, stage, request, others>>

-----------------------------------------------------------------------------
(* The kinds of fields of the forms; the forms of a console by mode.       *)
text(required) == [type |-> "text", required |-> required, default |-> NULL]
number(default) == [type |-> "number", required |-> FALSE, default |-> default]
boolean(default) == [type |-> "boolean", required |-> FALSE, default |-> default]
datetime == [type |-> "datetime", required |-> FALSE, default |-> NULL]
select(default) == [type |-> "select", required |-> FALSE, default |-> default]

couponsConfig ==
  [create |-> {text(TRUE), text(FALSE), number("0"), number("30"), select("one")},
   edit |-> {number("0")}]
notificationsConfig ==
  [create |-> {text(TRUE), text(FALSE), select("one"), datetime, boolean(NULL)},
   edit |-> {}]
bannersConfig ==
  [create |-> {text(TRUE), text(FALSE), select("one"), number("0"), boolean("true"), datetime},
   edit |-> {text(TRUE), text(FALSE), select("one"), number("0"), boolean(NULL), datetime}]
categoriesConfig ==
  [create |-> {text(TRUE), text(FALSE), select("one"), number("0")},
   edit |-> {text(TRUE), text(FALSE), select(NULL), number("0")}]
runtimeConfig ==
  [create |-> {text(TRUE), text(FALSE)}, edit |-> {text(TRUE), text(FALSE)}]
reportReasonsConfig ==
  [create |-> {text(TRUE), text(FALSE), number("0"), boolean("false"), boolean("true")},
   edit |-> {text(TRUE), text(FALSE), number("0"), boolean(NULL)}]
reviewTagCategoriesConfig ==
  [create |-> {text(TRUE), number("0")}, edit |-> {text(TRUE), number("0")}]
reviewTagsConfig ==
  [create |-> {text(TRUE), number("0"), boolean("true")},
   edit |-> {text(TRUE), number("0"), boolean(NULL)}]

resourceConfigs ==
  [c \in {"coupons", "notifications", "banners", "categories", "config", "report-reasons",
          "review-tag-categories", "review-tags"} |->
     CASE c = "coupons" -> couponsConfig [] c = "notifications" -> notificationsConfig
       [] c = "banners" -> bannersConfig [] c = "categories" -> categoriesConfig
       [] c = "config" -> runtimeConfig [] c = "report-reasons" -> reportReasonsConfig
       [] c = "review-tag-categories" -> reviewTagCategoriesConfig
       [] c = "review-tags" -> reviewTagsConfig]

(* What a field can hold, and what can be put into its control.            *)
Held(f) == CASE f.type = "text" -> {"a", "b"}
             [] f.type = "number" -> {"0", "7", "30"}
             [] f.type = "boolean" -> {"true", "false"}
             [] f.type = "datetime" -> {"10:00", "10:00:30", "11:00"}
             [] f.type = "select" -> {"one", "two"}
Typed(f) == CASE f.type \in {"boolean", "select"} -> Held(f)
              [] f.type = "datetime" -> {"", "10:00", "11:00"}
              [] OTHER -> Held(f) \cup {""}

Fields(m) == UNION {resourceConfigs[c][m] : c \in DOMAIN resourceConfigs}

(* What stood in the field at the press, whether it was typed, and the     *)
(* part of the body that is about it.                                      *)
Save(f) ==
  [pressed : Typed(f) \cup {""}, edited : BOOLEAN, applied : BOOLEAN,
   body : [sent : BOOLEAN, value : Held(f) \cup {NULL}]]

TypeOK ==
  /\ mode \in {"create", "edit"} /\ field \in Fields(mode)
  /\ {server, before} \subseteq Held(field) \cup {NULL}
  /\ value \in Typed(field) \cup {""} /\ {touched, others} \subseteq BOOLEAN
  /\ stage \in {"open", "saving", "saved", "closed"}
  /\ IF stage \in {"saving", "saved"} THEN request \in Save(field) ELSE request = NULL

-----------------------------------------------------------------------------
(* The control of a time has minutes.                                      *)
toDateTimeLocalInputValue(raw) == IF raw = "10:00:30" THEN "10:00" ELSE raw

(* Mutant: the default comes before what the row has. *)
initialDefault(f, row) ==
  LET raw == IF f.default # NULL THEN f.default ELSE IF row # NULL THEN row
             ELSE IF f.type = "boolean" THEN "false" ELSE ""
  IN IF f.type = "datetime" THEN toDateTimeLocalInputValue(raw) ELSE raw

(* Mutant: a time is put into its control as it is. *)
initialRaw(f, row) ==
  IF row # NULL THEN row ELSE IF f.default # NULL THEN f.default
  ELSE IF f.type = "boolean" THEN "false" ELSE ""

initialValues(f, row) ==
  LET raw == IF row # NULL THEN row ELSE IF f.default # NULL THEN f.default
             ELSE IF f.type = "boolean" THEN "false" ELSE ""
  IN IF f.type = "datetime" THEN toDateTimeLocalInputValue(raw) ELSE raw

validateValues(f, v) == f.required => v # ""

(* Mutant: an emptied time is left out like the others. *)
normalizeSkips(f, v, m) ==
  IF v = "" /\ ~f.required THEN [sent |-> FALSE, value |-> NULL] ELSE [sent |-> TRUE, value |-> v]

(* normalizeValues, for one field: is it in the body, and as what.         *)
normalizeValues(f, v, m) ==
  IF v = "" /\ ~f.required
  THEN [sent |-> m = "edit" /\ f.type = "datetime", value |-> NULL]
  ELSE [sent |-> TRUE, value |-> v]

-----------------------------------------------------------------------------
(* The fields can be edited while a save is under way, too.                *)
onValueChange ==
  /\ stage \in {"open", "saving"} /\ \E v \in Typed(field) \ {value} : value' = v
  /\ touched' = TRUE /\ UNCHANGED <<mode, field, server, before, stage, request, others>>

(* Another operator saves the row.                                         *)
OthersSave ==
  /\ mode = "edit" /\ \E v \in Held(field) \ {server} : server' = v
  /\ others' = TRUE /\ UNCHANGED <<mode, field, before, value, touched, stage, request>>

(* Mutant: the values the form was filled with are sent. *)
submitFilled ==
  /\ stage = "open" /\ validateValues(field, value) /\ stage' = "saving"
  /\ LET filled == IF value = "" THEN value ELSE initialValues(field, before) IN
     request' = [pressed |-> value, edited |-> touched, applied |-> FALSE,
                 body |-> normalizeValues(field, filled, mode)]
  /\ UNCHANGED <<mode, field, server, before, value, touched, others>>

(* The press: the body is made of the form as it is now.                   *)
submitEditor ==
  /\ stage = "open" /\ validateValues(field, value) /\ stage' = "saving"
  /\ request' = [pressed |-> value, edited |-> touched, applied |-> FALSE,
                 body |-> normalizeValues(field, value, mode)]
  /\ UNCHANGED <<mode, field, server, before, value, touched, others>>

(* Mutant: the body is made of the form when the call goes out. *)
AppliedFromForm ==
  /\ stage = "saving" /\ ~request.applied
  /\ LET body == normalizeValues(field, value, mode) IN
     /\ request' = [request EXCEPT !.applied = TRUE, !.body = body]
     /\ server' = IF body.sent THEN body.value ELSE IF mode = "edit" THEN server ELSE NULL
  /\ others' = FALSE /\ UNCHANGED <<mode, field, before, value, touched, stage>>

(* The save takes effect (external).                                       *)
Applied ==
  /\ stage = "saving" /\ ~request.applied /\ request' = [request EXCEPT !.applied = TRUE]
  /\ server' = IF request.body.sent THEN request.body.value
               ELSE IF mode = "edit" THEN server ELSE NULL
  /\ others' = FALSE /\ UNCHANGED <<mode, field, before, value, touched, stage>>

(* The form is closed, with whatever stands in it by now.                  *)
onSuccess ==
  /\ stage = "saving" /\ request.applied /\ stage' = "saved"
  /\ UNCHANGED <<mode, field, server, before, value, touched, request, others>>

(* The save fails, or its answer is lost: the form stays as it is.         *)
onError ==
  /\ stage = "saving" /\ stage' = "open" /\ request' = NULL
  /\ UNCHANGED <<mode, field, server, before, value, touched, others>>

onClose ==
  /\ stage = "open" /\ stage' = "closed"
  /\ UNCHANGED <<mode, field, server, before, value, touched, request, others>>

(* The editor is opened again: on the row as it was shown before, or as it *)
(* is at the server, when the list has been read again.                    *)
openEditor ==
  /\ stage \in {"saved", "closed"} /\ stage' = "open" /\ request' = NULL
  /\ before' \in (IF mode = "edit" THEN {before, server} ELSE {before})
  /\ value' = initialValues(field, before') /\ touched' = FALSE
  /\ UNCHANGED <<mode, field, server, others>>

(* It is opened first, on a row or on none.                                *)
Init ==
  /\ mode \in {"create", "edit"} /\ field \in Fields(mode)
  /\ before \in {NULL} \cup (IF mode = "edit" THEN Held(field) ELSE {})
  /\ (field.required /\ mode = "edit" => before # NULL)
  /\ server = before /\ value = initialValues(field, before)
  /\ touched = FALSE /\ stage = "open" /\ request = NULL /\ others = FALSE

Next ==
  \/ onValueChange \/ submitEditor \/ onClose \/ openEditor
  \/ Applied \/ onSuccess \/ onError \/ OthersSave
Spec == Init /\ [][Next]_vars
-----------------------------------------------------------------------------
(* The operator was told that the save is done, and nobody has saved the   *)
(* row after it.                                                           *)
Saved == stage = "saved" /\ ~others

(* What stood in the form at the press is what the server has, if it was   *)
(* typed: also when somebody else saved the row while the editor was open, *)
(* when an earlier save failed or its answer was lost, in a control of     *)
(* minutes, and whatever was typed after the press (which nobody saves).   *)
TypedIsSaved == (Saved /\ request.edited /\ request.pressed # "") => server = request.pressed

(* A field that was left alone until the press keeps its value, to the     *)
(* minute, unless somebody else has changed it since: the form then puts   *)
(* back the old one.  A field without a value is given its default.        *)
UntouchedStays ==
  (Saved /\ mode = "edit" /\ ~request.edited /\ before # NULL) =>
    server = toDateTimeLocalInputValue(before)

(* "when it is emptied in the edit screen the schedule is released"        *)
(* (docs/OPERATIONS.md): a time that was empty at the press is none at the *)
(* server, whatever it was and whoever saved meanwhile.                    *)
ScheduleIsReleased ==
  (Saved /\ mode = "edit" /\ field.type = "datetime" /\ request.edited /\ request.pressed = "")
    => server = NULL

-----------------------------------------------------------------------------
(* A save is of what stood in the form at the press; until somebody else   *)
(* saves, the server has what it sent; and what nobody has touched is what *)
(* the form was filled with.                                               *)
SaveFits ==
  /\ validateValues(field, request.pressed)
  /\ request.body = normalizeValues(field, request.pressed, mode)
  /\ ~request.edited => request.pressed = initialValues(field, before)
  /\ (request.applied /\ ~others /\ request.body.sent) => server = request.body.value
  /\ stage = "saved" => request.applied

(* Inductive; the three statements follow from it.                         *)
EditorInv ==
  /\ TypeOK /\ (~touched => value = initialValues(field, before))
  /\ stage \in {"saving", "saved"} => SaveFits
=============================================================================
