------------------------------ MODULE Catalog ------------------------------
(***************************************************************************)
(* The questions about a home, their options and their icons, which        *)
(* administrators edit while customers answer them.                        *)
(*                                                                         *)
(* Every edit reads its row without a lock and later saves the whole copy: *)
(* a save of a row deleted meanwhile inserts it again.  Foreign keys and   *)
(* unique keys are checked by the database when the transaction commits.   *)
(* Labels, sections and order are left out; a YES_NO question is a counter *)
(* of 0 .. 1, and a MULTI_CHOICE one a choice.                             *)
(***************************************************************************)
EXTENDS Naturals, FiniteSets

CONSTANTS Workers,      \* processes that serve the administrators
          Icons,        \* pictures that may be uploaded
          Keys,         \* keys of questions
          OptionKeys,   \* keys of options
          MaxFields,    \* bound: questions ever created
          MaxOptions,   \* bound: options ever created
          MaxLimit,     \* COUNTER_MAX_LIMIT
          None          \* no icon, no answer, no row

ASSUME CatalogAssumption == /\ IsFiniteSet(Workers)
                            /\ MaxFields \in Nat /\ MaxOptions \in Nat /\ MaxLimit \in Nat

VARIABLES
    icons,      \* CatalogIcon rows
    field,      \* HomeDetailField rows by id, None before and after
    fields,     \* how many were created
    option,     \* HomeDetailOption rows by id
    options,    \* how many were created
    saved,      \* Property.home_details: the last answers
    booking,    \* answers frozen for a booking not committed yet
    edit        \* what each worker is doing

catalogVars == <<icons, field, fields, option, options, saved, booking, edit>>

FieldIds  == 1 .. MaxFields
OptionIds == 1 .. MaxOptions
Counts    == 0 .. MaxLimit
SomeIcon  == Icons \union {None}
Answers   == [Keys -> Counts \union OptionKeys \union {None}]

Field  == [key : Keys, type : {"COUNTER", "CHOICE"}, min : Counts, max : Counts,
           default : Counts, icon : SomeIcon, active : BOOLEAN]
Option == [of : FieldIds, key : OptionKeys, icon : SomeIcon, active : BOOLEAN]

Idle   == [at |-> "idle", id |-> 0, row |-> None]
Edits  == [at : {"idle", "field", "option", "new option", "icon"},
           id : FieldIds \union OptionIds \union {0} \union Icons,
           row : Field \union Option \union {None}]

ASSUME NoneAssumption == None \notin Field \union Option

CatalogTypeOK ==
    /\ icons \subseteq Icons
    /\ field \in [FieldIds -> Field \union {None}] /\ fields \in 0 .. MaxFields
    /\ option \in [OptionIds -> Option \union {None}] /\ options \in 0 .. MaxOptions
    /\ saved \in Answers /\ booking \in Answers \union {None}
    /\ edit \in [Workers -> Edits]

CatalogInit ==
    /\ icons = {}
    /\ field = [i \in FieldIds |-> None]   /\ fields = 0
    /\ option = [o \in OptionIds |-> None] /\ options = 0
    /\ saved = [k \in Keys |-> None] /\ booking = None
    /\ edit = [w \in Workers |-> Idle]

Fields    == {i \in FieldIds : field[i] # None}
OptionsOf(i) == {o \in OptionIds : option[o] # None /\ option[o].of = i}

At(w, step)  == edit[w].at = step
Begin(w, e)  == At(w, "idle") /\ edit' = [edit EXCEPT ![w] = e]
Done(w)      == edit' = [edit EXCEPT ![w] = Idle]
-----------------------------------------------------------------------------
(* What the database refuses *)

KeyIsFree(i, key) == \A j \in Fields \ {i} : field[j].key # key

OptionKeyIsFree(o, row) == \A p \in OptionsOf(row.of) \ {o} : option[p].key # row.key

IconThere(row) == row.icon \in icons \union {None}

BadInUse(icon) == FALSE                         \* counted once, at the start
InUse(icon) == \/ \E i \in Fields : field[i].icon = icon
               \/ \E o \in OptionIds : option[o] # None /\ option[o].icon = icon

\* HomeDetailField.clean
WellFormed(f) == f.type = "COUNTER" => f.min <= f.default /\ f.default <= f.max
-----------------------------------------------------------------------------
(* Icons *)

CreateIcon(icon) ==
    /\ icon \notin icons
    /\ icons' = icons \union {icon}
    /\ UNCHANGED <<field, fields, option, options, saved, booking, edit>>

\* delete_icon counts who uses it ...
DeleteIcon(w, icon) ==
    /\ icon \in icons /\ ~InUse(icon)
    /\ Begin(w, [Idle EXCEPT !.at = "icon", !.id = icon])
    /\ UNCHANGED <<icons, field, fields, option, options, saved, booking>>

\* ... and deletes: PROTECT and the foreign keys look again
CommitIcon(w) ==
    /\ At(w, "icon")
    /\ icons' = IF InUse(edit[w].id) THEN icons ELSE icons \ {edit[w].id}
    /\ Done(w)
    /\ UNCHANGED <<field, fields, option, options, saved, booking>>
-----------------------------------------------------------------------------
(* Questions *)

CreateField(row) ==
    /\ fields < MaxFields
    /\ KeyIsFree(0, row.key) /\ IconThere(row) /\ WellFormed(row)
    /\ fields' = fields + 1
    /\ field' = [field EXCEPT ![fields + 1] = row]
    /\ UNCHANGED <<icons, option, options, saved, booking, edit>>

\* What a patch may change: neither the key nor the type
Patched(row) ==
    {r \in [key : {row.key}, type : {row.type}, min : Counts, max : Counts,
            default : Counts, icon : SomeIcon, active : BOOLEAN] :
        (r.type = "COUNTER" \/ <<r.min, r.max, r.default>> = <<0, 0, 0>>)}

\* update_field reads the row, applies the patch to its copy and validates it ...
UpdateField(w, i) ==
    /\ i \in Fields
    /\ \E row \in Patched(field[i]) :
          /\ IconThere(row) /\ WellFormed(row)
          /\ Begin(w, [at |-> "field", id |-> i, row |-> row])
    /\ UNCHANGED <<icons, field, fields, option, options, saved, booking>>

\* ... and saves every column, which inserts the row if it is gone
CommitField(w) ==
    /\ At(w, "field")
    /\ LET row == edit[w].row IN
       field' = IF IconThere(row) /\ KeyIsFree(edit[w].id, row.key)
                THEN [field EXCEPT ![edit[w].id] = row] ELSE field
    /\ Done(w)
    /\ UNCHANGED <<icons, fields, option, options, saved, booking>>

\* The options go with it (on_delete=CASCADE)
DeleteField(i) ==
    /\ i \in Fields
    /\ field' = [field EXCEPT ![i] = None]
    /\ option' = [o \in OptionIds |-> IF o \in OptionsOf(i) THEN None ELSE option[o]]
    /\ UNCHANGED <<icons, fields, options, saved, booking, edit>>
-----------------------------------------------------------------------------
(* Options *)

\* create_option and update_option read the question and prepare the row ...
CreateOption(w, i) ==
    /\ i \in Fields /\ field[i].type = "CHOICE" /\ options < MaxOptions
    /\ \E key \in OptionKeys, icon \in SomeIcon, active \in BOOLEAN :
         LET row == [of |-> i, key |-> key, icon |-> icon, active |-> active] IN
         /\ IconThere(row) /\ OptionKeyIsFree(0, row)
         /\ Begin(w, [at |-> "new option", id |-> 0, row |-> row])
    /\ UNCHANGED <<icons, field, fields, option, options, saved, booking>>

UpdateOption(w, o) ==
    /\ option[o] # None
    /\ \E icon \in SomeIcon, active \in BOOLEAN :
         LET row == [option[o] EXCEPT !.icon = icon, !.active = active] IN
         /\ IconThere(row)
         /\ Begin(w, [at |-> "option", id |-> o, row |-> row])
    /\ UNCHANGED <<icons, field, fields, option, options, saved, booking>>

\* ... which the database takes if what it refers to is still there
BadAccepted(o, row) == IconThere(row) /\ OptionKeyIsFree(o, row)   \* no foreign key
Accepted(o, row) == row.of \in Fields /\ IconThere(row) /\ OptionKeyIsFree(o, row)

CommitNewOption(w) ==
    /\ At(w, "new option") /\ options < MaxOptions
    /\ IF Accepted(0, edit[w].row)
       THEN /\ options' = options + 1
            /\ option' = [option EXCEPT ![options + 1] = edit[w].row]
       ELSE UNCHANGED <<option, options>>
    /\ Done(w)
    /\ UNCHANGED <<icons, field, fields, saved, booking>>

CommitOption(w) ==
    /\ At(w, "option")
    /\ LET row == edit[w].row IN
       option' = IF Accepted(edit[w].id, row)
                 THEN [option EXCEPT ![edit[w].id] = row] ELSE option
    /\ Done(w)
    /\ UNCHANGED <<icons, field, fields, options, saved, booking>>

DeleteOption(o) ==
    /\ option[o] # None
    /\ option' = [option EXCEPT ![o] = None]
    /\ UNCHANGED <<icons, field, fields, options, saved, booking, edit>>
-----------------------------------------------------------------------------
(* Answers *)

ActiveFields == {i \in Fields : field[i].active}
ActiveKeys(i) == {option[o].key : o \in {p \in OptionsOf(i) : option[p].active}}

\* _check_value
Allowed(i) == IF field[i].type = "COUNTER" THEN field[i].min .. field[i].max
              ELSE ActiveKeys(i)

\* freeze_answers, while a booking is made: known questions, allowed values ...
FreezeAnswers(answers) ==
    /\ booking = None
    /\ \A k \in Keys : answers[k] # None =>
          \E i \in ActiveFields : field[i].key = k /\ answers[k] \in Allowed(i)
    /\ booking' = answers
    /\ UNCHANGED <<icons, field, fields, option, options, saved, edit>>

\* ... and remember_home_details at the end of create_booking
RememberHomeDetails ==
    /\ booking # None
    /\ saved' = booking /\ booking' = None
    /\ UNCHANGED <<icons, field, fields, option, options, edit>>

DefaultValue(i) == IF field[i].type = "COUNTER" THEN field[i].default ELSE None

\* build_form: what the customer finds filled in
BadPrefilled(i) ==                              \* the saved answer unchecked
    LET last == saved[field[i].key] IN IF last # None THEN last ELSE DefaultValue(i)
Prefilled(i) ==
    LET last == saved[field[i].key] IN IF last \in Allowed(i) THEN last ELSE DefaultValue(i)
-----------------------------------------------------------------------------
CatalogNext ==
    \/ \E icon \in Icons : CreateIcon(icon)
    \/ \E w \in Workers, icon \in Icons : DeleteIcon(w, icon)
    \/ \E w \in Workers : CommitIcon(w)
    \/ \E row \in Field :
         /\ row.type = "CHOICE" => <<row.min, row.max, row.default>> = <<0, 0, 0>>
         /\ CreateField(row)
    \/ \E w \in Workers, i \in FieldIds : UpdateField(w, i)
    \/ \E w \in Workers : CommitField(w)
    \/ \E i \in FieldIds : DeleteField(i)
    \/ \E w \in Workers, i \in FieldIds : CreateOption(w, i)
    \/ \E w \in Workers, o \in OptionIds : UpdateOption(w, o)
    \/ \E w \in Workers : CommitNewOption(w)
    \/ \E w \in Workers : CommitOption(w)
    \/ \E o \in OptionIds : DeleteOption(o)
    \/ \E answers \in Answers : FreezeAnswers(answers)
    \/ RememberHomeDetails

CatalogSpec == CatalogInit /\ [][CatalogNext]_catalogVars
-----------------------------------------------------------------------------
(* Properties *)

\* Whatever administrators do at once, no question and no option names a picture
\* that is gone: the application would show a broken form (icons.py, PROTECT).
IconsExist ==
    /\ \A i \in Fields : field[i].icon \in icons \union {None}
    /\ \A o \in OptionIds : option[o] # None => option[o].icon \in icons \union {None}

\* No option outlives its question, not even one that was being added while the
\* question was deleted, or when a stale save brings the question back.
OptionsHaveQuestion == \A o \in OptionIds : option[o] # None => option[o].of \in Fields

\* The form never opens with a value it would itself refuse, though the answer
\* was saved under other bounds, other options or another question of that key.
PrefillIsValid ==
    \A i \in ActiveFields : Prefilled(i) # None => Prefilled(i) \in Allowed(i)

\* What deleting a question should mean and does not: an edit that read it before
\* brings it back, without its options.  (Not checked by a run that passes.)
DeletedStaysDeleted ==
    [][\A i \in FieldIds : field[i] = None /\ i <= fields => field'[i] = None]_catalogVars
=============================================================================
