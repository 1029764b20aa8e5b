----------------------------- MODULE StepEntity -----------------------------
(***************************************************************************)
(* The Step entity of src/buildbox/models/step.py: the rows its           *)
(* constructor makes from the keyword arguments a caller passes.  A       *)
(* column's value is None, or a member of the enum class that holds it:   *)
(* Status.unknown and Result.unknown are different values, one of class   *)
(* Status and one of class Result.                                       *)
(***************************************************************************)
EXTENDS Naturals, FiniteSets

CONSTANTS
  Ids,      \* the GUIDs uuid.uuid4() may return
  Now,      \* the value of datetime.utcnow()
  Dates,    \* other dates a caller may pass
  MaxRows,  \* how many Steps the model constructs
  None      \* Python's None

StatusNames == {"unknown", "queued", "in_progress", "finished"}
ResultNames == {"unknown", "passed", "failed", "aborted"}
StatusValues == {[enum |-> "Status", name |-> n] : n \in StatusNames}
ResultValues == {[enum |-> "Result", name |-> n] : n \in ResultNames}

(* What a caller may pass for each column the constructor fills in: a *)
(* value, or nothing (None).                                              *)
Passable ==
  [id : Ids \cup {None}, status : StatusValues \cup {None},
   result : ResultValues \cup {None},
   date_created : Dates \cup {Now, None}]

VARIABLES
  rows,  \* the Steps constructed
  used   \* the GUIDs uuid.uuid4() has returned

vars == <<rows, used>>

Init == rows = {} /\ used = {}

(* Lines 34-43: super().__init__ sets the passed columns; id, result,   *)
(* status and date_created are then filled in where still None.  The  *)
(* column defaults of lines 16-27 apply only at the INSERT, after the   *)
(* constructor has run.                                                  *)
Constructed(kw, fresh) ==
  [id           |-> IF kw.id = None THEN fresh ELSE kw.id,
   result       |-> IF kw.result = None
                    THEN [enum |-> "Result", name |-> "unknown"]
                    ELSE kw.result,
   status       |-> IF kw.status = None
                    THEN [enum |-> "Result", name |-> "unknown"]
                    ELSE kw.status,
   date_created |-> IF kw.date_created = None THEN Now ELSE kw.date_created]

(* A caller constructs a Step with some keyword arguments. *)
Construct ==
  /\ Cardinality(rows) < MaxRows
  /\ \E kw \in Passable, fresh \in Ids \ used :
       /\ rows' = rows \cup {Constructed(kw, fresh)}
       /\ used' = IF kw.id = None THEN used \cup {fresh} ELSE used

Next == Construct

Spec == Init /\ [][Next]_vars

-----------------------------------------------------------------------------
(* A constructed Step's status is a member of Status, the enum class its *)
(* status column is declared with (line 22, Enum(Status)).                *)
StatusIsAStatus ==
  \A s \in rows : s.status \in StatusValues

=============================================================================
