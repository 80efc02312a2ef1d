----------------------------- MODULE MCCatalog -----------------------------
(* A small instance of Catalog for TLC.                                    *)
EXTENDS Catalog, TLC

CONSTANTS c1, c2, c3, f1, f2, o1, o2, i1, i2, r1, r2, r3

Root   == [state |-> "active", parent |-> NoCategory, template |-> 0, version |-> 1]
Absent == [Root EXCEPT !.state = "absent", !.version = 0]

TextField   == [state |-> "active", category |-> NoCategory, type |-> "text",
                visibility |-> "public", required |-> FALSE, version |-> 1]
SelectField == [TextField EXCEPT !.type = "select"]
NoDefinition == [TextField EXCEPT !.state = "absent", !.version = 0]

InUse  == [state |-> "active", field |-> f2, renamed |-> FALSE]
Unused == [InUse EXCEPT !.state = "absent", !.field = NoField]

Hidden == [exposure |-> "private", renamed |-> FALSE, version |-> 0]
Blank  == [present |-> FALSE, category |-> NoCategory, version |-> 0, values |-> Empty,
           shown |-> [f \in Field |-> Hidden], name |-> NoName]
InC1   == [Blank EXCEPT !.present = TRUE, !.category = c1, !.version = 1,
                        !.name.version = 1]

Plain == [category |-> [c \in Category |-> Root],
          field |-> (f1 :> TextField @@ f2 :> SelectField),
          option |-> (o1 :> InUse @@ o2 :> Unused),
          item |-> (i1 :> InC1 @@ i2 :> Blank)]

(* Or the item holds a value of either field, and c3 is below c2.          *)
Filled == [Plain EXCEPT
  !.category[c3].parent = c2,
  !.item[i1].values = (f1 :> "text" @@ f2 :> o1),
  !.item[i1].shown = [f \in Field |-> [Hidden EXCEPT !.exposure = "public", !.version = 1]]]

(* Or half of the rows are still to be created.                            *)
Sparse == [Plain EXCEPT !.category[c2] = Absent, !.field[f1] = NoDefinition,
                        !.option[o1] = Unused]

Tables == {Plain, Filled, Sparse}

KeepCategory == [parent |-> Undefined, template |-> Undefined]
KeepField == [category |-> Undefined, type |-> Undefined, visibility |-> Undefined,
              required |-> Undefined]
KeepValues == [f \in Field |-> Undefined]

Asks ==
  {[op |-> "updateCategory", id |-> c1, to |-> [KeepCategory EXCEPT !.parent = c3]],
   [op |-> "updateCategory", id |-> c2, to |-> [KeepCategory EXCEPT !.parent = c1]],
   [op |-> "updateCategory", id |-> c1, to |-> [KeepCategory EXCEPT !.template = 1]],
   [op |-> "updateCategory", id |-> c3, to |-> [KeepCategory EXCEPT !.parent = NoCategory]],
   [op |-> "archiveCategory", id |-> c2],
   [op |-> "createCategory", id |-> c2, to |-> [parent |-> c1, template |-> 0]],
   [op |-> "createField", id |-> f1, to |-> [category |-> c1, type |-> "number",
      visibility |-> "private", required |-> TRUE]],
   [op |-> "updateField", id |-> f1, to |-> [KeepField EXCEPT !.type = "number"]],
   [op |-> "updateField", id |-> f1,
      to |-> [KeepField EXCEPT !.visibility = "private", !.category = c2]],
   [op |-> "updateField", id |-> f2, to |-> [KeepField EXCEPT !.type = "text"]],
   [op |-> "archiveField", id |-> f1],
   [op |-> "createOption", id |-> o2, field |-> f2],
   [op |-> "updateOption", id |-> o1, field |-> f2],
   [op |-> "archiveOption", id |-> o1, field |-> f2],
   [op |-> "createItem", id |-> i2, category |-> c2, privileged |-> FALSE,
      values |-> [KeepValues EXCEPT ![f1] = "text"]],
   [op |-> "updateItem", id |-> i1, category |-> NoCategory, privileged |-> FALSE,
      values |-> [KeepValues EXCEPT ![f1] = "text"]],
   [op |-> "updateItem", id |-> i1, category |-> c2, privileged |-> TRUE,
      values |-> [KeepValues EXCEPT ![f2] = o1]]}

(* Two roots, each moved below the other.                                  *)
Crossing == {[op |-> "updateCategory", id |-> c1, to |-> [KeepCategory EXCEPT !.parent = c2]],
             [op |-> "updateCategory", id |-> c2, to |-> [KeepCategory EXCEPT !.parent = c1]]}

Symmetry == Permutations(Request)
=============================================================================
