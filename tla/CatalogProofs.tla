--------------------------- MODULE CatalogProofs ---------------------------
(***************************************************************************)
(* What Catalog shows on a small instance, proved for any number of        *)
(* categories, fields, options, items and calls.                           *)
(***************************************************************************)
EXTENDS Catalog, TLAPS

CategoryChanges == {"updateCategory", "archiveCategory"}
FieldChanges    == {"updateField", "archiveField"}
OptionChanges   == {"updateOption", "archiveOption"}
OfItem          == {"listed", "owned", "planned"}
Outside         == {"new", "done"}

Listing == [field : [Field -> FieldRow], option : [Option -> OptionRow]]

(* What a call holds on to fits what it asks for and how far it is.        *)
CallFits(q) ==
  /\ q.phase \in Outside => q.ask = NoAsk
  /\ q.phase \notin Outside => q.ask \in Ask
  /\ q.phase = "walking" =>
       q.ask.op = "updateCategory" /\ q.cursor \in Category /\ q.before = NoRow
  /\ q.phase = "checked" => q.ask.op \in CategoryOps \cup FieldOps \cup OptionOps
  /\ q.phase = "counting" => q.ask.op = "updateField"
  /\ q.phase = "written" => q.ask.op \in CategoryChanges
  /\ q.phase \in OfItem => q.ask.op \in ItemOps /\ q.before \in ItemRow /\ q.listing \in Listing
  /\ q.phase \in {"checked", "written"} /\ q.ask.op \in CategoryChanges => q.before \in CategoryRow
  /\ q.phase \in {"counting", "checked"} /\ q.ask.op \in FieldChanges => q.before \in FieldRow
  /\ q.phase = "checked" /\ q.ask.op \in OptionChanges => q.before \in OptionRow
  /\ q.phase = "checked" /\ q.ask.op \in {"createCategory", "createField", "createOption"}
       => q.before = NoRow

CallsFit == \A r \in Request : CallFits(request[r])

(* Every variable has its type, and a call what its phase calls for.       *)
Typed == TypeOK /\ CallsFit

-----------------------------------------------------------------------------
(* The operators the actions are built from.                               *)

(* An ask has the columns its operation needs.                             *)
LEMMA AskTyped ==
  ASSUME NEW ask \in Ask
  PROVE  /\ ask.op \in CategoryOps \cup FieldOps \cup OptionOps \cup ItemOps
         /\ ask.op \in CategoryOps => ask.id \in Category
         /\ ask.op \in {"createCategory", "updateCategory"} =>
              /\ ask.to.parent \in Category \cup {NoCategory, Undefined}
              /\ ask.to.template \in Nat \cup {Undefined}
         /\ ask.op \in FieldOps => ask.id \in Field
         /\ ask.op \in {"createField", "updateField"} =>
              /\ ask.to.category \in Category \cup {NoCategory, Undefined}
              /\ ask.to.type \in Type \cup {Undefined}
              /\ ask.to.visibility \in Exposure \cup {Undefined}
              /\ ask.to.required \in BOOLEAN \cup {Undefined}
         /\ ask.op \in OptionOps => ask.id \in Option /\ ask.field \in Field
         /\ ask.op \in ItemOps =>
              /\ ask.id \in Item
              /\ ask.category \in Category \cup {NoCategory}
              /\ ask.values \in [Field -> Value \cup {NoValue, Undefined}]
         /\ ask.op = "createItem" => ask.category \in Category
<1>1. ask \in AnyAsk
  BY AskAssumption
<1>2. QED
  BY <1>1 DEF AnyAsk, CategoryPatch, FieldPatch, Submitted, CategoryOps, FieldOps, OptionOps,
       ItemOps
(* What a category becomes: a new version, and the columns the ask gives.  *)
LEMMA CategoryChanged ==
  ASSUME NEW ask \in Ask, ask.op \in CategoryChanges, NEW row \in CategoryRow
  PROVE  /\ CategoryAfter(ask, row) \in CategoryRow
         /\ CategoryAfter(ask, row).version = row.version + 1
         /\ row.state # "absent" => CategoryAfter(ask, row).state # "absent"
         /\ CategoryAfter(ask, row).parent = IF Reparents(ask) THEN ask.to.parent ELSE row.parent
<1>1. CASE ask.op = "archiveCategory"
  <2>1. CategoryAfter(ask, row) = [row EXCEPT !.state = "archived", !.version = row.version + 1]
    BY <1>1 DEF CategoryAfter
  <2>2. row.version + 1 \in Nat
    BY DEF CategoryRow
  <2>3. "archived" \in Lifecycle
    BY DEF Lifecycle
  <2>4. [row EXCEPT !.state = "archived", !.version = row.version + 1] \in CategoryRow
    BY <2>2, <2>3 DEF CategoryRow
  <2>5. QED
    BY <1>1, <2>1, <2>4 DEF CategoryRow, Reparents
<1>2. CASE ask.op = "updateCategory"
  <2>1. /\ Given(ask.to.parent, row.parent) \in Category \cup {NoCategory}
        /\ Given(ask.to.template, row.template) \in Nat
    BY <1>2, AskTyped DEF Given, CategoryRow
  <2>2. QED
    BY <1>2, <2>1 DEF CategoryAfter, CategoryRow, Reparents, Given
<1>3. QED
  BY <1>1, <1>2 DEF CategoryChanges

(* What a field becomes; its type changes only when the ask converts it.   *)
LEMMA FieldChanged ==
  ASSUME NEW ask \in Ask, ask.op \in FieldChanges, NEW row \in FieldRow, NEW before \in FieldRow
  PROVE  /\ FieldAfter(ask, row, before) \in FieldRow
         /\ FieldAfter(ask, row, before).version = row.version + 1
         /\ row.state # "absent" => FieldAfter(ask, row, before).state # "absent"
         /\ ~Converts(ask, before)
              => FieldAfter(ask, row, before).type \in {row.type, before.type}
         /\ Converts(ask, before) => FieldAfter(ask, row, before).type = ask.to.type
<1>1. CASE ask.op = "archiveField"
  <2>1. FieldAfter(ask, row, before) =
          [row EXCEPT !.state = "archived", !.version = row.version + 1]
    BY <1>1 DEF FieldAfter
  <2>2. row.version + 1 \in Nat
    BY DEF FieldRow
  <2>3. "archived" \in Lifecycle
    BY DEF Lifecycle
  <2>4. [row EXCEPT !.state = "archived", !.version = row.version + 1] \in FieldRow
    BY <2>2, <2>3 DEF FieldRow
  <2>5. ~Converts(ask, before)
    BY <1>1 DEF Converts
  <2>6. QED
    BY <2>1, <2>4, <2>5 DEF FieldRow
<1>2. CASE ask.op = "updateField"
  <2>1. /\ Given(ask.to.category, row.category) \in Category \cup {NoCategory}
        /\ Given(ask.to.type, before.type) \in Type
        /\ Given(ask.to.visibility, row.visibility) \in Exposure
        /\ Given(ask.to.required, before.required) \in BOOLEAN
    BY <1>2, AskTyped DEF Given, FieldRow
  <2>2. /\ FieldAfter(ask, row, before) \in FieldRow
        /\ FieldAfter(ask, row, before).version = row.version + 1
        /\ FieldAfter(ask, row, before).state = row.state
        /\ FieldAfter(ask, row, before).type = Given(ask.to.type, before.type)
    BY <1>2, <2>1 DEF FieldAfter, FieldRow
  <2>3. QED
    BY <1>2, <2>2 DEF Converts, Given
<1>3. QED
  BY <1>1, <1>2 DEF FieldChanges
(* The calls before their first statement, and the records they become.    *)
LEMMA NewCallTyped ==
  /\ NewCall \in Call /\ NewCall.phase = "new" /\ NewCall.ask = NoAsk /\ NewCall.before = NoRow
  /\ Checked \in Call /\ Checked.phase = "checked" /\ Checked.before = NoRow
  /\ [NewCall EXCEPT !.phase = "done"] \in Call
  /\ [NewCall EXCEPT !.phase = "done"].phase = "done"
  /\ [NewCall EXCEPT !.phase = "done"].ask = NoAsk
<1>1. Empty \in [Field -> Value \cup {NoValue}] /\ NoName \in [template : Nat, version : Nat]
  BY DEF Empty, NoName
<1>2. QED
  BY <1>1 DEF NewCall, Checked, Call

LEMMA PhaseFields ==
  ASSUME NEW call \in Call, NEW phase \in {"checked", "written", "owned", "planned", "done"},
         NEW new, new = [call EXCEPT !.phase = phase]
  PROVE  /\ new \in Call
         /\ new.phase = phase
         /\ new.ask = call.ask /\ new.expected = call.expected
         /\ new.cursor = call.cursor /\ new.visited = call.visited
         /\ new.before = call.before /\ new.listing = call.listing
         /\ new.values = call.values /\ new.name = call.name
  BY DEF Call
-----------------------------------------------------------------------------
(* Types.                                                                  *)

(* The rows that a call, or an ask, is about.                              *)
LEMMA RowTyped ==
  ASSUME TypeOK, NEW ask \in Ask
  PROVE  /\ ask.op \in CategoryOps => Row(ask) = category[ask.id] /\ Row(ask) \in CategoryRow
         /\ ask.op \in FieldOps => Row(ask) = field[ask.id] /\ Row(ask) \in FieldRow
         /\ ask.op \in OptionOps => Row(ask) = option[ask.id] /\ Row(ask) \in OptionRow
         /\ ask.op \in ItemOps => Row(ask) = item[ask.id] /\ Row(ask) \in ItemRow
         /\ ask.op \in OptionOps => Expected(ask) = field[ask.field].version
         /\ ask.op \notin OptionOps => Expected(ask) = Row(ask).version
         /\ Expected(ask) \in Nat
<1>1. /\ ask.op \in CategoryOps => Row(ask) = category[ask.id]
      /\ ask.op \in FieldOps => Row(ask) = field[ask.id]
      /\ ask.op \in OptionOps => Row(ask) = option[ask.id]
      /\ ask.op \in ItemOps => Row(ask) = item[ask.id]
  BY DEF Row, CategoryOps, FieldOps, OptionOps, ItemOps
<1>2. /\ ask.op \in CategoryOps => Row(ask) \in CategoryRow
      /\ ask.op \in FieldOps => Row(ask) \in FieldRow
      /\ ask.op \in OptionOps => Row(ask) \in OptionRow
      /\ ask.op \in ItemOps => Row(ask) \in ItemRow
  BY <1>1, AskTyped DEF TypeOK
<1>3. /\ ask.op \in OptionOps => Expected(ask) = field[ask.field].version
      /\ ask.op \notin OptionOps => Expected(ask) = Row(ask).version
  BY DEF Expected
<1>4. Expected(ask) \in Nat
  <2>1. CASE ask.op \in OptionOps
    BY <2>1, <1>3, AskTyped DEF TypeOK, FieldRow
  <2>2. CASE ask.op \notin OptionOps
    <3>1. Row(ask) \in CategoryRow \/ Row(ask) \in FieldRow \/ Row(ask) \in ItemRow
      BY <2>2, <1>2, AskTyped
    <3>2. QED
      BY <3>1, <2>2, <1>3 DEF CategoryRow, FieldRow, ItemRow
  <2>3. QED
    BY <2>1, <2>2
<1>5. QED
  BY <1>1, <1>2, <1>3, <1>4

(* A step that moves one call leaves the others as they are.               *)
LEMMA OneCall ==
  ASSUME Typed, NEW r \in Request, NEW new \in Call, CallFits(new),
         request' = [request EXCEPT ![r] = new]
  PROVE  /\ request' \in [Request -> Call]
         /\ CallsFit'
         /\ request'[r] = new
         /\ \A q \in Request \ {r} : request'[q] = request[q]
<1>1. /\ request' \in [Request -> Call]
      /\ request'[r] = new
      /\ \A q \in Request \ {r} : request'[q] = request[q]
  BY DEF Typed, TypeOK
<1>2. ASSUME NEW q \in Request PROVE CallFits(request'[q])
  BY <1>1 DEF Typed, CallsFit
<1>3. QED
  BY <1>1, <1>2 DEF CallsFit

(* A call begins and changes nothing else.                                 *)
Begun(r, ask) ==
  /\ UNCHANGED <<tables, overlapped, raced>>
  /\ request[r].phase = "new"
  /\ request'[r].ask = ask /\ request'[r].expected = Expected(ask)
  /\ \A q \in Request \ {r} : request'[q] = request[q]

(* What a call begins with fits its ask.                                   *)
BeginsWell(ask, call) ==
  \A new \in Call :
    /\ new.phase = call.phase /\ new.ask = ask /\ new.cursor = call.cursor
    /\ new.before = call.before /\ new.listing = call.listing
    => CallFits(new)

LEMMA BeginTyped ==
  ASSUME Typed, NEW r \in Request, NEW ask \in Ask, NEW call \in Call, Begin(r, ask, call),
         BeginsWell(ask, call)
  PROVE  /\ Typed'
         /\ Begun(r, ask)
         /\ request'[r].phase = call.phase /\ request'[r].cursor = call.cursor
         /\ request'[r].before = call.before /\ request'[r].listing = call.listing
         /\ request'[r].values = call.values /\ request'[r].name = call.name
<1>1. Expected(ask) \in Nat
  BY RowTyped DEF Typed
<1>a. PICK n \in Nat : n = Expected(ask)
  BY <1>1
<1>b. PICK new : new = [call EXCEPT !.ask = ask, !.expected = n]
  OBVIOUS
<1>2. /\ request[r].phase = "new"
      /\ request' = [request EXCEPT ![r] = new]
      /\ UNCHANGED <<tables, overlapped, raced>>
  BY <1>a, <1>b DEF Begin
<1>3. /\ new \in Call
      /\ new.ask = ask /\ new.expected = Expected(ask)
      /\ new.phase = call.phase /\ new.cursor = call.cursor /\ new.visited = call.visited
      /\ new.before = call.before /\ new.listing = call.listing
      /\ new.values = call.values /\ new.name = call.name
  BY <1>a, <1>b DEF Call
<1>4. CallFits(new)
  BY <1>3 DEF BeginsWell
<1>5. /\ request' \in [Request -> Call]
      /\ CallsFit'
      /\ request'[r] = new
      /\ \A q \in Request \ {r} : request'[q] = request[q]
  BY <1>2, <1>3, <1>4, OneCall
<1>6. TypeOK'
  BY <1>2, <1>5 DEF Typed, TypeOK, tables
<1>7. QED
  BY <1>a, <1>2, <1>3, <1>5, <1>6 DEF Typed, Begun

LEMMA GotoTyped ==
  ASSUME Typed, NEW r \in Request, NEW phase \in {"checked", "written", "owned", "planned", "done"},
         Goto(r, phase),
         \A new \in Call :
           /\ new.phase = phase /\ new.ask = request[r].ask /\ new.cursor = request[r].cursor
           /\ new.before = request[r].before /\ new.listing = request[r].listing
           => CallFits(new)
  PROVE  /\ request' \in [Request -> Call]
         /\ CallsFit'
         /\ request'[r].phase = phase
         /\ request'[r].ask = request[r].ask /\ request'[r].expected = request[r].expected
         /\ request'[r].before = request[r].before /\ request'[r].listing = request[r].listing
         /\ request'[r].values = request[r].values /\ request'[r].name = request[r].name
         /\ \A q \in Request \ {r} : request'[q] = request[q]
<1> DEFINE new == [request[r] EXCEPT !.phase = phase]
<1>1. request[r] \in Call /\ request' = [request EXCEPT ![r] = new]
  BY DEF Goto, Typed, TypeOK
<1>2. /\ new \in Call
      /\ new.phase = phase
      /\ new.ask = request[r].ask /\ new.expected = request[r].expected
      /\ new.cursor = request[r].cursor /\ new.visited = request[r].visited
      /\ new.before = request[r].before /\ new.listing = request[r].listing
      /\ new.values = request[r].values /\ new.name = request[r].name
  BY <1>1, PhaseFields
<1> HIDE DEF new
<1>3. CallFits(new)
  BY <1>2
<1>4. QED
  BY <1>1, <1>2, <1>3, OneCall

LEMMA EndsTyped ==
  ASSUME Typed, NEW r \in Request, Ends(r)
  PROVE  /\ request' \in [Request -> Call]
         /\ CallsFit'
         /\ request'[r].phase = "done" /\ request'[r].ask = NoAsk
         /\ \A q \in Request \ {r} : request'[q] = request[q]
<1> DEFINE new == [NewCall EXCEPT !.phase = "done"]
<1>1. new \in Call /\ new.phase = "done" /\ new.ask = NoAsk
  BY NewCallTyped
<1>2. request' = [request EXCEPT ![r] = new]
  BY DEF Ends
<1> HIDE DEF new
<1>3. CallFits(new)
  BY <1>1 DEF CallFits, Outside, OfItem
<1>4. QED
  BY <1>1, <1>2, <1>3, OneCall
(* What each call does first.                                              *)
CategoryBegun(r, ask) ==
  /\ Begun(r, ask)
  /\ \/ /\ ask.op = "createCategory" /\ IsActive(ask.to.parent)
        /\ request'[r].phase = "checked" /\ request'[r].before = NoRow
     \/ /\ ask.op \in CategoryChanges
        /\ Reparents(ask) => ask.to.parent = NoCategory
        /\ request'[r].phase = "checked" /\ request'[r].before = category[ask.id]
     \/ /\ ask.op = "updateCategory"
        /\ request'[r].phase = "walking" /\ request'[r].before = NoRow
        /\ request'[r].cursor = ask.to.parent

LEMMA StartCategoryStep ==
  ASSUME Typed, NEW r \in Request, NEW ask \in Ask, StartCategory(r, ask)
  PROVE  Typed' /\ CategoryBegun(r, ask)
<1> USE DEF CategoryBegun
<1> USE NewCallTyped
<1>1. CASE ask.op = "createCategory" /\ IsActive(ask.to.parent) /\ Begin(r, ask, Checked)
  <2>1. ASSUME NEW new \in Call, new.phase = "checked", new.ask = ask, new.before = NoRow
        PROVE  CallFits(new)
    BY <1>1, <2>1 DEF CallFits, Outside, OfItem, CategoryOps, CategoryChanges, FieldChanges,
         OptionChanges
  <2>2. BeginsWell(ask, Checked)
    BY <2>1 DEF BeginsWell
  <2>3. QED
    BY <1>1, <2>2, BeginTyped
<1>2. CASE /\ ask.op \in CategoryChanges
           /\ Reparents(ask) => ask.to.parent = NoCategory
           /\ Begin(r, ask, [Checked EXCEPT !.before = category[ask.id]])
  <2>1. category[ask.id] \in CategoryRow
    BY <1>2, AskTyped DEF Typed, TypeOK, CategoryOps, CategoryChanges
  <2>2. PICK call : call = [Checked EXCEPT !.before = category[ask.id]]
    OBVIOUS
  <2>3. call \in Call /\ call.phase = "checked" /\ call.before = category[ask.id]
    BY <2>1, <2>2 DEF Call
  <2>4. ASSUME NEW new \in Call, new.phase = "checked", new.ask = ask, new.before = category[ask.id]
        PROVE  CallFits(new)
    BY <1>2, <2>1, <2>4 DEF CallFits, Outside, OfItem, CategoryOps, CategoryChanges, FieldChanges,
         OptionChanges
  <2>5. BeginsWell(ask, call)
    BY <2>3, <2>4 DEF BeginsWell
  <2>6. QED
    BY <1>2, <2>2, <2>3, <2>5, BeginTyped
<1>3. CASE /\ ask.op = "updateCategory" /\ ask.to.parent \in Category
           /\ Begin(r, ask, [NewCall EXCEPT !.phase = "walking", !.cursor = ask.to.parent])
  <2>1. PICK call : call = [NewCall EXCEPT !.phase = "walking", !.cursor = ask.to.parent]
    OBVIOUS
  <2>2. /\ call \in Call /\ call.phase = "walking" /\ call.before = NoRow
        /\ call.cursor = ask.to.parent
    BY <1>3, <2>1 DEF Call
  <2>3. ASSUME NEW new \in Call, new.phase = "walking", new.ask = ask, new.before = NoRow,
               new.cursor = ask.to.parent
        PROVE  CallFits(new)
    BY <1>3, <2>3 DEF CallFits, Outside, OfItem
  <2>4. BeginsWell(ask, call)
    BY <2>2, <2>3 DEF BeginsWell
  <2>5. QED
    BY <1>3, <2>1, <2>2, <2>4, BeginTyped
<1>4. ask.op = "updateCategory" => ask.to.parent \in Category \cup {NoCategory, Undefined}
  BY AskTyped
<1>5. QED
  BY <1>1, <1>2, <1>3, <1>4 DEF StartCategory, Reparents, CategoryChanges
FieldBegun(r, ask) ==
  /\ Begun(r, ask)
  /\ \/ /\ ask.op = "createField"
        /\ request'[r].phase = "checked" /\ request'[r].before = NoRow
     \/ /\ ask.op \in FieldChanges
        /\ ~Converts(ask, field[ask.id])
        /\ request'[r].phase = "checked" /\ request'[r].before = field[ask.id]
     \/ /\ ask.op = "updateField"
        /\ Converts(ask, field[ask.id]) /\ Convertible(ask.id, ask.to.type)
        /\ request'[r].phase = "counting" /\ request'[r].before = field[ask.id]

LEMMA StartFieldStep ==
  ASSUME Typed, NEW r \in Request, NEW ask \in Ask, StartField(r, ask)
  PROVE  Typed' /\ FieldBegun(r, ask)
<1> USE DEF FieldBegun
<1> USE NewCallTyped
<1>1. CASE ask.op = "createField" /\ Begin(r, ask, Checked)
  <2>1. ASSUME NEW new \in Call, new.phase = "checked", new.ask = ask, new.before = NoRow
        PROVE  CallFits(new)
    BY <1>1, <2>1 DEF CallFits, Outside, OfItem, FieldOps, CategoryChanges, FieldChanges,
         OptionChanges
  <2>2. BeginsWell(ask, Checked)
    BY <2>1 DEF BeginsWell
  <2>3. QED
    BY <1>1, <2>2, BeginTyped
<1>2. CASE /\ ask.op \in FieldChanges /\ field[ask.id].state = "active"
           /\ Converts(ask, field[ask.id]) => Convertible(ask.id, ask.to.type)
           /\ Begin(r, ask, [NewCall EXCEPT
                !.phase = IF Converts(ask, field[ask.id]) THEN "counting" ELSE "checked",
                !.before = field[ask.id]])
  <2>1. field[ask.id] \in FieldRow
    BY <1>2, AskTyped DEF Typed, TypeOK, FieldOps, FieldChanges
  <2>2. PICK phase : phase = IF Converts(ask, field[ask.id]) THEN "counting" ELSE "checked"
    OBVIOUS
  <2>3. PICK call : call = [NewCall EXCEPT !.phase = phase, !.before = field[ask.id]]
    OBVIOUS
  <2>4. call \in Call /\ call.phase = phase /\ call.before = field[ask.id]
    BY <2>1, <2>2, <2>3 DEF Call
  <2>5. Converts(ask, field[ask.id]) => ask.op = "updateField"
    BY DEF Converts
  <2>6. ASSUME NEW new \in Call, new.phase = phase, new.ask = ask, new.before = field[ask.id]
        PROVE  CallFits(new)
    BY <1>2, <2>1, <2>2, <2>5, <2>6 DEF CallFits, Outside, OfItem, FieldOps, CategoryChanges,
         FieldChanges, OptionChanges
  <2>7. BeginsWell(ask, call)
    BY <2>4, <2>6 DEF BeginsWell
  <2>8. Begin(r, ask, call)
    BY <1>2, <2>2, <2>3
  <2>9. /\ Typed' /\ Begun(r, ask)
        /\ request'[r].phase = phase /\ request'[r].before = field[ask.id]
    BY <2>4, <2>7, <2>8, BeginTyped
  <2>10. QED
    BY <1>2, <2>2, <2>5, <2>9
<1>3. QED
  BY <1>1, <1>2 DEF StartField, FieldChanges

OptionBegun(r, ask) ==
  /\ Begun(r, ask)
  /\ request'[r].phase = "checked"
  /\ \/ /\ ask.op = "createOption"
        /\ field[ask.field].type = "select"
        /\ request'[r].before = NoRow
     \/ /\ ask.op \in OptionChanges
        /\ option[ask.id].state = "active" /\ option[ask.id].field = ask.field
        /\ request'[r].before = option[ask.id]

LEMMA StartOptionStep ==
  ASSUME Typed, NEW r \in Request, NEW ask \in Ask, StartOption(r, ask)
  PROVE  Typed' /\ OptionBegun(r, ask)
<1> USE DEF OptionBegun
<1> USE NewCallTyped
<1>1. CASE ask.op = "createOption" /\ field[ask.field].type = "select" /\ Begin(r, ask, Checked)
  <2>1. ASSUME NEW new \in Call, new.phase = "checked", new.ask = ask, new.before = NoRow
        PROVE  CallFits(new)
    BY <1>1, <2>1 DEF CallFits, Outside, OfItem, OptionOps, CategoryChanges, FieldChanges,
         OptionChanges
  <2>2. BeginsWell(ask, Checked)
    BY <2>1 DEF BeginsWell
  <2>3. QED
    BY <1>1, <2>2, BeginTyped
<1>2. CASE /\ ask.op \in OptionChanges
           /\ option[ask.id].state = "active" /\ option[ask.id].field = ask.field
           /\ Begin(r, ask, [Checked EXCEPT !.before = option[ask.id]])
  <2>1. option[ask.id] \in OptionRow
    BY <1>2, AskTyped DEF Typed, TypeOK, OptionOps, OptionChanges
  <2>2. PICK call : call = [Checked EXCEPT !.before = option[ask.id]]
    OBVIOUS
  <2>3. call \in Call /\ call.phase = "checked" /\ call.before = option[ask.id]
    BY <2>1, <2>2 DEF Call
  <2>4. ASSUME NEW new \in Call, new.phase = "checked", new.ask = ask, new.before = option[ask.id]
        PROVE  CallFits(new)
    BY <1>2, <2>1, <2>4 DEF CallFits, Outside, OfItem, OptionOps, CategoryChanges, FieldChanges,
         OptionChanges
  <2>5. BeginsWell(ask, call)
    BY <2>3, <2>4 DEF BeginsWell
  <2>6. QED
    BY <1>2, <2>2, <2>3, <2>5, BeginTyped
<1>3. QED
  BY <1>1, <1>2 DEF StartOption, OptionChanges

LEMMA MergedTyped ==
  ASSUME TypeOK, NEW ask \in Ask, ask.op \in ItemOps
  PROVE  Merged(ask) \in [Field -> Value \cup {NoValue}]
<1>1. item[ask.id] \in ItemRow /\ ask.values \in [Field -> Value \cup {NoValue, Undefined}]
  BY AskTyped DEF TypeOK
<1>2. ASSUME NEW f \in Field
      PROVE  Given(ask.values[f], item[ask.id].values[f]) \in Value \cup {NoValue}
  BY <1>1 DEF Given, ItemRow
<1>3. QED
  BY <1>2 DEF Merged

ItemBegun(r, ask) ==
  /\ Begun(r, ask)
  /\ ask.op \in ItemOps
  /\ item[ask.id].present = (ask.op = "updateItem")
  /\ request'[r].phase = "listed" /\ request'[r].before = item[ask.id]
  /\ request'[r].listing = [field |-> field, option |-> option]
  /\ request'[r].values = Merged(ask)

LEMMA StartItemStep ==
  ASSUME Typed, NEW r \in Request, NEW ask \in Ask, StartItem(r, ask)
  PROVE  Typed' /\ ItemBegun(r, ask)
<1> USE DEF ItemBegun
<1>1. /\ ask.op \in ItemOps
      /\ item[ask.id].present = (ask.op = "updateItem")
      /\ Begin(r, ask, [NewCall EXCEPT !.phase = "listed", !.before = item[ask.id],
           !.listing = [field |-> field, option |-> option], !.values = Merged(ask)])
  BY DEF StartItem
<1>2. /\ item[ask.id] \in ItemRow
      /\ [field |-> field, option |-> option] \in Listing
      /\ Merged(ask) \in [Field -> Value \cup {NoValue}]
  BY <1>1, AskTyped, MergedTyped DEF Typed, TypeOK, Listing
<1>3. PICK listing \in Listing, values \in [Field -> Value \cup {NoValue}] :
        listing = [field |-> field, option |-> option] /\ values = Merged(ask)
  BY <1>2
<1>4. PICK call : call = [NewCall EXCEPT !.phase = "listed", !.before = item[ask.id],
                                         !.listing = listing, !.values = values]
  OBVIOUS
<1>5. /\ call \in Call /\ call.phase = "listed" /\ call.before = item[ask.id]
      /\ call.listing = listing /\ call.values = values
  BY <1>2, <1>4, NewCallTyped DEF Call, Listing
<1>6. ASSUME NEW new \in Call, new.phase = "listed", new.ask = ask, new.before = item[ask.id],
             new.listing = listing
      PROVE  CallFits(new)
  BY <1>1, <1>2, <1>6 DEF CallFits, Outside, OfItem
<1>7. BeginsWell(ask, call)
  BY <1>5, <1>6 DEF BeginsWell
<1>8. Begin(r, ask, call)
  BY <1>1, <1>3, <1>4
<1>9. QED
  BY <1>1, <1>3, <1>5, <1>7, <1>8, BeginTyped
(* A call is answered; or it goes on with what it holds.                   *)
Ended(r) ==
  /\ request'[r].phase = "done" /\ request'[r].ask = NoAsk
  /\ \A q \in Request \ {r} : request'[q] = request[q]

Continues(r, phase) ==
  /\ request'[r].phase = phase
  /\ request'[r].ask = request[r].ask /\ request'[r].expected = request[r].expected
  /\ request'[r].before = request[r].before /\ request'[r].listing = request[r].listing
  /\ request'[r].values = request[r].values /\ request'[r].name = request[r].name
  /\ \A q \in Request \ {r} : request'[q] = request[q]

Rejected(r) == Ended(r) /\ UNCHANGED <<tables, overlapped, raced>>

LEMMA RefusedStep ==
  ASSUME Typed, NEW r \in Request, Refused(r)
  PROVE  Typed' /\ Rejected(r)
<1> USE DEF Rejected
<1>1. /\ request' \in [Request -> Call] /\ CallsFit'
      /\ request'[r].phase = "done" /\ request'[r].ask = NoAsk
      /\ \A q \in Request \ {r} : request'[q] = request[q]
      /\ UNCHANGED <<tables, overlapped, raced>>
  BY EndsTyped DEF Refused
<1>2. QED
  BY <1>1 DEF Typed, TypeOK, tables, Ended

(* One ancestor more, or the walk is over.                                 *)
Walked(r) ==
  /\ UNCHANGED <<tables, overlapped, raced>>
  /\ request[r].phase = "walking" /\ category[request[r].cursor].state = "active"
  /\ \/ Continues(r, "walking")
     \/ /\ request'[r].phase = "checked"
        /\ request'[r].ask = request[r].ask
        /\ request'[r].expected = request[r].expected
        /\ request'[r].before = category[request[r].ask.id]
        /\ \A q \in Request \ {r} : request'[q] = request[q]

LEMMA WalkStep ==
  ASSUME Typed, NEW r \in Request, Walk(r)
  PROVE  Typed' /\ (Rejected(r) \/ Walked(r))
<1> USE DEF Walked
<1> DEFINE at == category[request[r].cursor]
           id == request[r].ask.id
           seen == request[r].visited \cup {request[r].cursor}
           outside == at.state = "active" /\ at.parent \notin seen \cup {id}
<1>1. /\ request[r].phase = "walking" /\ request[r] \in Call
      /\ request[r].ask \in Ask /\ request[r].ask.op = "updateCategory"
      /\ request[r].cursor \in Category /\ request[r].before = NoRow
  BY DEF Walk, Typed, TypeOK, CallsFit, CallFits, Outside
<1>2. id \in Category /\ category[id] \in CategoryRow /\ at \in CategoryRow
  BY <1>1, AskTyped DEF Typed, TypeOK, CategoryOps
<1>3. CASE ~outside
  BY <1>1, <1>3, RefusedStep DEF Walk
<1>4. CASE outside /\ at.parent = NoCategory
  <2>1. PICK row \in CategoryRow : row = category[id]
    BY <1>2
  <2>2. PICK new : new = [request[r] EXCEPT !.phase = "checked", !.before = row,
                                            !.cursor = NoCategory, !.visited = {}]
    OBVIOUS
  <2>3. /\ request' = [request EXCEPT ![r] = new]
        /\ UNCHANGED <<tables, overlapped, raced>>
    BY <1>4, <2>1, <2>2 DEF Walk
  <2>4. /\ new \in Call /\ new.phase = "checked" /\ new.before = row
        /\ new.ask = request[r].ask /\ new.expected = request[r].expected
    BY <1>1, <2>2 DEF Call
  <2>5. CallFits(new)
    BY <1>1, <2>4 DEF CallFits, Outside, OfItem, CategoryOps, CategoryChanges, FieldChanges,
         OptionChanges
  <2>6. /\ request' \in [Request -> Call] /\ CallsFit' /\ request'[r] = new
        /\ \A q \in Request \ {r} : request'[q] = request[q]
    BY <2>3, <2>4, <2>5, OneCall
  <2>7. QED
    BY <1>1, <1>4, <2>1, <2>3, <2>4, <2>6 DEF Typed, TypeOK, tables
<1>5. CASE outside /\ at.parent # NoCategory
  <2>1. at.parent \in Category /\ seen \subseteq Category
    BY <1>1, <1>2, <1>5 DEF CategoryRow, Call
  <2>2. PICK up \in Category, visited \in SUBSET Category : up = at.parent /\ visited = seen
    BY <2>1
  <2>3. PICK new : new = [request[r] EXCEPT !.cursor = up, !.visited = visited]
    OBVIOUS
  <2>4. /\ request' = [request EXCEPT ![r] = new]
        /\ UNCHANGED <<tables, overlapped, raced>>
    BY <1>5, <2>2, <2>3 DEF Walk
  <2>5. /\ new \in Call /\ new.phase = "walking" /\ new.before = NoRow /\ new.cursor = up
        /\ new.ask = request[r].ask /\ new.expected = request[r].expected
        /\ new.listing = request[r].listing
        /\ new.values = request[r].values /\ new.name = request[r].name
    BY <1>1, <2>3 DEF Call
  <2>6. CallFits(new)
    BY <1>1, <2>5 DEF CallFits, Outside, OfItem
  <2>7. /\ request' \in [Request -> Call] /\ CallsFit' /\ request'[r] = new
        /\ \A q \in Request \ {r} : request'[q] = request[q]
    BY <2>4, <2>5, <2>6, OneCall
  <2>8. Typed'
    BY <2>4, <2>7 DEF Typed, TypeOK, tables
  <2>9. Continues(r, "walking")
    BY <1>1, <2>5, <2>7 DEF Continues
  <2>10. QED
    BY <1>1, <1>5, <2>4, <2>8, <2>9
<1>6. QED
  BY <1>3, <1>4, <1>5

(* The row is at the version expected, and locked by nobody else.          *)
WroteCategory(r) ==
  /\ UNCHANGED <<tables, raced>>
  /\ request[r].phase = "checked" /\ request[r].ask.op \in CategoryChanges
  /\ Trigger(request[r].ask)
  /\ overlapped' = (overlapped \/
       (Reparents(request[r].ask) /\ \E q \in Request : Written(q) /\ Reparents(request[q].ask)))
  /\ \A q \in Request : Written(q) => request[q].ask.id # request[r].ask.id
  /\ Continues(r, "written")
  /\ AtVersion(category[request[r].ask.id], request[r].expected)

LEMMA WriteCategoryStep ==
  ASSUME Typed, NEW r \in Request, WriteCategory(r)
  PROVE  Typed' /\ (Rejected(r) \/ WroteCategory(r))
<1> USE DEF WroteCategory
<1>1. /\ request[r].phase = "checked" /\ request[r].ask.op \in CategoryChanges
      /\ \A q \in Request : Written(q) => request[q].ask.id # request[r].ask.id
  BY DEF WriteCategory, CategoryChanges
<1>2. CASE Refused(r)
  BY <1>1, <1>2, RefusedStep
<1>3. CASE /\ AtVersion(category[request[r].ask.id], request[r].expected)
           /\ Trigger(request[r].ask)
           /\ Goto(r, "written")
           /\ overlapped' = (overlapped \/
                (Reparents(request[r].ask)
                   /\ \E q \in Request : Written(q) /\ Reparents(request[q].ask)))
           /\ overlapped' \in BOOLEAN
           /\ UNCHANGED <<tables, raced>>
  <2>1. /\ request[r].ask \in Ask /\ request[r].before \in CategoryRow
    BY <1>1 DEF Typed, CallsFit, CallFits, Outside
  <2>2. ASSUME NEW new \in Call, new.phase = "written", new.ask = request[r].ask,
               new.before = request[r].before
        PROVE  CallFits(new)
    BY <1>1, <2>1, <2>2 DEF CallFits, Outside, OfItem, CategoryChanges
  <2>3. /\ request' \in [Request -> Call] /\ CallsFit' /\ Continues(r, "written")
    BY <1>3, <2>2, GotoTyped DEF Continues
  <2>4. Typed'
    BY <1>3, <2>3 DEF Typed, TypeOK, tables
  <2>5. QED
    BY <1>1, <1>3, <2>3, <2>4
<1>4. QED
  BY <1>2, <1>3 DEF WriteCategory, Typed, TypeOK
LEMMA CommitCategoryStep ==
  ASSUME Typed, NEW r \in Request, CommitCategory(r), NEW ask, ask = request[r].ask
  PROVE  /\ Typed'
         /\ Written(r) /\ ask \in Ask /\ ask.op \in CategoryChanges
         /\ ask.id \in Category /\ category[ask.id] \in CategoryRow
         /\ category' = [category EXCEPT ![ask.id] = CategoryAfter(ask, category[ask.id])]
         /\ owed \subseteq owed'
         /\ CategoryAfter(ask, category[ask.id]).template # category[ask.id].template
              => <<ask.id, category[ask.id].version + 1>> \in owed'
         /\ Ended(r)
         /\ UNCHANGED <<field, option, item, overlapped, raced>>
<1>1. /\ Written(r) /\ ask \in Ask /\ ask.op \in CategoryChanges
  BY DEF CommitCategory, Written, Typed, CallsFit, CallFits, Outside
<1>2. ask.id \in Category /\ category[ask.id] \in CategoryRow
  BY <1>1, AskTyped DEF Typed, TypeOK, CategoryChanges, CategoryOps
<1>3. PICK row \in CategoryRow : row = category[ask.id]
  BY <1>2
<1>4. PICK new : new = CategoryAfter(ask, row)
  OBVIOUS
<1>5. new \in CategoryRow /\ new.version = row.version + 1 /\ new.version \in Nat
  BY <1>1, <1>3, <1>4, CategoryChanged DEF CategoryRow
<1>6. /\ category' = [category EXCEPT ![ask.id] = new]
      /\ owed' = owed \cup {m \in {<<ask.id, new.version>>} : new.template # row.template}
      /\ Ends(r)
      /\ UNCHANGED <<field, option, item, overlapped, raced>>
  BY <1>3, <1>4 DEF CommitCategory
<1>7. request' \in [Request -> Call] /\ CallsFit' /\ Ended(r)
  BY <1>6, EndsTyped DEF Ended
<1>8. /\ category' \in [Category -> CategoryRow]
      /\ owed' \subseteq (Category \cup Field \cup Option) \X Nat
  BY <1>2, <1>5, <1>6 DEF Typed, TypeOK
<1>9. Typed'
  BY <1>6, <1>7, <1>8 DEF Typed, TypeOK
<1>10. new.template # row.template => <<ask.id, row.version + 1>> \in owed'
  BY <1>5, <1>6
<1>11. QED
  BY <1>1, <1>2, <1>3, <1>4, <1>6, <1>7, <1>9, <1>10

LEMMA CreateCategoryStep ==
  ASSUME Typed, NEW r \in Request, CreateCategory(r), NEW ask, ask = request[r].ask
  PROVE  /\ Typed'
         /\ request[r].phase = "checked" /\ ask \in Ask /\ ask.op = "createCategory"
         /\ ask.id \in Category
         /\ \/ UNCHANGED category
            \/ \E row \in CategoryRow :
                 /\ category[ask.id].state = "absent"
                 /\ row.state = "active" /\ row.version = 1 /\ row.parent = ask.to.parent
                 /\ category' = [category EXCEPT ![ask.id] = row]
         /\ Ended(r)
         /\ UNCHANGED <<field, option, item, owed, overlapped, raced>>
<1>1. /\ request[r].phase = "checked" /\ ask \in Ask /\ ask.op = "createCategory"
  BY DEF CreateCategory, Typed, CallsFit, CallFits, Outside
<1>2. /\ ask.id \in Category /\ category[ask.id] \in CategoryRow
      /\ ask.to.parent \in Category \cup {NoCategory}
      /\ ask.to.template \in Nat
  BY <1>1, AskTyped, AskAssumption DEF Typed, TypeOK, CategoryOps
<1>3. PICK row : row = [state |-> "active", parent |-> ask.to.parent,
                        template |-> ask.to.template, version |-> 1]
  OBVIOUS
<1>4. /\ row \in CategoryRow /\ row.state = "active" /\ row.version = 1
      /\ row.parent = ask.to.parent
  BY <1>2, <1>3 DEF CategoryRow, Lifecycle
<1>5. /\ category' = [category EXCEPT ![ask.id] = IF @.state # "absent" THEN @ ELSE row]
      /\ Ends(r)
      /\ UNCHANGED <<field, option, item, owed, overlapped, raced>>
  BY <1>3 DEF CreateCategory
<1>6. request' \in [Request -> Call] /\ CallsFit' /\ Ended(r)
  BY <1>5, EndsTyped DEF Ended
<1>7. \/ UNCHANGED category
      \/ category[ask.id].state = "absent" /\ category' = [category EXCEPT ![ask.id] = row]
  <2>1. CASE category[ask.id].state = "absent"
    BY <2>1, <1>5
  <2>2. CASE category[ask.id].state # "absent"
    <3>1. category' = [category EXCEPT ![ask.id] = category[ask.id]]
      BY <2>2, <1>5
    <3>2. QED
      BY <3>1 DEF Typed, TypeOK
  <2>3. QED
    BY <2>1, <2>2
<1>8. category' \in [Category -> CategoryRow]
  BY <1>2, <1>4, <1>7 DEF Typed, TypeOK
<1>9. Typed'
  BY <1>5, <1>6, <1>8 DEF Typed, TypeOK
<1>10. QED
  BY <1>1, <1>2, <1>4, <1>5, <1>6, <1>7, <1>9

(* No value was stored, or planned by a call that commits later.           *)
Counted(r) ==
  /\ request[r].phase = "counting" /\ request[r].ask.op = "updateField"
  /\ UNCHANGED <<tables, overlapped>>
  /\ raced \subseteq raced'
  /\ Continues(r, "checked")
  /\ NoValueStored(request[r].ask.id)
  /\ request[r].ask.id \notin raced' => Planned(request[r].ask.id) = {}

LEMMA CountStep ==
  ASSUME Typed, NEW r \in Request, Count(r), NEW ask, ask = request[r].ask
  PROVE  Typed' /\ (Rejected(r) \/ Counted(r))
<1> USE DEF Counted
<1>1. /\ request[r].phase = "counting" /\ ask \in Ask /\ ask.op = "updateField"
      /\ request[r].before \in FieldRow
  BY DEF Count, Typed, CallsFit, CallFits, Outside, FieldChanges
<1>2. ask.id \in Field
  BY <1>1, AskTyped DEF FieldOps
<1>3. CASE Refused(r)
  BY <1>1, <1>3, RefusedStep
<1>4. CASE /\ NoValueStored(ask.id)
           /\ Goto(r, "checked")
           /\ raced' = raced \cup {f \in {ask.id} : Planned(f) # {}}
           /\ UNCHANGED <<tables, overlapped>>
  <2>1. ASSUME NEW new \in Call, new.phase = "checked", new.ask = ask,
               new.before = request[r].before
        PROVE  CallFits(new)
    BY <1>1, <2>1 DEF CallFits, Outside, OfItem, FieldOps, CategoryChanges, FieldChanges,
         OptionChanges
  <2>2. request' \in [Request -> Call] /\ CallsFit' /\ Continues(r, "checked")
    BY <1>4, <2>1, GotoTyped DEF Continues
  <2>3. raced' \subseteq Field
    BY <1>2, <1>4 DEF Typed, TypeOK
  <2>4. Typed'
    BY <1>4, <2>2, <2>3 DEF Typed, TypeOK, tables
  <2>5. QED
    BY <1>1, <1>4, <2>2, <2>4
<1>5. QED
  BY <1>3, <1>4 DEF Count

LEMMA CommitFieldStep ==
  ASSUME Typed, NEW r \in Request, CommitField(r), NEW ask, ask = request[r].ask
  PROVE  /\ Typed'
         /\ request[r].phase = "checked" /\ ask \in Ask /\ ask.op \in FieldChanges
         /\ ask.id \in Field /\ field[ask.id] \in FieldRow /\ request[r].before \in FieldRow
         /\ Ended(r)
         /\ UNCHANGED <<category, option, item, overlapped, raced>>
         /\ \/ UNCHANGED <<field, owed>>
            \/ /\ AtVersion(field[ask.id], request[r].expected)
               /\ field' = [field EXCEPT ![ask.id] =
                    FieldAfter(ask, field[ask.id], request[r].before)]
               /\ owed \subseteq owed'
               /\ Reindexed(request[r].before, FieldAfter(ask, field[ask.id], request[r].before))
                    => <<ask.id, field[ask.id].version + 1>> \in owed'
<1>1. /\ request[r].phase = "checked" /\ ask \in Ask /\ ask.op \in FieldChanges
      /\ request[r].before \in FieldRow
  BY DEF CommitField, Typed, CallsFit, CallFits, Outside, FieldChanges
<1>2. ask.id \in Field /\ field[ask.id] \in FieldRow
  BY <1>1, AskTyped DEF Typed, TypeOK, FieldChanges, FieldOps
<1>3. PICK row \in FieldRow, before \in FieldRow :
        row = field[ask.id] /\ before = request[r].before
  BY <1>1, <1>2
<1>4. PICK new : new = FieldAfter(ask, row, before)
  OBVIOUS
<1>5. new \in FieldRow /\ new.version = row.version + 1 /\ new.version \in Nat
  BY <1>1, <1>3, <1>4, FieldChanged DEF FieldRow
<1>6. CASE Refused(r)
  BY <1>1, <1>2, <1>6, RefusedStep DEF Rejected, tables
<1>7. CASE /\ AtVersion(row, request[r].expected)
           /\ field' = [field EXCEPT ![ask.id] = new]
           /\ owed' = owed \cup
                {m \in {<<ask.id, new.version>>} : Reindexed(request[r].before, new)}
           /\ Ends(r)
           /\ UNCHANGED <<category, option, item, overlapped, raced>>
  <2>1. request' \in [Request -> Call] /\ CallsFit' /\ Ended(r)
    BY <1>7, EndsTyped DEF Ended
  <2>2. /\ field' \in [Field -> FieldRow]
        /\ owed' \subseteq (Category \cup Field \cup Option) \X Nat
    BY <1>2, <1>5, <1>7 DEF Typed, TypeOK
  <2>3. Typed'
    BY <1>7, <2>1, <2>2 DEF Typed, TypeOK
  <2>4. Reindexed(request[r].before, new) => <<ask.id, row.version + 1>> \in owed'
    BY <1>5, <1>7
  <2>5. owed \subseteq owed'
    BY <1>7
  <2>6. QED
    BY <1>1, <1>2, <1>3, <1>4, <1>7, <2>1, <2>3, <2>4, <2>5
<1>8. QED
  BY <1>3, <1>4, <1>6, <1>7 DEF CommitField

LEMMA CreateFieldStep ==
  ASSUME Typed, NEW r \in Request, CreateField(r), NEW ask, ask = request[r].ask
  PROVE  /\ Typed'
         /\ request[r].phase = "checked" /\ ask \in Ask /\ ask.op = "createField"
         /\ ask.id \in Field
         /\ \/ UNCHANGED field
            \/ \E row \in FieldRow :
                 /\ field[ask.id].state = "absent"
                 /\ row.state = "active" /\ row.version = 1
                 /\ field' = [field EXCEPT ![ask.id] = row]
         /\ Ended(r)
         /\ UNCHANGED <<category, option, item, owed, overlapped, raced>>
<1>1. request[r].phase = "checked" /\ ask \in Ask /\ ask.op = "createField"
  BY DEF CreateField, Typed, CallsFit, CallFits, Outside
<1>2. /\ ask.id \in Field /\ field[ask.id] \in FieldRow
      /\ ask.to.category \in Category \cup {NoCategory} /\ ask.to.type \in Type
      /\ ask.to.visibility \in Exposure /\ ask.to.required \in BOOLEAN
  BY <1>1, AskTyped, AskAssumption DEF Typed, TypeOK, FieldOps
<1>3. PICK row : row = [state |-> "active", category |-> ask.to.category, type |-> ask.to.type,
                        visibility |-> ask.to.visibility, required |-> ask.to.required,
                        version |-> 1]
  OBVIOUS
<1>4. row \in FieldRow /\ row.state = "active" /\ row.version = 1
  BY <1>2, <1>3 DEF FieldRow, Lifecycle
<1>5. /\ field' = [field EXCEPT ![ask.id] = IF @.state # "absent" THEN @ ELSE row]
      /\ Ends(r)
      /\ UNCHANGED <<category, option, item, owed, overlapped, raced>>
  BY <1>3 DEF CreateField
<1>6. request' \in [Request -> Call] /\ CallsFit' /\ Ended(r)
  BY <1>5, EndsTyped DEF Ended
<1>7. \/ UNCHANGED field
      \/ field[ask.id].state = "absent" /\ field' = [field EXCEPT ![ask.id] = row]
  <2>1. CASE field[ask.id].state = "absent"
    BY <2>1, <1>5
  <2>2. CASE field[ask.id].state # "absent"
    <3>1. field' = [field EXCEPT ![ask.id] = field[ask.id]]
      BY <2>2, <1>5
    <3>2. QED
      BY <3>1 DEF Typed, TypeOK
  <2>3. QED
    BY <2>1, <2>2
<1>8. field' \in [Field -> FieldRow]
  BY <1>2, <1>4, <1>7 DEF Typed, TypeOK
<1>9. Typed'
  BY <1>5, <1>6, <1>8 DEF Typed, TypeOK
<1>10. QED
  BY <1>1, <1>2, <1>4, <1>5, <1>6, <1>7, <1>9
(* An option is written and its definition has a new version.              *)
OptionBumped(ask) ==
  \E definition \in FieldRow, row \in OptionRow :
    /\ field' = [field EXCEPT ![ask.field] = definition]
    /\ definition.version = field[ask.field].version + 1
    /\ definition.state = "active"
    /\ definition.type = field[ask.field].type
    /\ definition.visibility = field[ask.field].visibility
    /\ option' = [option EXCEPT ![ask.id] = row]
    /\ \/ /\ ask.op = "createOption"
          /\ option[ask.id].state = "absent"
          /\ row.state = "active" /\ row.field = ask.field /\ ~row.renamed
       \/ /\ ask.op \in OptionChanges
          /\ option[ask.id].state = "active"
          /\ row.state # "absent" /\ row.field = option[ask.id].field
          /\ row.renamed # option[ask.id].renamed
               => <<ask.id, definition.version>> \in owed'

LEMMA CommitOptionStep ==
  ASSUME Typed, NEW r \in Request, CommitOption(r), NEW ask, ask = request[r].ask
  PROVE  /\ Typed'
         /\ request[r].phase = "checked" /\ ask \in Ask /\ ask.op \in OptionOps
         /\ ask.id \in Option /\ ask.field \in Field
         /\ option[ask.id] \in OptionRow /\ field[ask.field] \in FieldRow
         /\ Ended(r)
         /\ UNCHANGED <<category, item, overlapped, raced>>
         /\ \/ UNCHANGED <<field, option, owed>>
            \/ /\ AtVersion(field[ask.field], request[r].expected)
               /\ OptionBumped(ask)
               /\ owed \subseteq owed'
<1>1. request[r].phase = "checked" /\ ask \in Ask /\ ask.op \in OptionOps
  BY DEF CommitOption, Typed, CallsFit, CallFits, Outside, OptionOps
<1>2. /\ ask.id \in Option /\ ask.field \in Field
      /\ option[ask.id] \in OptionRow /\ field[ask.field] \in FieldRow
  BY <1>1, AskTyped DEF Typed, TypeOK
<1>3. PICK old \in OptionRow : old = option[ask.id]
  BY <1>2
<1>4. PICK row : row = CASE ask.op = "createOption" -> [state |-> "active", field |-> ask.field,
                                                        renamed |-> FALSE]
                         [] ask.op = "updateOption" -> [old EXCEPT !.renamed = TRUE]
                         [] ask.op = "archiveOption" -> [old EXCEPT !.state = "archived"]
  OBVIOUS
<1>5. PICK definition : definition
        = [field[ask.field] EXCEPT !.version = field[ask.field].version + 1]
  OBVIOUS
<1>6. /\ definition \in FieldRow /\ definition.version = field[ask.field].version + 1
      /\ definition.state = field[ask.field].state
      /\ definition.type = field[ask.field].type
      /\ definition.visibility = field[ask.field].visibility
      /\ definition.version \in Nat
  BY <1>2, <1>5 DEF FieldRow
<1>7. CASE Refused(r)
  BY <1>1, <1>2, <1>7, RefusedStep DEF Rejected, tables
<1>8. CASE ~Refused(r)
  <2>1. /\ AtVersion(field[ask.field], request[r].expected)
        /\ old.state = (IF ask.op = "createOption" THEN "absent" ELSE "active")
        /\ field' = [field EXCEPT ![ask.field].version = field[ask.field].version + 1]
        /\ owed' = owed \cup {m \in {<<ask.id, field[ask.field].version + 1>>} :
                                ask.op = "updateOption" /\ ~old.renamed}
        /\ Ends(r)
        /\ UNCHANGED <<category, item, overlapped, raced>>
    BY <1>3, <1>8 DEF CommitOption, OptionGuard
  <2>2. option' = [option EXCEPT ![ask.id] = row]
    <3>1. option' = [option EXCEPT ![ask.id] =
             CASE ask.op = "createOption" -> [state |-> "active", field |-> ask.field,
                                              renamed |-> FALSE]
               [] ask.op = "updateOption" -> [@ EXCEPT !.renamed = TRUE]
               [] ask.op = "archiveOption" -> [@ EXCEPT !.state = "archived"]]
      BY <1>8 DEF CommitOption
    <3>2. QED
      BY <3>1, <1>3, <1>4
  <2>3. field' = [field EXCEPT ![ask.field] = definition]
    BY <2>1, <1>2, <1>5
  <2>4. /\ row \in OptionRow
        /\ \/ /\ ask.op = "createOption"
              /\ row.state = "active" /\ row.field = ask.field /\ ~row.renamed
           \/ /\ ask.op = "updateOption"
              /\ row.state = old.state /\ row.field = old.field /\ row.renamed
           \/ /\ ask.op = "archiveOption"
              /\ row.state = "archived" /\ row.field = old.field /\ row.renamed = old.renamed
    BY <1>1, <1>2, <1>4 DEF OptionOps, OptionRow, Lifecycle
  <2>5. ask.op = "updateOption" /\ ~old.renamed => <<ask.id, definition.version>> \in owed'
    BY <2>1, <1>6
  <2>6. \/ /\ ask.op = "createOption"
           /\ option[ask.id].state = "absent"
           /\ row.state = "active" /\ row.field = ask.field /\ ~row.renamed
        \/ /\ ask.op \in OptionChanges
           /\ option[ask.id].state = "active"
           /\ row.state # "absent" /\ row.field = option[ask.id].field
           /\ row.renamed # option[ask.id].renamed => <<ask.id, definition.version>> \in owed'
    <3>1. CASE ask.op = "createOption"
      BY <3>1, <2>1, <2>4, <1>3
    <3>2. CASE ask.op = "updateOption"
      BY <3>2, <2>1, <2>4, <2>5, <1>3 DEF OptionChanges, OptionRow
    <3>3. CASE ask.op = "archiveOption"
      BY <3>3, <2>1, <2>4, <1>3 DEF OptionChanges
    <3>4. QED
      BY <3>1, <3>2, <3>3, <1>1 DEF OptionOps
  <2>7. request' \in [Request -> Call] /\ CallsFit' /\ Ended(r)
    BY <2>1, EndsTyped DEF Ended
  <2>8. /\ field' \in [Field -> FieldRow] /\ option' \in [Option -> OptionRow]
        /\ owed' \subseteq (Category \cup Field \cup Option) \X Nat
    BY <1>2, <1>6, <2>1, <2>2, <2>3, <2>4 DEF Typed, TypeOK
  <2>9. Typed'
    BY <2>1, <2>7, <2>8 DEF Typed, TypeOK
  <2>10. definition.state = "active"
    BY <2>1, <1>6 DEF AtVersion
  <2>11. owed \subseteq owed'
    BY <2>1
  <2>12. OptionBumped(ask)
    BY <1>6, <2>2, <2>3, <2>4, <2>6, <2>10 DEF OptionBumped
  <2>13. QED
    BY <1>1, <1>2, <2>1, <2>7, <2>9, <2>11, <2>12
<1>9. QED
  BY <1>7, <1>8

(* The category that a call on an item reads.                              *)
LEMMA CategoryOfTyped ==
  ASSUME TypeOK, NEW ask \in Ask, ask.op \in ItemOps
  PROVE  CategoryOf(ask) \in Category \cup {NoCategory}
  BY AskTyped DEF TypeOK, CategoryOf, ItemRow

(* The item is at the version expected, and is now locked.                 *)
Owned(r) ==
  LET ask == request[r].ask
  IN  /\ UNCHANGED <<tables, overlapped, raced>>
      /\ request[r].phase = "listed"
      /\ \A q \in Request : ~Holds(q, ask.id)
      /\ item[ask.id].version = request[r].expected
      /\ IsActive(ask.category)
      /\ request'[r].phase = "owned" /\ request'[r].ask = ask
      /\ request'[r].expected = request[r].expected
      /\ request'[r].before = request[r].before
      /\ request'[r].listing = request[r].listing
      /\ request'[r].values = request[r].values
      /\ request'[r].name.template = category[CategoryOf(ask)].template
      /\ request'[r].name.version = category[CategoryOf(ask)].version
      /\ \A q \in Request \ {r} : request'[q] = request[q]

LEMMA OwnStep ==
  ASSUME Typed, NEW r \in Request, Own(r), NEW ask, ask = request[r].ask,
         CategoryOf(ask) \in Category
  PROVE  Typed' /\ (Rejected(r) \/ Owned(r))
<1> USE DEF Owned
<1>1. /\ request[r].phase = "listed" /\ ask \in Ask /\ ask.op \in ItemOps
      /\ request[r].before \in ItemRow /\ request[r].listing \in Listing
      /\ \A q \in Request : ~Holds(q, ask.id)
  BY DEF Own, Typed, CallsFit, CallFits, Outside, OfItem
<1>2. CASE Refused(r)
  BY <1>1, <1>2, RefusedStep
<1>3. CASE ~Refused(r)
  <2>1. PICK name : name = [template |-> category[CategoryOf(ask)].template,
                            version |-> category[CategoryOf(ask)].version]
    OBVIOUS
  <2>2. /\ name \in [template : Nat, version : Nat]
        /\ name.template = category[CategoryOf(ask)].template
        /\ name.version = category[CategoryOf(ask)].version
    BY <2>1 DEF Typed, TypeOK, CategoryRow
  <2>3. /\ IsActive(ask.category) /\ item[ask.id].version = request[r].expected
        /\ request' = [request EXCEPT ![r].phase = "owned", ![r].name = name]
        /\ UNCHANGED <<tables, overlapped, raced>>
    BY <1>3, <2>1 DEF Own, Swappable
  <2>4. PICK new : new = [request[r] EXCEPT !.phase = "owned", !.name = name]
    OBVIOUS
  <2>5. /\ new \in Call /\ new.phase = "owned" /\ new.ask = ask /\ new.name = name
        /\ new.expected = request[r].expected /\ new.before = request[r].before
        /\ new.listing = request[r].listing /\ new.values = request[r].values
    BY <2>2, <2>4 DEF Typed, TypeOK, Call
  <2>6. CallFits(new)
    BY <1>1, <2>5 DEF CallFits, Outside, OfItem
  <2>7. request' = [request EXCEPT ![r] = new]
    BY <2>3, <2>4 DEF Typed, TypeOK
  <2>8. /\ request' \in [Request -> Call] /\ CallsFit' /\ request'[r] = new
        /\ \A q \in Request \ {r} : request'[q] = request[q]
    BY <2>5, <2>6, <2>7, OneCall
  <2>9. Typed'
    BY <2>3, <2>8 DEF Typed, TypeOK, tables
  <2>10. QED
    BY <1>1, <2>2, <2>3, <2>5, <2>8, <2>9
<1>4. QED
  BY <1>2, <1>3

(* The values can be stored, and no conversion of their fields is counted. *)
PlannedValues(r) ==
  /\ UNCHANGED <<tables, overlapped>>
  /\ request[r].phase = "owned"
  /\ raced \subseteq raced'
  /\ Continues(r, "planned")
  /\ Storable(request[r].ask, request[r].values)
  /\ \A q \in Request, f \in Field :
       /\ request[q].phase = "checked" /\ request[q].ask.id = f
       /\ Converts(request[q].ask, request[q].before)
       /\ request[r].values[f] # NoValue
       => f \in raced'

LEMMA PlanStep ==
  ASSUME Typed, NEW r \in Request, Plan(r), NEW ask, ask = request[r].ask
  PROVE  Typed' /\ (Rejected(r) \/ PlannedValues(r))
<1> USE DEF PlannedValues
<1>1. /\ request[r].phase = "owned" /\ ask \in Ask /\ ask.op \in ItemOps
      /\ request[r].before \in ItemRow /\ request[r].listing \in Listing
  BY DEF Plan, Typed, CallsFit, CallFits, Outside, OfItem
<1>2. CASE Refused(r)
  BY <1>1, <1>2, RefusedStep
<1>3. CASE ~Refused(r)
  <2>1. /\ Storable(ask, request[r].values)
        /\ Goto(r, "planned")
        /\ raced' = raced \cup
             {f \in Field : request[r].values[f] # NoValue /\
                \E q \in Request : request[q].phase = "checked" /\ request[q].ask.id = f
                                     /\ Converts(request[q].ask, request[q].before)}
        /\ UNCHANGED <<tables, overlapped>>
    BY <1>3 DEF Plan
  <2>2. ASSUME NEW new \in Call, new.phase = "planned", new.ask = ask,
               new.before = request[r].before, new.listing = request[r].listing
        PROVE  CallFits(new)
    BY <1>1, <2>2 DEF CallFits, Outside, OfItem
  <2>3. request' \in [Request -> Call] /\ CallsFit' /\ Continues(r, "planned")
    BY <2>1, <2>2, GotoTyped DEF Continues
  <2>4. Typed'
    BY <2>1, <2>3 DEF Typed, TypeOK, tables
  <2>5. QED
    BY <1>1, <2>1, <2>3, <2>4
<1>4. QED
  BY <1>2, <1>3
(* What an item will expose is typed by the listing it is made from.       *)
LEMMA ProjectedTyped ==
  ASSUME NEW listing \in Listing, NEW values \in [Field -> Value \cup {NoValue}]
  PROVE  Projected(listing, values) \in [Field -> Shown]
<1>1. ASSUME NEW f \in Field
      PROVE  [exposure |-> IF values[f] = NoValue THEN "private" ELSE listing.field[f].visibility,
              renamed |-> values[f] \in Option /\ listing.option[values[f]].renamed,
              version |-> listing.field[f].version] \in Shown
  <2>1. listing.field[f].visibility \in Exposure /\ listing.field[f].version \in Nat
    BY DEF Listing, FieldRow
  <2>2. (values[f] \in Option /\ listing.option[values[f]].renamed) \in BOOLEAN
    OBVIOUS
  <2>3. "private" \in Exposure
    BY DEF Exposure
  <2>4. QED
    BY <2>1, <2>2, <2>3 DEF Shown
<1>2. QED
  BY <1>1 DEF Projected

LEMMA CommitItemStep ==
  ASSUME Typed, NEW r \in Request, CommitItem(r), NEW ask, ask = request[r].ask,
         CategoryOf(ask) \in Category
  PROVE  /\ Typed'
         /\ request[r].phase = "planned" /\ ask \in Ask /\ ask.op \in ItemOps
         /\ ask.id \in Item
         /\ request[r].listing \in Listing
         /\ request[r].values \in [Field -> Value \cup {NoValue}]
         /\ Ended(r)
         /\ UNCHANGED <<category, field, option, owed, overlapped, raced>>
         /\ \E row \in ItemRow :
              /\ item' = [item EXCEPT ![ask.id] = row]
              /\ row.present /\ row.category = CategoryOf(ask)
              /\ row.version = item[ask.id].version + 1
              /\ row.values = request[r].values
              /\ row.shown = Projected(request[r].listing, request[r].values)
              /\ row.name = request[r].name
<1>1. /\ request[r].phase = "planned" /\ ask \in Ask /\ ask.op \in ItemOps
      /\ request[r].listing \in Listing
  BY DEF CommitItem, Typed, CallsFit, CallFits, Outside, OfItem
<1>2. /\ ask.id \in Item /\ item[ask.id].version + 1 \in Nat
      /\ request[r].values \in [Field -> Value \cup {NoValue}]
      /\ request[r].name \in [template : Nat, version : Nat]
  BY <1>1, AskTyped DEF Typed, TypeOK, ItemRow, Call
<1>3. PICK shown \in [Field -> Shown] :
        shown = Projected(request[r].listing, request[r].values)
  BY <1>1, <1>2, ProjectedTyped
<1>4. PICK row : row = [present |-> TRUE, category |-> CategoryOf(ask),
                        version |-> item[ask.id].version + 1, values |-> request[r].values,
                        shown |-> shown, name |-> request[r].name]
  OBVIOUS
<1>5. /\ row \in ItemRow
      /\ row.present /\ row.category = CategoryOf(ask)
      /\ row.version = item[ask.id].version + 1
      /\ row.values = request[r].values /\ row.shown = shown /\ row.name = request[r].name
  BY <1>2, <1>4 DEF ItemRow
<1>6. /\ item' = [item EXCEPT ![ask.id] = row]
      /\ Ends(r)
      /\ UNCHANGED <<category, field, option, owed, overlapped, raced>>
  BY <1>3, <1>4 DEF CommitItem
<1>7. request' \in [Request -> Call] /\ CallsFit' /\ Ended(r)
  BY <1>6, EndsTyped DEF Ended
<1>8. item' \in [Item -> ItemRow]
  BY <1>5, <1>6 DEF Typed, TypeOK
<1>9. Typed'
  BY <1>6, <1>7, <1>8 DEF Typed, TypeOK
<1>10. QED
  BY <1>1, <1>2, <1>3, <1>5, <1>6, <1>7, <1>9
-----------------------------------------------------------------------------
(* Rows are created once, keep what they belong to, and change only with a *)
(* version that is new: their own, or for an option that of its field.     *)
Unborn ==
  /\ \A c \in Category : category[c].state = "absent" => category[c].version = 0
  /\ \A f \in Field : field[f].state = "absent" => field[f].version = 0

Placed ==
  /\ \A i \in Item : item[i].present => item[i].category \in Category
  /\ \A r \in Request :
       /\ request[r].phase \in OfItem /\ request[r].ask.op = "updateItem"
            => item[request[r].ask.id].present
       /\ request[r].phase = "written" => category[request[r].ask.id].state # "absent"
       /\ request[r].phase = "checked" /\ request[r].ask.op \in OptionChanges
            => /\ option[request[r].ask.id].state # "absent"
               /\ option[request[r].ask.id].field = request[r].ask.field

Base == Typed /\ Unborn /\ Placed

CategoryGrows ==
  \A c \in Category :
    \/ category'[c] = category[c]
    \/ category'[c].version > category[c].version /\ category'[c].state # "absent"

FieldGrows ==
  \A f \in Field :
    \/ field'[f] = field[f]
    \/ field'[f].version > field[f].version /\ field'[f].state # "absent"

OptionGrows ==
  \A o \in Option :
    \/ option'[o] = option[o]
    \/ /\ option'[o].state # "absent" /\ option'[o].field \in Field
       /\ field'[option'[o].field].version > field[option'[o].field].version
       /\ option[o].state # "absent" => option'[o].field = option[o].field

ItemGrows ==
  \A i \in Item :
    \/ item'[i] = item[i]
    \/ item'[i].version > item[i].version /\ item'[i].present /\ item'[i].category \in Category

Grows == CategoryGrows /\ FieldGrows /\ OptionGrows /\ ItemGrows /\ owed \subseteq owed'

LEMMA TablesStand ==
  ASSUME UNCHANGED <<category, field, option, item, owed>>
  PROVE  Grows
  BY DEF Grows, CategoryGrows, FieldGrows, OptionGrows, ItemGrows

LEMMA CategoryPlaced ==
  ASSUME Base, NEW r \in Request, NEW ask \in Ask, ask.op \in ItemOps,
         item[ask.id].present \/ ask.op = "createItem"
  PROVE  CategoryOf(ask) \in Category
<1>1. ask.id \in Item /\ ask.category \in Category \cup {NoCategory}
  BY AskTyped
<1>2. CASE ask.op = "createItem"
  BY <1>2, AskTyped, NullAssumption DEF CategoryOf
<1>3. CASE item[ask.id].present
  BY <1>1, <1>3 DEF Base, Placed, CategoryOf
<1>4. QED
  BY <1>2, <1>3

LEMMA CallPlaced ==
  ASSUME Base, NEW r \in Request, request[r].phase \in OfItem
  PROVE  /\ request[r].ask \in Ask /\ request[r].ask.op \in ItemOps
         /\ request[r].ask.id \in Item
         /\ CategoryOf(request[r].ask) \in Category
<1>1. request[r].ask \in Ask /\ request[r].ask.op \in ItemOps
  BY DEF Base, Typed, CallsFit, CallFits, OfItem, Outside
<1>2. item[request[r].ask.id].present \/ request[r].ask.op = "createItem"
  BY <1>1 DEF Base, Placed, ItemOps
<1>3. QED
  BY <1>1, <1>2, AskTyped, CategoryPlaced

(* Every step is of types, and grows the tables.                           *)
LEMMA StepGrows ==
  ASSUME Base, [Next]_vars
  PROVE  Typed' /\ Grows
<1>1. Typed
  BY DEF Base
<1>2. ASSUME NEW r \in Request, NEW ask \in Ask, StartCategory(r, ask)
      PROVE  Typed' /\ Grows
  BY <1>1, <1>2, StartCategoryStep, TablesStand DEF CategoryBegun, Begun, tables
<1>3. ASSUME NEW r \in Request, NEW ask \in Ask, StartField(r, ask)
      PROVE  Typed' /\ Grows
  BY <1>1, <1>3, StartFieldStep, TablesStand DEF FieldBegun, Begun, tables
<1>4. ASSUME NEW r \in Request, NEW ask \in Ask, StartOption(r, ask)
      PROVE  Typed' /\ Grows
  BY <1>1, <1>4, StartOptionStep, TablesStand DEF OptionBegun, Begun, tables
<1>5. ASSUME NEW r \in Request, NEW ask \in Ask, StartItem(r, ask)
      PROVE  Typed' /\ Grows
  BY <1>1, <1>5, StartItemStep, TablesStand DEF ItemBegun, Begun, tables
<1>6. ASSUME NEW r \in Request, Walk(r) PROVE Typed' /\ Grows
  BY <1>1, <1>6, WalkStep, TablesStand DEF Rejected, Walked, tables
<1>7. ASSUME NEW r \in Request, WriteCategory(r) PROVE Typed' /\ Grows
  BY <1>1, <1>7, WriteCategoryStep, TablesStand DEF Rejected, WroteCategory, tables
<1>8. ASSUME NEW r \in Request, CommitCategory(r) PROVE Typed' /\ Grows
  <2>1. PICK ask : ask = request[r].ask
    OBVIOUS
  <2>2. /\ Typed' /\ ask \in Ask /\ ask.op \in CategoryChanges
        /\ ask.id \in Category /\ category[ask.id] \in CategoryRow
        /\ category' = [category EXCEPT ![ask.id] = CategoryAfter(ask, category[ask.id])]
        /\ owed \subseteq owed'
        /\ UNCHANGED <<field, option, item>>
        /\ Written(r)
    BY <1>1, <1>8, <2>1, CommitCategoryStep
  <2>3. category[ask.id].state # "absent"
    BY <2>1, <2>2 DEF Base, Placed, Written
  <2>4. PICK new : new = CategoryAfter(ask, category[ask.id])
    OBVIOUS
  <2>5. new.version = category[ask.id].version + 1 /\ new.state # "absent"
    BY <2>2, <2>3, <2>4, CategoryChanged
  <2>6. /\ category'[ask.id] = new
        /\ \A c \in Category \ {ask.id} : category'[c] = category[c]
    BY <1>1, <2>2, <2>4 DEF Typed, TypeOK
  <2>7. CategoryGrows
    BY <2>2, <2>5, <2>6 DEF CategoryGrows, CategoryRow
  <2>8. QED
    BY <2>2, <2>7 DEF Grows, FieldGrows, OptionGrows, ItemGrows
<1>9. ASSUME NEW r \in Request, CreateCategory(r) PROVE Typed' /\ Grows
  <2>1. PICK ask : ask = request[r].ask
    OBVIOUS
  <2>2. /\ Typed' /\ ask.id \in Category /\ UNCHANGED <<field, option, item, owed>>
        /\ \/ UNCHANGED category
           \/ \E row \in CategoryRow :
                /\ category[ask.id].state = "absent" /\ row.state = "active" /\ row.version = 1
                /\ category' = [category EXCEPT ![ask.id] = row]
    BY <1>1, <1>9, <2>1, CreateCategoryStep
  <2>3. category[ask.id].state = "absent" => category[ask.id].version = 0
    BY <2>2 DEF Base, Unborn
  <2>4. CategoryGrows
    BY <1>1, <2>2, <2>3 DEF CategoryGrows, Typed, TypeOK
  <2>5. QED
    BY <2>2, <2>4 DEF Grows, FieldGrows, OptionGrows, ItemGrows
<1>10. ASSUME NEW r \in Request, Count(r) PROVE Typed' /\ Grows
  BY <1>1, <1>10, CountStep, TablesStand DEF Rejected, Counted, tables
<1>11. ASSUME NEW r \in Request, CommitField(r) PROVE Typed' /\ Grows
  <2>1. PICK ask : ask = request[r].ask
    OBVIOUS
  <2>2. /\ Typed' /\ ask \in Ask /\ ask.op \in FieldChanges
        /\ ask.id \in Field /\ field[ask.id] \in FieldRow /\ request[r].before \in FieldRow
        /\ UNCHANGED <<category, option, item>>
        /\ \/ UNCHANGED <<field, owed>>
           \/ /\ AtVersion(field[ask.id], request[r].expected)
              /\ field' = [field EXCEPT ![ask.id] =
                    FieldAfter(ask, field[ask.id], request[r].before)]
              /\ owed \subseteq owed'
    BY <1>1, <1>11, <2>1, CommitFieldStep
  <2>3. CASE UNCHANGED <<field, owed>>
    BY <2>2, <2>3, TablesStand
  <2>4. CASE ~UNCHANGED <<field, owed>>
    <3>1. PICK new : new = FieldAfter(ask, field[ask.id], request[r].before)
      OBVIOUS
    <3>2. new.version = field[ask.id].version + 1 /\ new.state # "absent"
      BY <2>2, <2>4, <3>1, FieldChanged DEF AtVersion
    <3>3. /\ field'[ask.id] = new
          /\ \A f \in Field \ {ask.id} : field'[f] = field[f]
      BY <1>1, <2>2, <2>4, <3>1 DEF Typed, TypeOK
    <3>4. FieldGrows
      BY <2>2, <3>2, <3>3 DEF FieldGrows, FieldRow
    <3>5. QED
      BY <2>2, <2>4, <3>4 DEF Grows, CategoryGrows, OptionGrows, ItemGrows
  <2>5. QED
    BY <2>3, <2>4
<1>12. ASSUME NEW r \in Request, CreateField(r) PROVE Typed' /\ Grows
  <2>1. PICK ask : ask = request[r].ask
    OBVIOUS
  <2>2. /\ Typed' /\ ask.id \in Field /\ UNCHANGED <<category, option, item, owed>>
        /\ \/ UNCHANGED field
           \/ \E row \in FieldRow :
                /\ field[ask.id].state = "absent" /\ row.state = "active" /\ row.version = 1
                /\ field' = [field EXCEPT ![ask.id] = row]
    BY <1>1, <1>12, <2>1, CreateFieldStep
  <2>3. field[ask.id].state = "absent" => field[ask.id].version = 0
    BY <2>2 DEF Base, Unborn
  <2>4. FieldGrows
    BY <1>1, <2>2, <2>3 DEF FieldGrows, Typed, TypeOK
  <2>5. QED
    BY <2>2, <2>4 DEF Grows, CategoryGrows, OptionGrows, ItemGrows
<1>13. ASSUME NEW r \in Request, CommitOption(r) PROVE Typed' /\ Grows
  <2>1. PICK ask : ask = request[r].ask
    OBVIOUS
  <2>2. /\ Typed' /\ request[r].phase = "checked" /\ ask.op \in OptionOps
        /\ ask.id \in Option /\ ask.field \in Field
        /\ option[ask.id] \in OptionRow /\ field[ask.field] \in FieldRow
        /\ UNCHANGED <<category, item>>
        /\ \/ UNCHANGED <<field, option, owed>>
           \/ OptionBumped(ask) /\ owed \subseteq owed'
    BY <1>1, <1>13, <2>1, CommitOptionStep
  <2>3. CASE UNCHANGED <<field, option, owed>>
    BY <2>2, <2>3, TablesStand
  <2>4. CASE ~UNCHANGED <<field, option, owed>>
    <3>1. PICK definition \in FieldRow, row \in OptionRow :
            /\ field' = [field EXCEPT ![ask.field] = definition]
            /\ definition.version = field[ask.field].version + 1
            /\ definition.state = "active"
            /\ option' = [option EXCEPT ![ask.id] = row]
            /\ \/ /\ option[ask.id].state = "absent"
                  /\ row.state = "active" /\ row.field = ask.field
               \/ /\ ask.op \in OptionChanges
                  /\ row.state # "absent" /\ row.field = option[ask.id].field
      BY <2>2, <2>4 DEF OptionBumped
    <3>2. ask.op \in OptionChanges => option[ask.id].field = ask.field
      BY <2>1, <2>2 DEF Base, Placed
    <3>3. /\ field'[ask.field] = definition
          /\ \A f \in Field \ {ask.field} : field'[f] = field[f]
          /\ option'[ask.id] = row
          /\ \A o \in Option \ {ask.id} : option'[o] = option[o]
      BY <1>1, <2>2, <3>1 DEF Typed, TypeOK
    <3>4. field'[ask.field].version > field[ask.field].version
      BY <2>2, <3>1, <3>3 DEF FieldRow
    <3>5. FieldGrows
      BY <3>1, <3>3, <3>4 DEF FieldGrows
    <3>6. row.field = ask.field /\ row.state # "absent"
      BY <3>1, <3>2
    <3>7. option[ask.id].state # "absent" => row.field = option[ask.id].field
      BY <3>1
    <3>8. OptionGrows
      BY <2>2, <3>3, <3>4, <3>6, <3>7 DEF OptionGrows
    <3>9. QED
      BY <2>2, <2>4, <3>5, <3>8 DEF Grows, CategoryGrows, ItemGrows
  <2>5. QED
    BY <2>3, <2>4
<1>14. ASSUME NEW r \in Request, Own(r) PROVE Typed' /\ Grows
  <2>1. request[r].phase \in OfItem
    BY <1>14 DEF Own, OfItem
  <2>2. Typed' /\ UNCHANGED tables
    BY <1>1, <1>14, <2>1, CallPlaced, OwnStep DEF Rejected, Owned
  <2>3. QED
    BY <2>2, TablesStand DEF tables
<1>15. ASSUME NEW r \in Request, Plan(r) PROVE Typed' /\ Grows
  BY <1>1, <1>15, PlanStep, TablesStand DEF Rejected, PlannedValues, tables
<1>16. ASSUME NEW r \in Request, CommitItem(r) PROVE Typed' /\ Grows
  <2>1. request[r].phase \in OfItem
    BY <1>16 DEF CommitItem, OfItem
  <2>2. PICK ask : ask = request[r].ask
    OBVIOUS
  <2>3. ask.id \in Item /\ CategoryOf(ask) \in Category
    BY <2>1, <2>2, CallPlaced
  <2>4. /\ Typed' /\ UNCHANGED <<category, field, option, owed>>
        /\ \E row \in ItemRow :
             /\ item' = [item EXCEPT ![ask.id] = row]
             /\ row.present /\ row.category = CategoryOf(ask)
             /\ row.version = item[ask.id].version + 1
    BY <1>1, <1>16, <2>2, <2>3, CommitItemStep
  <2>5. item[ask.id].version \in Nat
    BY <1>1, <2>3 DEF Typed, TypeOK, ItemRow
  <2>6. ItemGrows
    BY <1>1, <2>3, <2>4, <2>5 DEF ItemGrows, Typed, TypeOK
  <2>7. QED
    BY <2>4, <2>6 DEF Grows, CategoryGrows, FieldGrows, OptionGrows
<1>17. CASE UNCHANGED vars
  <2>1. UNCHANGED <<category, field, option, item, owed>>
    BY <1>17 DEF vars, tables
  <2>2. Typed'
    BY <1>1, <1>17 DEF Typed, TypeOK, CallsFit, vars, tables
  <2>3. QED
    BY <2>1, <2>2, TablesStand
<1>18. QED
  BY <1>2, <1>3, <1>4, <1>5, <1>6, <1>7, <1>8, <1>9, <1>10, <1>11, <1>12, <1>13, <1>14, <1>15,
     <1>16, <1>17 DEF Next
(* What a step may do to a call, whoever takes it.                         *)
Moves(q) ==
  \/ \E ask \in Ask :
       CategoryBegun(q, ask) \/ FieldBegun(q, ask) \/ OptionBegun(q, ask) \/ ItemBegun(q, ask)
  \/ Walked(q) \/ WroteCategory(q) \/ Counted(q) \/ Owned(q) \/ PlannedValues(q)

LEMMA CallMoves ==
  ASSUME Base, [Next]_vars, NEW q \in Request
  PROVE  request'[q] = request[q] \/ request'[q].phase \in Outside \/ Moves(q)
<1>1. Typed
  BY DEF Base
<1>2. ASSUME NEW r \in Request, NEW ask \in Ask, StartCategory(r, ask)
      PROVE  request'[q] = request[q] \/ Moves(q)
  BY <1>1, <1>2, StartCategoryStep DEF CategoryBegun, Begun, Moves
<1>3. ASSUME NEW r \in Request, NEW ask \in Ask, StartField(r, ask)
      PROVE  request'[q] = request[q] \/ Moves(q)
  BY <1>1, <1>3, StartFieldStep DEF FieldBegun, Begun, Moves
<1>4. ASSUME NEW r \in Request, NEW ask \in Ask, StartOption(r, ask)
      PROVE  request'[q] = request[q] \/ Moves(q)
  BY <1>1, <1>4, StartOptionStep DEF OptionBegun, Begun, Moves
<1>5. ASSUME NEW r \in Request, NEW ask \in Ask, StartItem(r, ask)
      PROVE  request'[q] = request[q] \/ Moves(q)
  BY <1>1, <1>5, StartItemStep DEF ItemBegun, Begun, Moves
<1>6. ASSUME NEW r \in Request, Ended(r)
      PROVE  request'[q] = request[q] \/ request'[q].phase \in Outside
  BY <1>6 DEF Ended, Outside
<1>7. ASSUME NEW r \in Request, Walk(r)
      PROVE  request'[q] = request[q] \/ request'[q].phase \in Outside \/ Moves(q)
  <2>1. CASE Rejected(r)
    BY <1>6, <2>1 DEF Rejected
  <2>2. CASE Walked(r)
    BY <2>2 DEF Walked, Continues, Moves
  <2>3. QED
    BY <1>1, <1>7, <2>1, <2>2, WalkStep
<1>8. ASSUME NEW r \in Request, WriteCategory(r)
      PROVE  request'[q] = request[q] \/ request'[q].phase \in Outside \/ Moves(q)
  <2>1. CASE Rejected(r)
    BY <1>6, <2>1 DEF Rejected
  <2>2. CASE WroteCategory(r)
    BY <2>2 DEF WroteCategory, Continues, Moves
  <2>3. QED
    BY <1>1, <1>8, <2>1, <2>2, WriteCategoryStep
<1>9. ASSUME NEW r \in Request,
             CommitCategory(r) \/ CreateCategory(r) \/ CommitField(r) \/ CreateField(r)
               \/ CommitOption(r)
      PROVE  request'[q] = request[q] \/ request'[q].phase \in Outside
  BY <1>1, <1>6, <1>9, CommitCategoryStep, CreateCategoryStep, CommitFieldStep, CreateFieldStep,
     CommitOptionStep
<1>10. ASSUME NEW r \in Request, Count(r)
       PROVE  request'[q] = request[q] \/ request'[q].phase \in Outside \/ Moves(q)
  <2>1. CASE Rejected(r)
    BY <1>6, <2>1 DEF Rejected
  <2>2. CASE Counted(r)
    BY <2>2 DEF Counted, Continues, Moves
  <2>3. QED
    BY <1>1, <1>10, <2>1, <2>2, CountStep
<1>11. ASSUME NEW r \in Request, Own(r)
       PROVE  request'[q] = request[q] \/ request'[q].phase \in Outside \/ Moves(q)
  <2>1. CASE Rejected(r)
    BY <1>6, <2>1 DEF Rejected
  <2>2. CASE Owned(r)
    BY <2>2 DEF Owned, Moves
  <2>3. request[r].phase \in OfItem
    BY <1>11 DEF Own, OfItem
  <2>4. QED
    BY <1>1, <1>11, <2>1, <2>2, <2>3, CallPlaced, OwnStep
<1>12. ASSUME NEW r \in Request, Plan(r)
       PROVE  request'[q] = request[q] \/ request'[q].phase \in Outside \/ Moves(q)
  <2>1. CASE Rejected(r)
    BY <1>6, <2>1 DEF Rejected
  <2>2. CASE PlannedValues(r)
    BY <2>2 DEF PlannedValues, Continues, Moves
  <2>3. QED
    BY <1>1, <1>12, <2>1, <2>2, PlanStep
<1>13. ASSUME NEW r \in Request, CommitItem(r)
       PROVE  request'[q] = request[q] \/ request'[q].phase \in Outside
  <2>1. request[r].phase \in OfItem
    BY <1>13 DEF CommitItem, OfItem
  <2>2. Ended(r)
    BY <1>1, <1>13, <2>1, CallPlaced, CommitItemStep
  <2>3. QED
    BY <1>6, <2>2
<1>14. CASE UNCHANGED vars
  BY <1>14 DEF vars
<1>15. QED
  BY <1>2, <1>3, <1>4, <1>5, <1>7, <1>8, <1>9, <1>10, <1>11, <1>12, <1>13, <1>14 DEF Next
(* What a call that is under way asks for.                                 *)
LEMMA CallAsks ==
  ASSUME Typed, NEW q \in Request, request[q].phase \notin Outside
  PROVE  /\ request[q].ask \in Ask
         /\ request[q].phase \in OfItem =>
              /\ request[q].ask.op \in ItemOps /\ request[q].ask.id \in Item
              /\ request[q].before \in ItemRow /\ request[q].listing \in Listing
         /\ request[q].phase \in {"walking", "written"} =>
              request[q].ask.op \in CategoryChanges /\ request[q].ask.id \in Category
         /\ request[q].phase = "counting" =>
              request[q].ask.op = "updateField" /\ request[q].ask.id \in Field
         /\ request[q].phase = "checked" =>
              /\ request[q].ask.op \in CategoryOps \cup FieldOps \cup OptionOps
              /\ request[q].ask.op \in CategoryOps => request[q].ask.id \in Category
              /\ request[q].ask.op \in FieldOps => request[q].ask.id \in Field
              /\ request[q].ask.op \in OptionOps =>
                   request[q].ask.id \in Option /\ request[q].ask.field \in Field
<1>1. CallFits(request[q])
  BY DEF Typed, CallsFit
<1>2. request[q].ask \in Ask
  BY <1>1 DEF CallFits
<1>3. /\ request[q].phase \in OfItem =>
           /\ request[q].ask.op \in ItemOps
           /\ request[q].before \in ItemRow /\ request[q].listing \in Listing
      /\ request[q].phase \in {"walking", "written"} => request[q].ask.op \in CategoryChanges
      /\ request[q].phase = "counting" => request[q].ask.op = "updateField"
      /\ request[q].phase = "checked" =>
           request[q].ask.op \in CategoryOps \cup FieldOps \cup OptionOps
  BY <1>1 DEF CallFits, CategoryChanges
<1>4. QED
  BY <1>2, <1>3, AskTyped DEF CategoryChanges, CategoryOps, FieldOps

(* What the moves of a call leave of it, and where it stood.               *)
LEMMA MoveShapes ==
  ASSUME NEW q \in Request, Moves(q)
  PROVE  /\ UNCHANGED <<category, field, option, item, owed>>
         /\ \/ /\ request[q].phase = "new"
               /\ request'[q].phase \in {"checked", "walking", "counting", "listed"}
            \/ request[q].phase = "walking" /\ request'[q].phase \in {"walking", "checked"}
            \/ request[q].phase = "checked" /\ request'[q].phase = "written"
            \/ request[q].phase = "counting" /\ request'[q].phase = "checked"
            \/ request[q].phase = "listed" /\ request'[q].phase = "owned"
            \/ request[q].phase = "owned" /\ request'[q].phase = "planned"
         /\ request[q].phase # "new" =>
              request'[q].ask = request[q].ask /\ request'[q].expected = request[q].expected
  BY DEF Moves, CategoryBegun, FieldBegun, OptionBegun, ItemBegun, Begun, Walked, WroteCategory,
     Counted, Owned, PlannedValues, Continues, tables

LEMMA BaseStep ==
  ASSUME Base, [Next]_vars
  PROVE  Base'
<1>1. Typed /\ Typed' /\ Grows
  BY StepGrows DEF Base
<1>2. Unborn'
  BY <1>1 DEF Base, Unborn, Grows, CategoryGrows, FieldGrows
<1>3. ASSUME NEW i \in Item, item'[i].present PROVE item'[i].category \in Category
  BY <1>1, <1>3 DEF Base, Placed, Grows, ItemGrows
<1>4. ASSUME NEW q \in Request
      PROVE  /\ request'[q].phase \in OfItem /\ request'[q].ask.op = "updateItem"
                  => item'[request'[q].ask.id].present
             /\ request'[q].phase = "written" => category'[request'[q].ask.id].state # "absent"
             /\ request'[q].phase = "checked" /\ request'[q].ask.op \in OptionChanges
                  => /\ option'[request'[q].ask.id].state # "absent"
                     /\ option'[request'[q].ask.id].field = request'[q].ask.field
  <2>1. CASE request'[q].phase \in Outside
    BY <2>1 DEF Outside, OfItem
  <2>2. CASE request'[q] = request[q] /\ request[q].phase \notin Outside
    <3>1. ASSUME request[q].phase \in OfItem, request[q].ask.op = "updateItem"
          PROVE  item'[request[q].ask.id].present
      BY <2>2, <3>1, <1>1, CallAsks DEF Base, Placed, Grows, ItemGrows
    <3>2. ASSUME request[q].phase = "written"
          PROVE  category'[request[q].ask.id].state # "absent"
      BY <2>2, <3>2, <1>1, CallAsks DEF Base, Placed, Grows, CategoryGrows
    <3>3. ASSUME request[q].phase = "checked", request[q].ask.op \in OptionChanges
          PROVE  /\ option'[request[q].ask.id].state # "absent"
                 /\ option'[request[q].ask.id].field = request[q].ask.field
      <4>1. request[q].ask.id \in Option
        BY <2>2, <3>3, <1>1, CallAsks DEF OptionChanges, OptionOps
      <4>2. QED
        BY <2>2, <3>3, <4>1, <1>1 DEF Base, Placed, Grows, OptionGrows
    <3>4. QED
      BY <2>2, <3>1, <3>2, <3>3
  <2>3. CASE Moves(q)
    <3>1. UNCHANGED <<category, field, option, item, owed>>
      BY <2>3, MoveShapes
    <3>2. ASSUME request'[q].phase \in OfItem, request'[q].ask.op = "updateItem"
          PROVE  item[request'[q].ask.id].present
      <4>1. CASE request[q].phase = "new"
        BY <4>1, <2>3, <3>2 DEF Moves, CategoryBegun, FieldBegun, OptionBegun, ItemBegun, Begun,
           Walked, WroteCategory, Counted, Owned, PlannedValues, OfItem
      <4>2. CASE request[q].phase # "new"
        <5>1. request[q].phase \in OfItem /\ request'[q].ask = request[q].ask
          BY <2>3, <3>2, <4>2, MoveShapes DEF OfItem
        <5>2. QED
          BY <5>1, <3>2 DEF Base, Placed
      <4>3. QED
        BY <4>1, <4>2
    <3>3. ASSUME request'[q].phase = "written"
          PROVE  category[request'[q].ask.id].state # "absent"
      <4>1. WroteCategory(q)
        BY <2>3, <3>3 DEF Moves, CategoryBegun, FieldBegun, OptionBegun, ItemBegun, Begun,
           Walked, Counted, Owned, PlannedValues, Continues
      <4>2. QED
        BY <4>1 DEF WroteCategory, Continues, AtVersion
    <3>4. ASSUME request'[q].phase = "checked", request'[q].ask.op \in OptionChanges
          PROVE  /\ option[request'[q].ask.id].state # "absent"
                 /\ option[request'[q].ask.id].field = request'[q].ask.field
      <4>1. CASE request[q].phase = "new"
        <5>1. PICK ask \in Ask : CategoryBegun(q, ask) \/ FieldBegun(q, ask) \/ OptionBegun(q, ask)
                                   \/ ItemBegun(q, ask)
          BY <2>3, <4>1 DEF Moves, Walked, WroteCategory, Counted, Owned, PlannedValues
        <5>2. request'[q].ask = ask
          BY <5>1 DEF CategoryBegun, FieldBegun, OptionBegun, ItemBegun, Begun
        <5>3. OptionBegun(q, ask)
          BY <5>1, <5>2, <3>4 DEF CategoryBegun, FieldBegun, ItemBegun, OptionChanges,
             CategoryChanges, FieldChanges, ItemOps
        <5>4. QED
          BY <5>2, <5>3, <3>4 DEF OptionBegun, OptionChanges
      <4>2. CASE request[q].phase # "new"
        <5>1. request[q].phase \in {"walking", "counting"} /\ request'[q].ask = request[q].ask
          BY <2>3, <3>4, <4>2, MoveShapes
        <5>2. request[q].ask.op \notin OptionChanges
          BY <5>1, <1>1, CallAsks DEF Outside, OptionChanges, CategoryChanges
        <5>3. QED
          BY <5>1, <5>2, <3>4
      <4>3. QED
        BY <4>1, <4>2
    <3>5. QED
      BY <3>1, <3>2, <3>3, <3>4
  <2>4. QED
    BY <2>1, <2>2, <2>3, CallMoves
<1>5. Placed'
  BY <1>3, <1>4 DEF Placed
<1>6. QED
  BY <1>1, <1>2, <1>5 DEF Base

(* An execution begins with nothing under way.                             *)
LEMMA InitBase ==
  ASSUME Init
  PROVE  Base
<1>1. PICK first \in Beginning :
        category = first.category /\ field = first.field /\ option = first.option
          /\ item = first.item
  BY DEF Init
<1>2. /\ category \in [Category -> CategoryRow] /\ field \in [Field -> FieldRow]
      /\ option \in [Option -> OptionRow] /\ item \in [Item -> ItemRow]
      /\ Sound(category, field, option, item)
  BY <1>1, BeginningAssumption
<1>3. /\ request \in [Request -> Call]
      /\ \A q \in Request : request[q].phase = "new" /\ request[q].ask = NoAsk
      /\ owed = {} /\ overlapped = FALSE /\ raced = {}
  BY NewCallTyped DEF Init
<1>4. CallsFit
  BY <1>3 DEF CallsFit, CallFits, Outside, OfItem
<1>5. Typed
  BY <1>2, <1>3, <1>4 DEF Typed, TypeOK
<1>6. Unborn /\ Placed
  BY <1>2, <1>3 DEF Unborn, Placed, Sound, OfItem
<1>7. QED
  BY <1>5, <1>6 DEF Base

(* Every variable keeps to its type.                                       *)
THEOREM CatalogTyped == Spec => []TypeOK
<1>1. Base => TypeOK
  BY DEF Base, Typed
<1>2. QED
  BY InitBase, BaseStep, <1>1, PTL DEF Spec
-----------------------------------------------------------------------------
(* A call that read a row holds on to it, as it was, until its version is  *)
(* compared: no change of the row leaves the version it expects.           *)
CategoryStands(r) ==
  LET q == request[r]
      row == category[q.ask.id]
  IN  q.ask.op \in CategoryChanges =>
        /\ q.phase \in {"walking", "checked", "written"} => q.expected <= row.version
        /\ q.phase \in {"checked", "written"} =>
             /\ q.expected <= q.before.version /\ q.before.version <= row.version
             /\ q.before.version = row.version => q.before = row

FieldStands(r) ==
  LET q == request[r]
      row == field[q.ask.id]
  IN  q.ask.op \in FieldChanges /\ q.phase \in {"counting", "checked"} =>
        /\ q.expected <= row.version
        /\ q.expected = row.version => q.before = row

OptionStands(r) ==
  LET q == request[r]
      row == field[q.ask.field]
  IN  q.ask.op \in OptionOps /\ q.phase = "checked" =>
        /\ q.expected <= row.version
        /\ q.expected = row.version =>
             /\ q.ask.op = "createOption" => row.type = "select"
             /\ q.ask.op \in OptionChanges => q.before = option[q.ask.id]

ItemStands(r) ==
  LET q == request[r]
      row == item[q.ask.id]
  IN  q.phase \in OfItem =>
        /\ q.expected <= row.version
        /\ q.expected = row.version => q.before = row

Stands == \A r \in Request :
  CategoryStands(r) /\ FieldStands(r) /\ OptionStands(r) /\ ItemStands(r)

LEMMA CategoryStandsStep ==
  ASSUME Base, Stands, [Next]_vars, NEW r \in Request
  PROVE  CategoryStands(r)'
<1> DEFINE q == request[r]
           p == request'[r]
<1>1. Typed /\ Typed' /\ Grows
  BY StepGrows DEF Base
<1>2. CASE p.phase \in Outside
  BY <1>2 DEF CategoryStands, Outside
<1>3. CASE p = q /\ p.phase \notin Outside
  <2>1. CASE /\ q.ask.op \in CategoryChanges /\ q.phase \in {"walking", "checked", "written"}
    <3>1. q.ask.id \in Category
      BY <1>1, <1>3, <2>1, CallAsks DEF CategoryChanges, CategoryOps
    <3>2. PICK c \in Category : c = q.ask.id
      BY <3>1
    <3>3. /\ category[c] \in CategoryRow /\ category'[c] \in CategoryRow
          /\ q.expected \in Nat
          /\ category'[c] = category[c] \/ category'[c].version > category[c].version
      BY <1>1 DEF Typed, TypeOK, Call, Grows, CategoryGrows
    <3>4. q.phase \in {"checked", "written"} => q.before \in CategoryRow
      BY <1>1, <2>1 DEF Typed, CallsFit, CallFits
    <3>5. /\ q.expected <= category[c].version
          /\ q.phase \in {"checked", "written"} =>
               /\ q.expected <= q.before.version /\ q.before.version <= category[c].version
               /\ q.before.version = category[c].version => q.before = category[c]
      BY <2>1, <3>2 DEF Stands, CategoryStands
    <3>6. /\ q.expected <= category'[c].version
          /\ q.phase \in {"checked", "written"} =>
               /\ q.expected <= q.before.version /\ q.before.version <= category'[c].version
               /\ q.before.version = category'[c].version => q.before = category'[c]
      BY <3>3, <3>4, <3>5 DEF CategoryRow
    <3>7. QED
      BY <1>3, <3>2, <3>6 DEF CategoryStands
  <2>2. CASE ~(/\ q.ask.op \in CategoryChanges /\ q.phase \in {"walking", "checked", "written"})
    BY <1>3, <2>2 DEF CategoryStands
  <2>3. QED
    BY <2>1, <2>2
<1>4. CASE Moves(r) /\ p.ask.op \in CategoryChanges
  <2>1. category' = category /\ p.phase \notin Outside /\ q.expected \in Nat
    BY <1>1, <1>4, MoveShapes DEF Outside, Typed, TypeOK, Call
  <2>2. p.ask.id \in Category
    BY <1>1, <1>4, <2>1, AskTyped DEF Typed, CallsFit, CallFits, CategoryChanges, CategoryOps
  <2>3. category[p.ask.id] \in CategoryRow
    BY <1>1, <2>2 DEF Typed, TypeOK
  <2>4. CASE q.phase = "new"
    <3>1. PICK ask \in Ask : CategoryBegun(r, ask) \/ FieldBegun(r, ask) \/ OptionBegun(r, ask)
                               \/ ItemBegun(r, ask)
      BY <1>4, <2>4 DEF Moves, Walked, WroteCategory, Counted, Owned, PlannedValues
    <3>2. p.ask = ask
      BY <3>1 DEF CategoryBegun, FieldBegun, OptionBegun, ItemBegun, Begun
    <3>3. CategoryBegun(r, ask)
      BY <1>4, <3>1, <3>2 DEF FieldBegun, OptionBegun, ItemBegun, OptionChanges,
         CategoryChanges, FieldChanges, ItemOps
    <3>4. p.expected = category[ask.id].version
      BY <1>1, <1>4, <3>2, <3>3, RowTyped DEF CategoryBegun, Begun, Typed, CategoryChanges,
         CategoryOps, OptionOps
    <3>5. p.phase \in {"checked", "written"} => p.before = category[ask.id]
      BY <1>4, <3>2, <3>3 DEF CategoryBegun, CategoryChanges
    <3>6. QED
      BY <2>1, <2>3, <3>2, <3>4, <3>5 DEF CategoryStands, CategoryRow
  <2>5. CASE q.phase # "new"
    <3>1. p.ask = q.ask /\ p.expected = q.expected
      BY <1>4, <2>5, MoveShapes
    <3>2. CASE Walked(r)
      <4>1. q.expected <= category[q.ask.id].version
        BY <1>4, <3>1, <3>2 DEF Walked, Stands, CategoryStands
      <4>2. p.phase = "walking" \/ (p.phase = "checked" /\ p.before = category[q.ask.id])
        BY <3>2 DEF Walked, Continues
      <4>3. category'[p.ask.id] = category[q.ask.id]
        BY <2>1, <3>1
      <4>4. category[q.ask.id].version \in Nat
        BY <2>3, <3>1 DEF CategoryRow
      <4>5. CASE p.phase = "walking"
        BY <3>1, <4>1, <4>3, <4>5 DEF CategoryStands
      <4>6. CASE p.phase = "checked" /\ p.before = category[q.ask.id]
        BY <3>1, <4>1, <4>3, <4>4, <4>6 DEF CategoryStands
      <4>7. QED
        BY <4>2, <4>5, <4>6
    <3>3. CASE WroteCategory(r)
      <4>1. q.phase = "checked" /\ p.before = q.before
        BY <3>3 DEF WroteCategory, Continues
      <4>2. QED
        BY <1>4, <2>1, <3>1, <4>1 DEF Stands, CategoryStands
    <3>4. CASE Counted(r) \/ Owned(r) \/ PlannedValues(r)
      <4>1. q.ask.op \notin CategoryChanges
        BY <1>1, <3>4, CallAsks DEF Counted, Owned, PlannedValues, Outside, OfItem,
           CategoryChanges, ItemOps
      <4>2. QED
        BY <1>4, <3>1, <4>1
    <3>5. QED
      BY <1>4, <2>5, <3>2, <3>3, <3>4 DEF Moves, CategoryBegun, FieldBegun, OptionBegun,
         ItemBegun, Begun
  <2>6. QED
    BY <2>4, <2>5
<1>5. CASE p.ask.op \notin CategoryChanges
  BY <1>5 DEF CategoryStands
<1>6. QED
  BY <1>2, <1>3, <1>4, <1>5, CallMoves
LEMMA FieldStandsStep ==
  ASSUME Base, Stands, [Next]_vars, NEW r \in Request
  PROVE  FieldStands(r)'
<1> DEFINE q == request[r]
           p == request'[r]
<1>1. Typed /\ Typed' /\ Grows
  BY StepGrows DEF Base
<1>2. CASE p.phase \in Outside
  BY <1>2 DEF FieldStands, Outside
<1>3. CASE /\ p = q
           /\ q.ask.op \in FieldChanges /\ q.phase \in {"counting", "checked"}
  <2>1. PICK f \in Field : f = q.ask.id
    BY <1>1, <1>3, CallAsks DEF FieldChanges, FieldOps, Outside
  <2>2. /\ field[f] \in FieldRow /\ field'[f] \in FieldRow
        /\ q.expected \in Nat
        /\ field'[f] = field[f] \/ field'[f].version > field[f].version
    BY <1>1 DEF Typed, TypeOK, Call, Grows, FieldGrows
  <2>3. q.expected <= field[f].version /\ (q.expected = field[f].version => q.before = field[f])
    BY <1>3, <2>1 DEF Stands, FieldStands
  <2>4. /\ q.expected <= field'[f].version
        /\ q.expected = field'[f].version => q.before = field'[f]
    BY <2>2, <2>3 DEF FieldRow
  <2>5. QED
    BY <1>3, <2>1, <2>4 DEF FieldStands
<1>4. CASE Moves(r) /\ p.ask.op \in FieldChanges
  <2>1. field' = field /\ p.phase \notin Outside
    BY <1>4, MoveShapes DEF Outside
  <2>2. p.ask.id \in Field
    BY <1>1, <1>4, <2>1, AskTyped DEF Typed, CallsFit, CallFits, FieldChanges, FieldOps
  <2>3. field[p.ask.id].version \in Nat
    BY <1>1, <2>2 DEF Typed, TypeOK, FieldRow
  <2>4. CASE q.phase = "new"
    <3>1. PICK ask \in Ask : CategoryBegun(r, ask) \/ FieldBegun(r, ask) \/ OptionBegun(r, ask)
                               \/ ItemBegun(r, ask)
      BY <1>4, <2>4 DEF Moves, Walked, WroteCategory, Counted, Owned, PlannedValues
    <3>2. p.ask = ask
      BY <3>1 DEF CategoryBegun, FieldBegun, OptionBegun, ItemBegun, Begun
    <3>3. FieldBegun(r, ask)
      BY <1>4, <3>1, <3>2 DEF CategoryBegun, OptionBegun, ItemBegun, OptionChanges,
         CategoryChanges, FieldChanges, ItemOps
    <3>4. p.expected = field[ask.id].version
      BY <1>1, <1>4, <3>2, <3>3, RowTyped DEF FieldBegun, Begun, Typed, FieldChanges,
         FieldOps, OptionOps
    <3>5. p.before = field[ask.id]
      BY <1>4, <3>2, <3>3 DEF FieldBegun, FieldChanges
    <3>6. QED
      BY <2>1, <2>3, <3>2, <3>4, <3>5 DEF FieldStands
  <2>5. CASE q.phase # "new"
    <3>1. p.ask = q.ask /\ p.expected = q.expected
      BY <1>4, <2>5, MoveShapes
    <3>2. CASE Counted(r)
      <4>1. q.phase = "counting" /\ p.before = q.before
        BY <3>2 DEF Counted, Continues
      <4>2. QED
        BY <1>4, <2>1, <3>1, <4>1 DEF Stands, FieldStands
    <3>3. CASE Walked(r) \/ WroteCategory(r) \/ Owned(r) \/ PlannedValues(r)
      <4>1. q.ask.op \notin FieldChanges
        BY <1>1, <3>3, CallAsks DEF Walked, WroteCategory, Owned, PlannedValues, Outside, OfItem,
           CategoryChanges, FieldChanges, ItemOps
      <4>2. QED
        BY <1>4, <3>1, <4>1
    <3>4. QED
      BY <1>4, <2>5, <3>2, <3>3 DEF Moves, CategoryBegun, FieldBegun, OptionBegun,
         ItemBegun, Begun
  <2>6. QED
    BY <2>4, <2>5
<1>5. CASE ~(p.ask.op \in FieldChanges /\ p.phase \in {"counting", "checked"})
  BY <1>5 DEF FieldStands
<1>6. QED
  BY <1>2, <1>3, <1>4, <1>5, CallMoves

LEMMA OptionStandsStep ==
  ASSUME Base, Stands, [Next]_vars, NEW r \in Request
  PROVE  OptionStands(r)'
<1> DEFINE q == request[r]
           p == request'[r]
<1>1. Typed /\ Typed' /\ Grows
  BY StepGrows DEF Base
<1>2. CASE p.phase \in Outside
  BY <1>2 DEF OptionStands, Outside
<1>3. CASE p = q /\ q.ask.op \in OptionOps /\ q.phase = "checked"
  <2>1. PICK f \in Field, o \in Option : f = q.ask.field /\ o = q.ask.id
    BY <1>1, <1>3, CallAsks DEF Outside
  <2>2. /\ field[f] \in FieldRow /\ field'[f] \in FieldRow
        /\ q.expected \in Nat
        /\ field'[f] = field[f] \/ field'[f].version > field[f].version
    BY <1>1 DEF Typed, TypeOK, Call, Grows, FieldGrows
  <2>3. /\ q.expected <= field[f].version
        /\ q.expected = field[f].version =>
             /\ q.ask.op = "createOption" => field[f].type = "select"
             /\ q.ask.op \in OptionChanges => q.before = option[o]
    BY <1>3, <2>1 DEF Stands, OptionStands
  <2>4. q.ask.op \in OptionChanges => option[o].field = f /\ option[o].state # "absent"
    BY <1>3, <2>1 DEF Base, Placed
  <2>5. ASSUME q.ask.op \in OptionChanges, q.expected = field'[f].version
        PROVE  option'[o] = option[o]
    <3>1. field'[f].version = field[f].version
      BY <2>2, <2>3, <2>5 DEF FieldRow
    <3>2. SUFFICES ASSUME option'[o] # option[o] PROVE FALSE
      OBVIOUS
    <3>3. option'[o].field = f /\ field'[f].version > field[f].version
      BY <1>1, <2>4, <2>5, <3>2 DEF Grows, OptionGrows
    <3>4. QED
      BY <2>2, <3>1, <3>3 DEF FieldRow
  <2>6. /\ q.expected <= field'[f].version
        /\ q.expected = field'[f].version => field'[f] = field[f]
    BY <2>2, <2>3 DEF FieldRow
  <2>7. /\ q.expected <= field'[f].version
        /\ q.expected = field'[f].version =>
             /\ q.ask.op = "createOption" => field'[f].type = "select"
             /\ q.ask.op \in OptionChanges => q.before = option'[o]
    BY <2>3, <2>5, <2>6
  <2>8. QED
    BY <1>3, <2>1, <2>7 DEF OptionStands
<1>4. CASE Moves(r) /\ p.ask.op \in OptionOps
  <2>1. field' = field /\ option' = option /\ p.phase \notin Outside
    BY <1>4, MoveShapes DEF Outside
  <2>2. p.ask.field \in Field
    BY <1>1, <1>4, <2>1, AskTyped DEF Typed, CallsFit, CallFits
  <2>3. field[p.ask.field].version \in Nat
    BY <1>1, <2>2 DEF Typed, TypeOK, FieldRow
  <2>4. CASE q.phase = "new"
    <3>1. PICK ask \in Ask : CategoryBegun(r, ask) \/ FieldBegun(r, ask) \/ OptionBegun(r, ask)
                               \/ ItemBegun(r, ask)
      BY <1>4, <2>4 DEF Moves, Walked, WroteCategory, Counted, Owned, PlannedValues
    <3>2. p.ask = ask
      BY <3>1 DEF CategoryBegun, FieldBegun, OptionBegun, ItemBegun, Begun
    <3>3. OptionBegun(r, ask)
      BY <1>4, <3>1, <3>2 DEF CategoryBegun, FieldBegun, ItemBegun, OptionOps,
         CategoryChanges, FieldChanges, ItemOps
    <3>4. p.expected = field[ask.field].version
      BY <1>1, <1>4, <3>2, <3>3, RowTyped DEF OptionBegun, Begun, Typed
    <3>5. /\ ask.op = "createOption" => field[ask.field].type = "select"
          /\ ask.op \in OptionChanges => p.before = option[ask.id]
      BY <3>3 DEF OptionBegun, OptionChanges
    <3>6. QED
      BY <2>1, <2>3, <3>2, <3>4, <3>5 DEF OptionStands
  <2>5. CASE q.phase # "new"
    <3>1. p.ask = q.ask
      BY <1>4, <2>5, MoveShapes
    <3>2. Walked(r) \/ WroteCategory(r) \/ Counted(r) \/ Owned(r) \/ PlannedValues(r)
      BY <1>4, <2>5 DEF Moves, CategoryBegun, FieldBegun, OptionBegun, ItemBegun, Begun
    <3>3. q.ask.op \notin OptionOps
      BY <1>1, <3>2, CallAsks DEF Walked, WroteCategory, Counted, Owned, PlannedValues, Outside,
         OfItem, CategoryChanges, OptionOps, ItemOps
    <3>4. QED
      BY <1>4, <3>1, <3>3
  <2>6. QED
    BY <2>4, <2>5
<1>5. CASE ~(p.ask.op \in OptionOps /\ p.phase = "checked")
  BY <1>5 DEF OptionStands
<1>6. QED
  BY <1>2, <1>3, <1>4, <1>5, CallMoves

LEMMA ItemStandsStep ==
  ASSUME Base, Stands, [Next]_vars, NEW r \in Request
  PROVE  ItemStands(r)'
<1> DEFINE q == request[r]
           p == request'[r]
<1>1. Typed /\ Typed' /\ Grows
  BY StepGrows DEF Base
<1>2. CASE p.phase \notin OfItem
  BY <1>2 DEF ItemStands
<1>3. CASE p = q /\ q.phase \in OfItem
  <2>1. PICK i \in Item : i = q.ask.id
    BY <1>1, <1>3, CallAsks DEF Outside, OfItem
  <2>2. /\ item[i] \in ItemRow /\ item'[i] \in ItemRow
        /\ q.expected \in Nat
        /\ item'[i] = item[i] \/ item'[i].version > item[i].version
    BY <1>1 DEF Typed, TypeOK, Call, Grows, ItemGrows
  <2>3. q.expected <= item[i].version /\ (q.expected = item[i].version => q.before = item[i])
    BY <1>3, <2>1 DEF Stands, ItemStands
  <2>4. /\ item[i].version \in Nat /\ item'[i].version \in Nat
    BY <2>2 DEF ItemRow
  <2>5. /\ q.expected <= item'[i].version
        /\ q.expected = item'[i].version => q.before = item'[i]
    BY <2>2, <2>3, <2>4
  <2>6. QED
    BY <1>3, <2>1, <2>5 DEF ItemStands
<1>4. CASE Moves(r) /\ p.phase \in OfItem
  <2>1. item' = item
    BY <1>4, MoveShapes
  <2>2. p.ask.id \in Item
    BY <1>1, <1>4, AskTyped DEF Typed, CallsFit, CallFits, OfItem, Outside
  <2>3. item[p.ask.id].version \in Nat
    BY <1>1, <2>2 DEF Typed, TypeOK, ItemRow
  <2>4. CASE q.phase = "new"
    <3>1. PICK ask \in Ask : CategoryBegun(r, ask) \/ FieldBegun(r, ask) \/ OptionBegun(r, ask)
                               \/ ItemBegun(r, ask)
      BY <1>4, <2>4 DEF Moves, Walked, WroteCategory, Counted, Owned, PlannedValues
    <3>2. ItemBegun(r, ask)
      BY <1>4, <3>1 DEF CategoryBegun, FieldBegun, OptionBegun, OfItem
    <3>3. p.ask = ask /\ p.before = item[ask.id] /\ ask.op \in ItemOps
      BY <3>2 DEF ItemBegun, Begun
    <3>4. p.expected = item[ask.id].version
      BY <1>1, <3>2, <3>3, RowTyped DEF ItemBegun, Begun, Typed, ItemOps, OptionOps
    <3>5. QED
      BY <2>1, <2>3, <3>3, <3>4 DEF ItemStands
  <2>5. CASE q.phase # "new"
    <3>1. p.ask = q.ask /\ p.expected = q.expected /\ q.phase \in OfItem
      BY <1>4, <2>5, MoveShapes DEF OfItem
    <3>2. p.before = q.before
      BY <1>4, <2>5, <3>1 DEF Moves, CategoryBegun, FieldBegun, OptionBegun, ItemBegun, Begun,
         Walked, WroteCategory, Counted, Owned, PlannedValues, Continues, OfItem
    <3>3. QED
      BY <2>1, <3>1, <3>2 DEF Stands, ItemStands
  <2>6. QED
    BY <2>4, <2>5
<1>5. QED
  BY <1>2, <1>3, <1>4, CallMoves DEF Outside, OfItem
LEMMA StandsStep ==
  ASSUME Base, Stands, [Next]_vars
  PROVE  Stands'
<1>1. ASSUME NEW r \in Request
      PROVE  (CategoryStands(r) /\ FieldStands(r) /\ OptionStands(r) /\ ItemStands(r))'
  BY CategoryStandsStep, FieldStandsStep, OptionStandsStep, ItemStandsStep
<1>2. QED
  BY <1>1 DEF Stands

-----------------------------------------------------------------------------
(* Who changes a row.                                                      *)
LEMMA Writers ==
  ASSUME [Next]_vars
  PROVE  \/ UNCHANGED tables
         \/ \E r \in Request :
              \/ /\ CommitCategory(r) \/ CreateCategory(r)
                 /\ UNCHANGED <<field, option, item>>
              \/ /\ CommitField(r) \/ CreateField(r)
                 /\ UNCHANGED <<category, option, item>>
              \/ CommitOption(r) /\ UNCHANGED <<category, item>>
              \/ CommitItem(r) /\ UNCHANGED <<category, field, option, owed>>
<1>1. ASSUME NEW r \in Request, NEW ask \in Ask,
             \/ StartCategory(r, ask) \/ StartField(r, ask)
             \/ StartOption(r, ask) \/ StartItem(r, ask)
      PROVE  UNCHANGED tables
  <2>1. CASE StartCategory(r, ask)
    BY <2>1 DEF StartCategory, Begin
  <2>2. CASE StartField(r, ask)
    BY <2>2 DEF StartField, Begin
  <2>3. CASE StartOption(r, ask)
    BY <2>3 DEF StartOption, Begin
  <2>4. CASE StartItem(r, ask)
    BY <2>4 DEF StartItem, Begin
  <2>5. QED
    BY <1>1, <2>1, <2>2, <2>3, <2>4
<1>2. ASSUME NEW r \in Request, Walk(r) PROVE UNCHANGED tables
  BY <1>2 DEF Walk, Refused
<1>3. ASSUME NEW r \in Request, WriteCategory(r) PROVE UNCHANGED tables
  BY <1>3 DEF WriteCategory, Refused
<1>4. ASSUME NEW r \in Request, Count(r) PROVE UNCHANGED tables
  BY <1>4 DEF Count, Refused
<1>5. ASSUME NEW r \in Request, Own(r) PROVE UNCHANGED tables
  BY <1>5 DEF Own, Refused
<1>6. ASSUME NEW r \in Request, Plan(r) PROVE UNCHANGED tables
  BY <1>6 DEF Plan, Refused
<1>7. ASSUME UNCHANGED vars PROVE UNCHANGED tables
  BY <1>7 DEF vars, tables
<1>8. ASSUME NEW r \in Request, CommitCategory(r) \/ CreateCategory(r)
      PROVE  UNCHANGED <<field, option, item>>
  BY <1>8 DEF CommitCategory, CreateCategory
<1>9. ASSUME NEW r \in Request, CommitField(r) \/ CreateField(r)
      PROVE  UNCHANGED <<category, option, item>>
  <2>1. CASE CommitField(r)
    BY <2>1 DEF CommitField, Refused, tables
  <2>2. CASE CreateField(r)
    BY <2>2 DEF CreateField
  <2>3. QED
    BY <1>9, <2>1, <2>2
<1>10. ASSUME NEW r \in Request, CommitOption(r) PROVE UNCHANGED <<category, item>>
  BY <1>10 DEF CommitOption, Refused, tables
<1>11. ASSUME NEW r \in Request, CommitItem(r) PROVE UNCHANGED <<category, field, option, owed>>
  BY <1>11 DEF CommitItem
<1>12. QED
  BY <1>1, <1>2, <1>3, <1>4, <1>5, <1>6, <1>7, <1>8, <1>9, <1>10, <1>11, Zenon DEF Next

LEMMA CategoryWriter ==
  ASSUME Base, [Next]_vars, NEW c \in Category, category'[c] # category[c]
  PROVE  \E r \in Request : /\ request[r].ask.id = c
                            /\ \/ CommitCategory(r)
                               \/ CreateCategory(r) /\ category[c].state = "absent"
<1>1. Typed
  BY DEF Base
<1>2. ASSUME NEW r \in Request, CommitCategory(r) PROVE request[r].ask.id = c
  <2>1. PICK ask : ask = request[r].ask
    OBVIOUS
  <2>2. category' = [category EXCEPT ![ask.id] = CategoryAfter(ask, category[ask.id])]
    BY <1>1, <1>2, <2>1, CommitCategoryStep
  <2>3. QED
    BY <1>1, <2>1, <2>2 DEF Typed, TypeOK
<1>3. ASSUME NEW r \in Request, CreateCategory(r)
      PROVE  request[r].ask.id = c /\ category[c].state = "absent"
  <2>1. PICK ask : ask = request[r].ask
    OBVIOUS
  <2>2. /\ category[ask.id].state = "absent"
        /\ \E row \in CategoryRow : category' = [category EXCEPT ![ask.id] = row]
    BY <1>1, <1>3, <2>1, CreateCategoryStep
  <2>3. ask.id = c
    BY <1>1, <2>2 DEF Typed, TypeOK
  <2>4. QED
    BY <2>1, <2>2, <2>3
<1>4. ASSUME UNCHANGED category PROVE FALSE
  BY <1>4
<1>5. \E r \in Request : CommitCategory(r) \/ CreateCategory(r)
  BY <1>4, Writers DEF tables
<1>6. QED
  BY <1>2, <1>3, <1>5

LEMMA FieldWriter ==
  ASSUME Base, [Next]_vars, NEW f \in Field, field'[f] # field[f]
  PROVE  \E r \in Request :
           \/ request[r].ask.id = f /\ CommitField(r)
           \/ request[r].ask.id = f /\ CreateField(r) /\ field[f].state = "absent"
           \/ request[r].ask.field = f /\ CommitOption(r)
<1>1. Typed
  BY DEF Base
<1>2. ASSUME NEW r \in Request, CommitField(r) PROVE request[r].ask.id = f
  <2>1. PICK ask : ask = request[r].ask
    OBVIOUS
  <2>2. field' = [field EXCEPT ![ask.id] =
                    FieldAfter(ask, field[ask.id], request[r].before)]
    BY <1>1, <1>2, <2>1, CommitFieldStep
  <2>3. QED
    BY <1>1, <2>1, <2>2 DEF Typed, TypeOK
<1>3. ASSUME NEW r \in Request, CreateField(r)
      PROVE  request[r].ask.id = f /\ field[f].state = "absent"
  <2>1. PICK ask : ask = request[r].ask
    OBVIOUS
  <2>2. /\ field[ask.id].state = "absent"
        /\ \E row \in FieldRow : field' = [field EXCEPT ![ask.id] = row]
    BY <1>1, <1>3, <2>1, CreateFieldStep
  <2>3. ask.id = f
    BY <1>1, <2>2 DEF Typed, TypeOK
  <2>4. QED
    BY <2>1, <2>2, <2>3
<1>4. ASSUME NEW r \in Request, CommitOption(r) PROVE request[r].ask.field = f
  <2>1. PICK ask : ask = request[r].ask
    OBVIOUS
  <2>2. OptionBumped(ask)
    BY <1>1, <1>4, <2>1, CommitOptionStep
  <2>3. PICK row \in FieldRow : field' = [field EXCEPT ![ask.field] = row]
    BY <2>2 DEF OptionBumped
  <2>4. QED
    BY <1>1, <2>1, <2>3 DEF Typed, TypeOK
<1>5. \E r \in Request : CommitField(r) \/ CreateField(r) \/ CommitOption(r)
  BY Writers DEF tables
<1>6. QED
  BY <1>2, <1>3, <1>4, <1>5

LEMMA OptionWriter ==
  ASSUME Base, [Next]_vars, NEW o \in Option, option'[o] # option[o]
  PROVE  \E r \in Request : request[r].ask.id = o /\ CommitOption(r)
<1>1. Typed
  BY DEF Base
<1>2. ASSUME NEW r \in Request, CommitOption(r) PROVE request[r].ask.id = o
  <2>1. PICK ask : ask = request[r].ask
    OBVIOUS
  <2>2. OptionBumped(ask)
    BY <1>1, <1>2, <2>1, CommitOptionStep
  <2>3. PICK row \in OptionRow : option' = [option EXCEPT ![ask.id] = row]
    BY <2>2 DEF OptionBumped
  <2>4. QED
    BY <1>1, <2>1, <2>3 DEF Typed, TypeOK
<1>3. \E r \in Request : CommitOption(r)
  BY Writers DEF tables
<1>4. QED
  BY <1>2, <1>3

LEMMA ItemWriter ==
  ASSUME Base, [Next]_vars, NEW i \in Item, item'[i] # item[i]
  PROVE  \E r \in Request : request[r].ask.id = i /\ CommitItem(r)
<1>1. Typed
  BY DEF Base
<1>2. ASSUME NEW r \in Request, CommitItem(r) PROVE request[r].ask.id = i
  <2>1. PICK ask : ask = request[r].ask
    OBVIOUS
  <2>2. request[r].phase \in OfItem
    BY <1>2 DEF CommitItem, OfItem
  <2>3. CategoryOf(ask) \in Category
    BY <2>1, <2>2, CallPlaced
  <2>4. PICK row \in ItemRow : item' = [item EXCEPT ![ask.id] = row]
    BY <1>1, <1>2, <2>1, <2>3, CommitItemStep
  <2>5. QED
    BY <1>1, <2>1, <2>4 DEF Typed, TypeOK
<1>3. \E r \in Request : CommitItem(r)
  BY Writers DEF tables
<1>4. QED
  BY <1>2, <1>3
-----------------------------------------------------------------------------
(* A locked row stands at the version its holder compared, and has one     *)
(* holder.                                                                 *)
Locks ==
  /\ \A r \in Request : Written(r) =>
       AtVersion(category[request[r].ask.id], request[r].expected)
  /\ \A r \in Request : request[r].phase \in {"owned", "planned"} =>
       item[request[r].ask.id].version = request[r].expected
  /\ \A r, q \in Request :
       Written(r) /\ Written(q) /\ request[r].ask.id = request[q].ask.id => r = q
  /\ \A r, q \in Request : \A i \in Item : Holds(r, i) /\ Holds(q, i) => r = q

LEMMA LocksStep ==
  ASSUME Base, Stands, Locks, [Next]_vars
  PROVE  Locks'
<1>1. Typed /\ Typed'
  BY StepGrows DEF Base
<1>2. ASSUME NEW r \in Request, Written(r)', request'[r] # request[r] PROVE WroteCategory(r)
  BY <1>2, CallMoves DEF Written, Outside, Moves, CategoryBegun, FieldBegun, OptionBegun,
     ItemBegun, Walked, Counted, Owned, PlannedValues, Continues
<1>3. ASSUME NEW r \in Request, request'[r].phase \in {"owned", "planned"},
             request'[r] # request[r]
      PROVE  Owned(r) \/ PlannedValues(r)
  BY <1>3, CallMoves DEF Outside, Moves, CategoryBegun, FieldBegun, OptionBegun,
     ItemBegun, Walked, Counted, WroteCategory, Continues
<1>4. ASSUME NEW r \in Request, Written(r)'
      PROVE  AtVersion(category[request[r].ask.id], request[r].expected)'
  <2>1. CASE request'[r] = request[r]
    <3>1. Written(r)
      BY <1>4, <2>1 DEF Written
    <3>2. PICK c \in Category : c = request[r].ask.id
      BY <1>1, <3>1, CallAsks DEF Written, Outside
    <3>3. AtVersion(category[c], request[r].expected)
      BY <3>1, <3>2 DEF Locks
    <3>4. category'[c] = category[c]
      <4>1. SUFFICES ASSUME category'[c] # category[c] PROVE FALSE
        OBVIOUS
      <4>2. PICK w \in Request : request[w].ask.id = c /\ CommitCategory(w)
        BY <3>3, <4>1, CategoryWriter DEF AtVersion
      <4>3. Written(w) /\ request'[w].phase = "done"
        BY <1>1, <4>2, CommitCategoryStep DEF Ended
      <4>4. w = r
        BY <3>1, <3>2, <4>2, <4>3 DEF Locks
      <4>5. QED
        BY <1>4, <4>3, <4>4 DEF Written
    <3>5. QED
      BY <2>1, <3>2, <3>3, <3>4 DEF AtVersion
  <2>2. CASE WroteCategory(r)
    BY <2>2 DEF WroteCategory, Continues, tables, AtVersion
  <2>3. QED
    BY <1>2, <1>4, <2>1, <2>2
<1>5. ASSUME NEW r \in Request, request'[r].phase \in {"owned", "planned"}
      PROVE  item'[request'[r].ask.id].version = request'[r].expected
  <2>1. CASE request'[r] = request[r]
    <3>1. PICK i \in Item : i = request[r].ask.id
      BY <1>1, <1>5, <2>1, CallAsks DEF Outside, OfItem
    <3>2. item[i].version = request[r].expected
      BY <1>5, <2>1, <3>1 DEF Locks
    <3>3. item'[i] = item[i]
      <4>1. SUFFICES ASSUME item'[i] # item[i] PROVE FALSE
        OBVIOUS
      <4>2. PICK w \in Request : request[w].ask.id = i /\ CommitItem(w)
        BY <4>1, ItemWriter
      <4>3. request[w].phase = "planned" /\ Ends(w)
        BY <4>2 DEF CommitItem
      <4>4. request'[w].phase = "done"
        BY <1>1, <4>3, EndsTyped
      <4>5. w = r
        BY <1>5, <2>1, <3>1, <4>2, <4>3 DEF Locks, Holds
      <4>6. QED
        BY <1>5, <4>4, <4>5
    <3>4. QED
      BY <2>1, <3>1, <3>2, <3>3
  <2>2. CASE Owned(r)
    BY <2>2 DEF Owned, tables
  <2>3. CASE PlannedValues(r)
    BY <2>3 DEF PlannedValues, Continues, tables, Locks
  <2>4. QED
    BY <1>3, <1>5, <2>1, <2>2, <2>3
<1>6. ASSUME NEW r \in Request, NEW q \in Request, Written(r)', Written(q)',
             request'[r].ask.id = request'[q].ask.id, r # q
      PROVE  FALSE
  <2>1. CASE request'[r] = request[r] /\ request'[q] = request[q]
    BY <1>6, <2>1 DEF Locks, Written
  <2>2. ASSUME NEW a \in Request, NEW b \in Request, a # b, Written(b)',
               request'[a].ask.id = request'[b].ask.id, WroteCategory(a)
        PROVE  FALSE
    BY <2>2 DEF WroteCategory, Continues, Written
  <2>3. QED
    BY <1>2, <1>6, <2>1, <2>2
<1>7. ASSUME NEW r \in Request, NEW q \in Request, NEW i \in Item, Holds(r, i)', Holds(q, i)',
             r # q
      PROVE  FALSE
  <2>1. CASE request'[r] = request[r] /\ request'[q] = request[q]
    BY <1>7, <2>1 DEF Locks, Holds
  <2>2. ASSUME NEW a \in Request, NEW b \in Request, a # b, Holds(a, i)', Holds(b, i)', Owned(a)
        PROVE  FALSE
    BY <2>2 DEF Owned, Holds
  <2>3. ASSUME NEW a \in Request, NEW b \in Request, a # b, Holds(a, i)', Holds(b, i)',
               PlannedValues(a)
        PROVE  FALSE
    BY <2>3 DEF PlannedValues, Continues, Holds, Locks
  <2>4. QED
    BY <1>3, <1>7, <2>1, <2>2, <2>3 DEF Holds
<1>8. QED
  BY <1>4, <1>5, <1>6, <1>7 DEF Locks

Kept == Base /\ Stands /\ Locks

LEMMA KeptStep ==
  ASSUME Kept, [Next]_vars
  PROVE  Kept'
  BY BaseStep, StandsStep, LocksStep DEF Kept

LEMMA InitKept ==
  ASSUME Init
  PROVE  Kept
<1>1. Base
  BY InitBase
<1>2. \A r \in Request : request[r].phase = "new"
  BY NewCallTyped DEF Init
<1>3. Stands /\ Locks
  BY <1>2 DEF Stands, CategoryStands, FieldStands, OptionStands, ItemStands, Locks, Written,
     Holds, OfItem
<1>4. QED
  BY <1>1, <1>3 DEF Kept
(* A call that is answered in a step took the step.                        *)
LEMMA Answered ==
  ASSUME Typed, NEW r \in Request, NEW w \in Request, request[r].ask \in Ask,
         request'[r].phase = "done", Ended(w)
  PROVE  w = r
<1>1. request[r].phase # "done"
  BY NullAssumption DEF Typed, CallsFit, CallFits, Outside
<1>2. QED
  BY <1>1 DEF Ended

LEMMA CommitEnds ==
  ASSUME Base, NEW w \in Request,
         \/ CommitCategory(w) \/ CreateCategory(w) \/ CommitField(w) \/ CreateField(w)
         \/ CommitOption(w) \/ CommitItem(w)
  PROVE  Ended(w)
<1>1. Typed
  BY DEF Base
<1>2. CASE CommitItem(w)
  BY <1>1, <1>2, EndsTyped DEF CommitItem, Ended
<1>3. QED
  BY <1>1, <1>2, CommitCategoryStep, CreateCategoryStep, CommitFieldStep, CreateFieldStep,
     CommitOptionStep

LEMMA AuditStep ==
  ASSUME Kept, [Next]_vars, NEW r \in Request, NEW ask \in Ask, request[r].ask = ask,
         request[r].before # NoRow, request'[r].phase = "done", Row(ask)' # Row(ask)
  PROVE  request[r].before = Row(ask)
<1>1. Base /\ Stands /\ Locks /\ Typed /\ Typed'
  BY StepGrows DEF Kept, Base
<1>2. CASE ask.op \in CategoryOps
  <2>1. PICK c \in Category : c = ask.id
    BY <1>2, AskTyped
  <2>2. Row(ask) = category[c] /\ Row(ask)' = category'[c]
    BY <1>2, <2>1 DEF Row, CategoryOps, FieldOps, OptionOps, ItemOps
  <2>3. PICK w \in Request : CommitCategory(w) \/ CreateCategory(w)
    BY <1>1, <2>2, CategoryWriter
  <2>4. w = r
    BY <1>1, <2>3, CommitEnds, Answered
  <2>5. CASE CreateCategory(r)
    BY <1>1, <2>5, CreateCategoryStep DEF Typed, CallsFit, CallFits
  <2>6. CASE CommitCategory(r)
    <3>1. Written(r) /\ ask.op \in CategoryChanges
      BY <1>1, <2>6, CommitCategoryStep
    <3>2. /\ category[c] \in CategoryRow /\ request[r].before \in CategoryRow
          /\ request[r].expected \in Nat
      BY <1>1, <3>1 DEF Typed, TypeOK, CallsFit, CallFits, Written, Call
    <3>3. category[c].version = request[r].expected
      BY <1>1, <2>1, <3>1 DEF Locks, AtVersion
    <3>4. /\ request[r].expected <= request[r].before.version
          /\ request[r].before.version <= category[c].version
          /\ request[r].before.version = category[c].version => request[r].before = category[c]
      BY <1>1, <2>1, <3>1 DEF Stands, CategoryStands, Written
    <3>5. QED
      BY <2>2, <3>2, <3>3, <3>4 DEF CategoryRow
  <2>7. QED
    BY <2>3, <2>4, <2>5, <2>6
<1>3. CASE ask.op \in FieldOps
  <2>1. PICK f \in Field : f = ask.id
    BY <1>3, AskTyped
  <2>2. Row(ask) = field[f] /\ Row(ask)' = field'[f]
    BY <1>3, <2>1 DEF Row, CategoryOps, FieldOps, OptionOps, ItemOps
  <2>3. PICK w \in Request : CommitField(w) \/ CreateField(w) \/ CommitOption(w)
    BY <1>1, <2>2, FieldWriter
  <2>4. w = r
    BY <1>1, <2>3, CommitEnds, Answered
  <2>5. CASE CreateField(r)
    BY <1>1, <2>5, CreateFieldStep DEF Typed, CallsFit, CallFits
  <2>6. CASE CommitOption(r)
    BY <1>1, <1>3, <2>6, CommitOptionStep DEF FieldOps, OptionOps
  <2>7. CASE CommitField(r)
    <3>1. /\ request[r].phase = "checked" /\ ask.op \in FieldChanges
          /\ UNCHANGED field \/ AtVersion(field[f], request[r].expected)
      BY <1>1, <2>1, <2>7, CommitFieldStep
    <3>2. field[f].version = request[r].expected
      BY <2>2, <3>1 DEF AtVersion
    <3>3. QED
      BY <1>1, <2>1, <2>2, <3>1, <3>2 DEF Stands, FieldStands
  <2>8. QED
    BY <2>3, <2>4, <2>5, <2>6, <2>7
<1>4. CASE ask.op \in OptionOps
  <2>1. PICK o \in Option : o = ask.id
    BY <1>4, AskTyped
  <2>2. Row(ask) = option[o] /\ Row(ask)' = option'[o]
    BY <1>4, <2>1 DEF Row, CategoryOps, FieldOps, OptionOps, ItemOps
  <2>3. PICK w \in Request : CommitOption(w)
    BY <1>1, <2>2, OptionWriter
  <2>4. w = r
    BY <1>1, <2>3, CommitEnds, Answered
  <2>5. /\ request[r].phase = "checked"
        /\ UNCHANGED option \/ AtVersion(field[ask.field], request[r].expected)
    BY <1>1, <2>3, <2>4, CommitOptionStep
  <2>6. ask.op # "createOption"
    BY <1>1, <2>5 DEF Typed, CallsFit, CallFits
  <2>7. field[ask.field].version = request[r].expected /\ ask.op \in OptionChanges
    BY <1>4, <2>2, <2>5, <2>6 DEF AtVersion, OptionOps, OptionChanges
  <2>8. QED
    BY <1>1, <1>4, <2>1, <2>2, <2>5, <2>7 DEF Stands, OptionStands
<1>5. CASE ask.op \in ItemOps
  <2>1. PICK i \in Item : i = ask.id
    BY <1>5, AskTyped
  <2>2. Row(ask) = item[i] /\ Row(ask)' = item'[i]
    BY <1>5, <2>1 DEF Row, CategoryOps, FieldOps, OptionOps, ItemOps
  <2>3. PICK w \in Request : CommitItem(w)
    BY <1>1, <2>2, ItemWriter
  <2>4. w = r
    BY <1>1, <2>3, CommitEnds, Answered
  <2>5. request[r].phase = "planned"
    BY <2>3, <2>4 DEF CommitItem
  <2>6. item[i].version = request[r].expected
    BY <1>1, <2>1, <2>5 DEF Locks
  <2>7. QED
    BY <1>1, <2>1, <2>2, <2>5, <2>6 DEF Stands, ItemStands, OfItem
<1>6. QED
  BY <1>2, <1>3, <1>4, <1>5, AskTyped

(* What a call read without a lock, and shows as the row it replaced, is   *)
(* the row it replaced: the version it compares is as old as the row read. *)
THEOREM CatalogAudit == Spec => AuditChains
<1>1. Init => Kept
  BY InitKept
<1>2. Kept /\ [Next]_vars => Kept'
  BY KeptStep
<1>3. Kept /\ [Next]_vars =>
        [\A r \in Request, ask \in Ask :
           /\ request[r].ask = ask
           /\ request[r].before # NoRow
           /\ request'[r].phase = "done"
           /\ Row(ask)' # Row(ask)
           => request[r].before = Row(ask)]_vars
  BY AuditStep
<1>4. QED
  BY <1>1, <1>2, <1>3, PTL DEF Spec, AuditChains
-----------------------------------------------------------------------------
(* The values a call writes are those of the row it read, where the ask is *)
(* silent and the field applies in its listing.                            *)
MergedAs(q, f) ==
  LET c == IF q.ask.category = NoCategory THEN q.before.category ELSE q.ask.category
  IN  q.values[f] = IF Applies(q.listing.field, f, c)
                    THEN Given(q.ask.values[f], q.before.values[f]) ELSE NoValue

Merges == \A r \in Request : request[r].phase \in OfItem =>
  \A f \in Field : MergedAs(request[r], f)

LEMMA MergesStep ==
  ASSUME Base, Merges, [Next]_vars
  PROVE  Merges'
<1>1. SUFFICES ASSUME NEW r \in Request, request'[r].phase \in OfItem, NEW f \in Field
               PROVE  MergedAs(request'[r], f)
  BY DEF Merges
<1>2. CASE request'[r] = request[r]
  BY <1>1, <1>2 DEF Merges
<1>3. CASE Moves(r) /\ request[r].phase # "new"
  <2>1. Owned(r) \/ PlannedValues(r)
    BY <1>1, <1>3 DEF Moves, CategoryBegun, FieldBegun, OptionBegun, ItemBegun, Begun, Walked,
       WroteCategory, Counted, Continues, OfItem
  <2>2. /\ request[r].phase \in OfItem
        /\ request'[r].ask = request[r].ask /\ request'[r].before = request[r].before
        /\ request'[r].listing = request[r].listing /\ request'[r].values = request[r].values
    BY <2>1 DEF Owned, PlannedValues, Continues, OfItem
  <2>3. QED
    BY <2>2 DEF Merges, MergedAs
<1>4. CASE Moves(r) /\ request[r].phase = "new"
  <2>1. PICK ask \in Ask : ItemBegun(r, ask)
    BY <1>1, <1>4 DEF Moves, CategoryBegun, FieldBegun, OptionBegun, Walked, WroteCategory,
       Counted, Owned, PlannedValues, OfItem
  <2>2. /\ request'[r].ask = ask /\ request'[r].before = item[ask.id]
        /\ request'[r].listing.field = field /\ request'[r].values = Merged(ask)
    BY <2>1 DEF ItemBegun, Begun
  <2>3. Merged(ask)[f] = IF Applies(field, f, CategoryOf(ask))
                         THEN Given(ask.values[f], item[ask.id].values[f]) ELSE NoValue
    BY DEF Merged
  <2>4. QED
    BY <2>2, <2>3 DEF MergedAs, CategoryOf
<1>5. QED
  BY <1>1, <1>2, <1>3, <1>4, CallMoves DEF OfItem, Outside

KeptMerges == Kept /\ Merges

LEMMA KeptMergesStep ==
  ASSUME KeptMerges, [Next]_vars
  PROVE  KeptMerges'
  BY KeptStep, MergesStep DEF KeptMerges, Kept

LEMMA InitKeptMerges ==
  ASSUME Init
  PROVE  KeptMerges
<1>1. \A r \in Request : request[r].phase = "new"
  BY NewCallTyped DEF Init
<1>2. QED
  BY <1>1, InitKept DEF KeptMerges, Merges, OfItem

LEMMA UnaddressedStep ==
  ASSUME KeptMerges, [Next]_vars, NEW r \in Request, NEW ask \in Ask, request[r].ask = ask,
         ask.op = "updateItem", item'[ask.id] # item[ask.id], request'[r].phase = "done",
         NEW f \in Field, ask.values[f] = Undefined,
         Applies(request[r].listing.field, f, item'[ask.id].category)
  PROVE  item'[ask.id].values[f] = item[ask.id].values[f]
<1>1. Base /\ Stands /\ Locks /\ Typed
  BY DEF KeptMerges, Kept, Base
<1>2. PICK i \in Item : i = ask.id
  BY AskTyped DEF ItemOps
<1>3. PICK w \in Request : CommitItem(w)
  BY <1>1, <1>2, ItemWriter
<1>4. w = r
  BY <1>1, <1>3, CommitEnds, Answered
<1>5. request[r].phase = "planned"
  BY <1>3, <1>4 DEF CommitItem
<1>6. CategoryOf(ask) \in Category
  BY <1>1, <1>5, CallPlaced DEF OfItem
<1>7. PICK row \in ItemRow : /\ item' = [item EXCEPT ![i] = row]
                             /\ row.category = CategoryOf(ask)
                             /\ row.values = request[r].values
  BY <1>1, <1>2, <1>3, <1>4, <1>6, CommitItemStep
<1>8. item'[i] = row
  BY <1>1, <1>7 DEF Typed, TypeOK
<1>9. request[r].before = item[i]
  BY <1>1, <1>2, <1>5 DEF Locks, Stands, ItemStands, OfItem
<1>10. MergedAs(request[r], f)
  BY <1>5 DEF KeptMerges, Merges, OfItem
<1>11. request[r].values[f] = Given(ask.values[f], item[i].values[f])
  BY <1>2, <1>7, <1>8, <1>9, <1>10 DEF MergedAs, CategoryOf
<1>12. QED
  BY <1>2, <1>7, <1>8, <1>11 DEF Given

(* Of two editors of an item neither erases what the other wrote: values   *)
(* an update does not address are those of the row it replaces, although   *)
(* it read them before its transaction.                                    *)
THEOREM CatalogKeepsValues == Spec => KeepsUnaddressed
<1>1. KeptMerges /\ [Next]_vars =>
        [\A r \in Request, ask \in Ask :
           /\ request[r].ask = ask
           /\ ask.op = "updateItem"
           /\ item'[ask.id] # item[ask.id]
           /\ request'[r].phase = "done"
           => \A f \in Field :
                ask.values[f] = Undefined
                /\ Applies(request[r].listing.field, f, item'[ask.id].category)
                  => item'[ask.id].values[f] = item[ask.id].values[f]]_vars
  BY UnaddressedStep
<1>2. QED
  BY InitKeptMerges, KeptMergesStep, <1>1, PTL DEF Spec, KeepsUnaddressed
-----------------------------------------------------------------------------
(* Options in use belong to a select, and a conversion away from one has   *)
(* found none: while its version stands none comes into use.               *)
OptionsPlaced == \A o \in Option :
  IF option[o].state = "absent" THEN ~option[o].renamed
  ELSE /\ option[o].field \in Field
       /\ field[option[o].field].state # "absent"
       /\ option[o].state = "active" => field[option[o].field].type = "select"

Converting(r) ==
  /\ request[r].phase \in {"counting", "checked"}
  /\ request[r].ask.op \in FieldChanges
  /\ Converts(request[r].ask, request[r].before)

ConvertsUnused == \A r \in Request :
  /\ Converting(r)
  /\ request[r].expected = field[request[r].ask.id].version
  /\ request[r].before.type = "select"
  => \A o \in Option : option[o].state = "active" => option[o].field # request[r].ask.id

(* A committed change of a definition, and how its type may change.        *)
LEMMA FieldCommitted ==
  ASSUME Kept, NEW r \in Request, CommitField(r), NEW f \in Field, f = request[r].ask.id,
         field'[f] # field[f]
  PROVE  /\ request[r].before = field[f]
         /\ request[r].expected = field[f].version
         /\ field[f].state = "active"
         /\ field'[f].version = field[f].version + 1
         /\ field'[f] = FieldAfter(request[r].ask, field[f], field[f])
         /\ ~Converting(r) => field'[f].type = field[f].type
         /\ Reindexed(field[f], field'[f]) => <<f, field'[f].version>> \in owed'
<1>1. Typed /\ Stands
  BY DEF Kept, Base
<1>2. PICK ask : ask = request[r].ask
  OBVIOUS
<1>3. /\ request[r].phase = "checked" /\ ask \in Ask /\ ask.op \in FieldChanges
      /\ field[f] \in FieldRow
      /\ AtVersion(field[f], request[r].expected)
      /\ field' = [field EXCEPT ![f] = FieldAfter(ask, field[f], request[r].before)]
      /\ Reindexed(request[r].before, FieldAfter(ask, field[f], request[r].before))
           => <<f, field[f].version + 1>> \in owed'
  BY <1>1, <1>2, CommitFieldStep
<1>4. /\ field'[f] = FieldAfter(ask, field[f], request[r].before)
      /\ request[r].expected = field[f].version /\ field[f].state = "active"
  BY <1>1, <1>3 DEF Typed, TypeOK, AtVersion
<1>5. request[r].before = field[f]
  BY <1>1, <1>2, <1>3, <1>4 DEF Stands, FieldStands
<1>6. /\ FieldAfter(ask, field[f], field[f]).version = field[f].version + 1
      /\ ~Converts(ask, field[f]) => FieldAfter(ask, field[f], field[f]).type = field[f].type
  BY <1>3, FieldChanged
<1>7. QED
  BY <1>2, <1>3, <1>4, <1>5, <1>6 DEF Converting

LEMMA OptionCommitted ==
  ASSUME Kept, NEW r \in Request, CommitOption(r), NEW o \in Option, o = request[r].ask.id,
         option'[o] # option[o] \/ field' # field
  PROVE  LET f == request[r].ask.field
         IN  /\ f \in Field
             /\ field[f].version = request[r].expected /\ field[f].state = "active"
             /\ field'[f].version = field[f].version + 1
             /\ field'[f].type = field[f].type /\ field'[f].state = "active"
             /\ field'[f].visibility = field[f].visibility
             /\ option'[o].field = f /\ option'[o].state # "absent"
             /\ \/ /\ option[o].state = "absent" /\ option'[o].state = "active"
                   /\ ~option'[o].renamed /\ field[f].type = "select"
                \/ /\ option[o].state = "active" /\ option[o].field = f
                   /\ option'[o].renamed # option[o].renamed
                        => <<o, field'[f].version>> \in owed'
<1>1. Typed /\ Stands /\ Placed
  BY DEF Kept, Base
<1>2. PICK ask : ask = request[r].ask
  OBVIOUS
<1>3. /\ request[r].phase = "checked" /\ ask \in Ask /\ ask.op \in OptionOps
      /\ ask.field \in Field
      /\ AtVersion(field[ask.field], request[r].expected)
      /\ OptionBumped(ask)
  BY <1>1, <1>2, CommitOptionStep
<1>4. PICK definition \in FieldRow, row \in OptionRow :
        /\ field' = [field EXCEPT ![ask.field] = definition]
        /\ definition.version = field[ask.field].version + 1
        /\ definition.state = "active"
        /\ definition.type = field[ask.field].type
        /\ definition.visibility = field[ask.field].visibility
        /\ option' = [option EXCEPT ![o] = row]
        /\ \/ /\ ask.op = "createOption"
              /\ option[o].state = "absent"
              /\ row.state = "active" /\ row.field = ask.field /\ ~row.renamed
           \/ /\ ask.op \in OptionChanges
              /\ option[o].state = "active"
              /\ row.state # "absent" /\ row.field = option[o].field
              /\ row.renamed # option[o].renamed => <<o, definition.version>> \in owed'
  BY <1>2, <1>3 DEF OptionBumped
<1>5. field'[ask.field] = definition /\ option'[o] = row
  BY <1>1, <1>3, <1>4 DEF Typed, TypeOK
<1>6. field[ask.field].version = request[r].expected /\ field[ask.field].state = "active"
  BY <1>3 DEF AtVersion
<1>7. ask.op = "createOption" => field[ask.field].type = "select"
  BY <1>1, <1>2, <1>3, <1>6 DEF Stands, OptionStands
<1>8. ask.op \in OptionChanges => option[o].field = ask.field
  BY <1>1, <1>2, <1>3 DEF Placed
<1>9. /\ row.field = ask.field /\ row.state # "absent"
      /\ \/ /\ option[o].state = "absent" /\ row.state = "active"
            /\ ~row.renamed /\ field[ask.field].type = "select"
         \/ /\ option[o].state = "active" /\ option[o].field = ask.field
            /\ row.renamed # option[o].renamed => <<o, definition.version>> \in owed'
  BY <1>4, <1>7, <1>8
<1>10. QED
  BY <1>2, <1>3, <1>4, <1>5, <1>6, <1>9

(* What changes of a definition that some option, or value, refers to.     *)
LEMMA FieldEvolves ==
  ASSUME Kept, [Next]_vars, NEW f \in Field, field'[f] # field[f], field[f].state # "absent"
  PROVE  \/ \E r \in Request : CommitField(r) /\ request[r].ask.id = f
         \/ /\ field'[f].type = field[f].type /\ field'[f].visibility = field[f].visibility
            /\ field'[f].state = "active" /\ field[f].state = "active"
            /\ \E r \in Request : CommitOption(r) /\ request[r].ask.field = f
<1>1. Base
  BY DEF Kept
<1>2. CASE \E r \in Request : CommitField(r) /\ request[r].ask.id = f
  BY <1>2
<1>3. CASE \E r \in Request : CommitOption(r) /\ request[r].ask.field = f
  <2>1. PICK r \in Request : CommitOption(r) /\ request[r].ask.field = f
    BY <1>3
  <2>2. PICK o \in Option : o = request[r].ask.id
    BY <1>1, <2>1, CommitOptionStep DEF Base
  <2>3. /\ field'[f].type = field[f].type /\ field'[f].visibility = field[f].visibility
        /\ field'[f].state = "active" /\ field[f].state = "active"
    BY <2>1, <2>2, OptionCommitted
  <2>4. QED
    BY <2>1, <2>3
<1>4. QED
  BY <1>1, <1>2, <1>3, FieldWriter
(* A definition that changes has a new version, and owes what it shows.    *)
LEMMA FieldChanging ==
  ASSUME Kept, [Next]_vars, NEW f \in Field, field'[f] # field[f], field[f].state # "absent"
  PROVE  /\ field[f].state = "active" /\ field'[f].version = field[f].version + 1
         /\ Reindexed(field[f], field'[f]) => <<f, field'[f].version>> \in owed'
         /\ \/ field'[f].type = field[f].type
            \/ \E r \in Request :
                 /\ Converting(r) /\ request[r].phase = "checked" /\ request[r].ask.id = f
                 /\ request[r].expected = field[f].version /\ request[r].before = field[f]
<1>1. Typed
  BY DEF Kept, Base
<1>2. CASE \E r \in Request : CommitField(r) /\ request[r].ask.id = f
  BY <1>2, FieldCommitted DEF CommitField
<1>3. CASE \E r \in Request : CommitOption(r) /\ request[r].ask.field = f
  <2>1. PICK r \in Request : CommitOption(r) /\ request[r].ask.field = f
    BY <1>3
  <2>2. PICK o \in Option : o = request[r].ask.id
    BY <1>1, <2>1, CommitOptionStep
  <2>3. /\ field[f].state = "active" /\ field'[f].version = field[f].version + 1
        /\ field'[f].type = field[f].type /\ field'[f].state = "active"
        /\ field'[f].visibility = field[f].visibility
    BY <2>1, <2>2, OptionCommitted
  <2>4. QED
    BY <2>3 DEF Reindexed
<1>4. QED
  BY <1>2, <1>3, FieldWriter DEF Kept

(* An option that changes belongs to an active definition, whose version   *)
(* is new and whose type is not.                                           *)
LEMMA OptionChanging ==
  ASSUME Kept, [Next]_vars, NEW o \in Option, option'[o] # option[o]
  PROVE  \E f \in Field :
           /\ option'[o].field = f /\ option'[o].state # "absent"
           /\ field[f].state = "active" /\ field'[f].state = "active"
           /\ field'[f].version = field[f].version + 1
           /\ field'[f].type = field[f].type
           /\ \/ /\ option[o].state = "absent" /\ ~option'[o].renamed
                 /\ field[f].type = "select"
              \/ /\ option[o].state = "active" /\ option[o].field = f
                 /\ option'[o].renamed # option[o].renamed => <<o, field'[f].version>> \in owed'
<1>1. PICK r \in Request : request[r].ask.id = o /\ CommitOption(r)
  BY OptionWriter DEF Kept
<1>2. PICK f : f = request[r].ask.field
  OBVIOUS
<1>3. QED
  BY <1>1, <1>2, OptionCommitted

LEMMA OptionsPlacedStep ==
  ASSUME Kept, OptionsPlaced, ConvertsUnused, [Next]_vars
  PROVE  OptionsPlaced'
<1>1. Grows
  BY StepGrows DEF Kept
<1>2. ASSUME NEW o \in Option
      PROVE  IF option'[o].state = "absent" THEN ~option'[o].renamed
             ELSE /\ option'[o].field \in Field
                  /\ field'[option'[o].field].state # "absent"
                  /\ option'[o].state = "active" => field'[option'[o].field].type = "select"
  <2>1. CASE option'[o] = option[o] /\ option[o].state = "absent"
    BY <2>1 DEF OptionsPlaced
  <2>2. CASE option'[o] = option[o] /\ option[o].state # "absent"
    <3>1. PICK f \in Field : f = option[o].field
      BY <2>2 DEF OptionsPlaced
    <3>2. /\ field[f].state # "absent"
          /\ option[o].state = "active" => field[f].type = "select"
      BY <2>2, <3>1 DEF OptionsPlaced
    <3>3. field'[f].state # "absent"
      BY <1>1, <3>2 DEF Grows, FieldGrows
    <3>4. ASSUME option[o].state = "active", field'[f].type # "select" PROVE FALSE
      <4>1. PICK r \in Request :
              /\ Converting(r) /\ request[r].ask.id = f
              /\ request[r].expected = field[f].version /\ request[r].before = field[f]
        BY <3>2, <3>4, FieldChanging
      <4>2. QED
        BY <3>1, <3>2, <3>4, <4>1 DEF ConvertsUnused
    <3>5. QED
      BY <2>2, <3>1, <3>3, <3>4
  <2>3. CASE option'[o] # option[o]
    <3>1. PICK f \in Field :
            /\ option'[o].field = f /\ option'[o].state # "absent"
            /\ field[f].state = "active" /\ field'[f].state = "active"
            /\ field'[f].type = field[f].type
            /\ field[f].type = "select" \/ (option[o].state = "active" /\ option[o].field = f)
      BY <2>3, OptionChanging
    <3>2. field[f].type = "select"
      BY <3>1 DEF OptionsPlaced
    <3>3. QED
      BY <3>1, <3>2
  <2>4. QED
    BY <2>1, <2>2, <2>3
<1>3. QED
  BY <1>2 DEF OptionsPlaced

LEMMA ConvertsUnusedStep ==
  ASSUME Kept, ConvertsUnused, [Next]_vars
  PROVE  ConvertsUnused'
<1>1. Grows /\ Typed /\ Typed' /\ Base /\ Stands
  BY StepGrows DEF Kept, Base
<1>2. SUFFICES ASSUME NEW r \in Request, Converting(r)',
                      request'[r].expected = field'[request'[r].ask.id].version,
                      request'[r].before.type = "select"
               PROVE  \A o \in Option :
                        option'[o].state = "active" => option'[o].field # request'[r].ask.id
  BY DEF ConvertsUnused, Converting, Converts
<1>a. request'[r].ask \in Ask /\ request'[r].ask.op \in FieldOps
  BY <1>1, <1>2 DEF Typed, CallsFit, CallFits, Converting, FieldChanges, FieldOps, Outside
<1>3. PICK f \in Field : f = request'[r].ask.id
  BY <1>a, AskTyped
<1>4. CASE request'[r] = request[r]
  <2>1. Converting(r)
    BY <1>2, <1>4 DEF Converting, Converts
  <2>2. field[f].version \in Nat /\ field'[f].version \in Nat /\ request[r].expected \in Nat
    BY <1>1, <1>3 DEF Typed, TypeOK, FieldRow, Call
  <2>3. request[r].expected <= field[f].version
    BY <1>1, <1>3, <1>4, <2>1 DEF Stands, FieldStands, Converting
  <2>4. field'[f] = field[f]
    BY <1>1, <1>2, <1>3, <1>4, <2>2, <2>3 DEF Grows, FieldGrows
  <2>5. \A o \in Option : option[o].state = "active" => option[o].field # f
    BY <1>2, <1>3, <1>4, <2>1, <2>4 DEF ConvertsUnused
  <2>6. ASSUME NEW o \in Option, option'[o].field = f, option'[o].state = "active" PROVE FALSE
    <3>1. option'[o] # option[o]
      BY <2>5, <2>6
    <3>2. field'[f].version > field[f].version
      BY <1>1, <2>6, <3>1 DEF Grows, OptionGrows
    <3>3. QED
      BY <2>2, <2>4, <3>2
  <2>7. QED
    BY <1>3, <2>6
<1>5. CASE Moves(r)
  <2>1. UNCHANGED <<field, option>>
    BY <1>5, MoveShapes
  <2>2. ASSUME NEW ask \in Ask, FieldBegun(r, ask)
        PROVE  \A o \in Option : option[o].state = "active" => option[o].field # f
    <3>1. request'[r].ask = ask /\ request'[r].before = field[f] /\ f = ask.id
      BY <1>2, <1>3, <2>2 DEF FieldBegun, Begun, Converting, FieldChanges
    <3>2. Convertible(f, ask.to.type)
      BY <1>2, <2>2, <3>1 DEF FieldBegun, Converting, Converts, FieldChanges
    <3>3. QED
      BY <1>2, <3>1, <3>2 DEF Convertible, ActiveOptions
  <2>3. ASSUME Counted(r)
        PROVE  \A o \in Option : option[o].state = "active" => option[o].field # f
    <3>1. Converting(r) /\ request[r].ask.id = f /\ request[r].before.type = "select"
      BY <1>2, <1>3, <2>3 DEF Counted, Continues, Converting, Converts
    <3>2. request[r].expected = field[f].version
      BY <1>2, <1>3, <2>1, <2>3 DEF Counted, Continues
    <3>3. QED
      BY <3>1, <3>2 DEF ConvertsUnused
  <2>4. Counted(r) \/ \E ask \in Ask : FieldBegun(r, ask)
    <3>1. ASSUME NEW ask \in Ask, CategoryBegun(r, ask) \/ OptionBegun(r, ask) \/ ItemBegun(r, ask)
          PROVE  FALSE
      BY <1>2, <3>1 DEF Converting, CategoryBegun, OptionBegun, ItemBegun, Begun, CategoryChanges,
         FieldChanges, OptionChanges, ItemOps
    <3>2. ~Walked(r)
      BY <1>1, <1>2, CallAsks DEF Converting, Walked, Continues, Outside, CategoryChanges,
         FieldChanges
    <3>3. ~WroteCategory(r) /\ ~Owned(r) /\ ~PlannedValues(r)
      BY <1>2 DEF Converting, WroteCategory, Owned, PlannedValues, Continues
    <3>4. QED
      BY <1>5, <3>1, <3>2, <3>3 DEF Moves
  <2>5. QED
    BY <1>3, <2>1, <2>2, <2>3, <2>4
<1>6. QED
  BY <1>1, <1>2, <1>4, <1>5, CallMoves DEF Outside, Converting
KeptOptions == Kept /\ OptionsPlaced /\ ConvertsUnused

LEMMA KeptOptionsStep ==
  ASSUME KeptOptions, [Next]_vars
  PROVE  KeptOptions'
  BY KeptStep, OptionsPlacedStep, ConvertsUnusedStep DEF KeptOptions

LEMMA InitSettled ==
  ASSUME Init
  PROVE  /\ \A r \in Request : request[r].phase = "new"
         /\ owed = {} /\ raced = {}
         /\ Sound(category, field, option, item) /\ Settled(category, field, option, item)
<1>1. PICK first \in Beginning :
        category = first.category /\ field = first.field /\ option = first.option
          /\ item = first.item
  BY DEF Init
<1>2. Sound(category, field, option, item) /\ Settled(category, field, option, item)
  BY <1>1, BeginningAssumption
<1>3. QED
  BY <1>2, NewCallTyped DEF Init

LEMMA InitKeptOptions ==
  ASSUME Init
  PROVE  KeptOptions
<1>1. Kept /\ \A r \in Request : request[r].phase = "new"
  BY InitKept, InitSettled
<1>2. OptionsPlaced
  BY InitSettled DEF OptionsPlaced, Sound, Settled
<1>3. QED
  BY <1>1, <1>2 DEF KeptOptions, ConvertsUnused, Converting

(* Only a select has options in use, for any calls: the creation of one    *)
(* and the conversion of its field both compare the field's version.       *)
THEOREM CatalogOptions == Spec => []OptionsFitType
<1>1. KeptOptions => OptionsFitType
  BY DEF KeptOptions, OptionsPlaced, OptionsFitType, ActiveOptions
<1>2. QED
  BY InitKeptOptions, KeptOptionsStep, <1>1, PTL DEF Spec
-----------------------------------------------------------------------------
(* What values refer to, what an item is named by and what a call listed   *)
(* stays, or is owed a rebuild.                                            *)
Owes(id, version) == \E m \in owed : m[1] = id /\ m[2] > version

Refers(values) == \A f \in Field : values[f] # NoValue =>
  /\ field[f].state # "absent"
  /\ values[f] \in Option => option[values[f]].state # "absent" /\ option[values[f]].field = f

Named(c, name) ==
  /\ category[c].state # "absent" /\ name.version <= category[c].version
  /\ category[c].template # name.template => Owes(c, name.version)

ListsOption(listing, o) ==
  IF option[o].state = "absent" THEN ~listing.option[o].renamed
  ELSE listing.option[o].renamed # option[o].renamed
         => \E f \in Field :
              option[o].field = f /\ Owes(o, listing.field[f].version)

Lists(listing) ==
  /\ \A f \in Field :
       /\ listing.field[f].version <= field[f].version
       /\ listing.field[f].state # "absent" =>
            /\ field[f].state # "absent"
            /\ Reindexed(listing.field[f], field[f]) => Owes(f, listing.field[f].version)
  /\ \A o \in Option : ListsOption(listing, o)

Shows(shown, values) ==
  /\ \A f \in Field :
       /\ shown[f].version <= field[f].version
       /\ shown[f].exposure # Exposed(field[f], values[f]) => Owes(f, shown[f].version)
       /\ values[f] \in Option /\ option[values[f]].renamed # shown[f].renamed
            => Owes(values[f], shown[f].version)

LEMMA OwesStill ==
  ASSUME owed \subseteq owed', NEW id, NEW version, Owes(id, version)
  PROVE  Owes(id, version)'
  BY DEF Owes

LEMMA OwesNew ==
  ASSUME NEW id, NEW version, NEW new, <<id, new>> \in owed', new > version
  PROVE  Owes(id, version)'
  BY DEF Owes

(* A category that changes has a new version, and owes what items show.    *)
LEMMA CategoryChanging ==
  ASSUME Kept, [Next]_vars, NEW c \in Category, category'[c] # category[c],
         category[c].state # "absent"
  PROVE  /\ category'[c].version = category[c].version + 1
         /\ category'[c].template # category[c].template
              => <<c, category'[c].version>> \in owed'
<1>1. Typed
  BY DEF Kept, Base
<1>2. PICK r \in Request : request[r].ask.id = c /\ CommitCategory(r)
  BY CategoryWriter DEF Kept
<1>3. PICK ask : ask = request[r].ask
  OBVIOUS
<1>4. /\ ask \in Ask /\ ask.op \in CategoryChanges /\ category[c] \in CategoryRow
      /\ category' = [category EXCEPT ![c] = CategoryAfter(ask, category[c])]
      /\ CategoryAfter(ask, category[c]).template # category[c].template
           => <<c, category[c].version + 1>> \in owed'
  BY <1>1, <1>2, <1>3, CommitCategoryStep
<1>5. category'[c] = CategoryAfter(ask, category[c])
  BY <1>1, <1>4 DEF Typed, TypeOK
<1>6. CategoryAfter(ask, category[c]).version = category[c].version + 1
  BY <1>4, CategoryChanged
<1>7. QED
  BY <1>4, <1>5, <1>6

LEMMA RefersStill ==
  ASSUME Grows, NEW values, Refers(values)
  PROVE  Refers(values)'
  BY DEF Grows, FieldGrows, OptionGrows, Refers

LEMMA NamedStill ==
  ASSUME Kept, [Next]_vars, NEW c \in Category, NEW name, name.version \in Nat, Named(c, name)
  PROVE  Named(c, name)'
<1>1. Grows /\ Typed /\ Typed'
  BY StepGrows DEF Kept, Base
<1>2. category[c].version \in Nat /\ category'[c].version \in Nat
  BY <1>1 DEF Typed, TypeOK, CategoryRow
<1>3. owed \subseteq owed'
  BY <1>1 DEF Grows
<1>4. CASE category'[c] = category[c]
  BY <1>3, <1>4, OwesStill DEF Named
<1>5. CASE category'[c] # category[c]
  <2>1. /\ category[c].state # "absent"
        /\ category'[c].state # "absent" /\ category'[c].version > category[c].version
    BY <1>1, <1>5 DEF Named, Grows, CategoryGrows
  <2>2. category'[c].version > name.version
    BY <1>2, <2>1 DEF Named
  <2>3. ASSUME category'[c].template # name.template PROVE Owes(c, name.version)'
    <3>1. CASE category'[c].template = category[c].template
      BY <1>3, <2>3, <3>1, OwesStill DEF Named
    <3>2. CASE category'[c].template # category[c].template
      BY <1>5, <2>1, <2>2, <3>2, CategoryChanging, OwesNew
    <3>3. QED
      BY <3>1, <3>2
  <2>4. QED
    BY <1>2, <2>1, <2>2, <2>3 DEF Named
<1>6. QED
  BY <1>4, <1>5
LEMMA ListsStill ==
  ASSUME Kept, [Next]_vars, NEW listing \in Listing, Lists(listing)
  PROVE  Lists(listing)'
<1>1. Grows /\ Typed /\ Typed' /\ owed \subseteq owed'
  BY StepGrows DEF Kept, Base, Grows
<1>2. ASSUME NEW f \in Field
      PROVE  /\ field[f].version \in Nat /\ field'[f].version \in Nat
             /\ listing.field[f].version \in Nat
             /\ listing.field[f].version <= field'[f].version
             /\ field'[f] # field[f] =>
                  /\ field'[f].version > listing.field[f].version
                  /\ field'[f].state # "absent"
  <2>1. /\ field[f].version \in Nat /\ field'[f].version \in Nat
        /\ listing.field[f].version \in Nat
    BY <1>1 DEF Typed, TypeOK, FieldRow, Listing
  <2>2. listing.field[f].version <= field[f].version
    BY DEF Lists
  <2>3. QED
    BY <1>1, <2>1, <2>2 DEF Grows, FieldGrows
<1>3. ASSUME NEW f \in Field, listing.field[f].state # "absent"
      PROVE  /\ field'[f].state # "absent"
             /\ Reindexed(listing.field[f], field'[f]) => Owes(f, listing.field[f].version)'
  <2>1. /\ field[f].state # "absent"
        /\ Reindexed(listing.field[f], field[f]) => Owes(f, listing.field[f].version)
    BY <1>3 DEF Lists
  <2>2. CASE field'[f] = field[f]
    BY <1>1, <2>1, <2>2, OwesStill
  <2>3. CASE field'[f] # field[f]
    <3>1. field'[f].state # "absent" /\ field'[f].version > listing.field[f].version
      BY <1>2, <2>3
    <3>2. CASE Reindexed(field[f], field'[f])
      <4>1. <<f, field'[f].version>> \in owed'
        BY <2>1, <2>3, <3>2, FieldChanging
      <4>2. QED
        BY <3>1, <4>1, OwesNew
    <3>3. CASE ~Reindexed(field[f], field'[f])
      <4>1. Reindexed(listing.field[f], field'[f]) => Reindexed(listing.field[f], field[f])
        BY <3>3 DEF Reindexed
      <4>2. QED
        BY <1>1, <2>1, <3>1, <4>1, OwesStill
    <3>4. QED
      BY <3>2, <3>3
  <2>4. QED
    BY <2>2, <2>3
<1>4. ASSUME NEW o \in Option
      PROVE  ListsOption(listing, o)'
  <2>1. /\ listing.option[o].renamed \in BOOLEAN /\ option'[o].renamed \in BOOLEAN
    BY <1>1 DEF Typed, TypeOK, OptionRow, Listing
  <2>2. CASE option'[o] = option[o]
    <3>1. CASE option[o].state = "absent" \/ listing.option[o].renamed = option[o].renamed
      BY <2>2, <3>1 DEF Lists, ListsOption
    <3>2. CASE option[o].state # "absent" /\ listing.option[o].renamed # option[o].renamed
      <4>1. PICK f \in Field : option[o].field = f /\ Owes(o, listing.field[f].version)
        BY <3>2 DEF Lists, ListsOption
      <4>2. Owes(o, listing.field[f].version)'
        BY <1>1, <4>1, OwesStill
      <4>3. QED
        BY <2>2, <3>2, <4>1, <4>2 DEF ListsOption
    <3>3. QED
      BY <3>1, <3>2
  <2>3. CASE option'[o] # option[o]
    <3>1. PICK f \in Field :
            /\ option'[o].field = f /\ option'[o].state # "absent"
            /\ field'[f].version = field[f].version + 1
            /\ \/ option[o].state = "absent" /\ ~option'[o].renamed
               \/ /\ option[o].state = "active" /\ option[o].field = f
                  /\ option'[o].renamed # option[o].renamed => <<o, field'[f].version>> \in owed'
      BY <2>3, OptionChanging
    <3>2. field'[f].version > listing.field[f].version
      BY <1>2, <3>1
    <3>3. CASE option[o].state = "absent"
      <4>1. ~listing.option[o].renamed /\ ~option'[o].renamed
        BY <3>1, <3>3 DEF Lists, ListsOption
      <4>2. QED
        BY <2>1, <3>1, <4>1 DEF ListsOption
    <3>4. CASE option[o].state # "absent" /\ option'[o].renamed # option[o].renamed
      <4>1. Owes(o, listing.field[f].version)'
        BY <3>1, <3>2, <3>4, OwesNew
      <4>2. QED
        BY <3>1, <4>1 DEF ListsOption
    <3>5. CASE option[o].state # "absent" /\ option'[o].renamed = option[o].renamed
      <4>1. listing.option[o].renamed # option[o].renamed => Owes(o, listing.field[f].version)
        BY <3>1, <3>5 DEF Lists, ListsOption
      <4>2. listing.option[o].renamed # option[o].renamed => Owes(o, listing.field[f].version)'
        BY <1>1, <4>1, OwesStill
      <4>3. QED
        BY <3>1, <3>5, <4>2 DEF ListsOption
    <3>6. QED
      BY <3>3, <3>4, <3>5
  <2>4. QED
    BY <2>2, <2>3
<1>5. QED
  BY <1>2, <1>3, <1>4 DEF Lists

LEMMA ShowsStill ==
  ASSUME Kept, [Next]_vars, NEW shown \in [Field -> Shown],
         NEW values \in [Field -> Value \cup {NoValue}], Refers(values), Shows(shown, values)
  PROVE  Shows(shown, values)'
<1>1. Grows /\ Typed /\ Typed' /\ owed \subseteq owed'
  BY StepGrows DEF Kept, Base, Grows
<1>2. ASSUME NEW f \in Field
      PROVE  /\ shown[f].version <= field'[f].version
             /\ field'[f] # field[f] => field'[f].version > shown[f].version
             /\ shown[f].version \in Nat
  <2>1. field[f].version \in Nat /\ field'[f].version \in Nat /\ shown[f].version \in Nat
    BY <1>1 DEF Typed, TypeOK, FieldRow, Shown
  <2>2. shown[f].version <= field[f].version
    BY DEF Shows
  <2>3. QED
    BY <1>1, <2>1, <2>2 DEF Grows, FieldGrows
<1>3. ASSUME NEW f \in Field, shown[f].exposure # Exposed(field'[f], values[f])
      PROVE  Owes(f, shown[f].version)'
  <2>1. CASE Exposed(field'[f], values[f]) = Exposed(field[f], values[f])
    BY <1>1, <1>3, <2>1, OwesStill DEF Shows
  <2>2. CASE Exposed(field'[f], values[f]) # Exposed(field[f], values[f])
    <3>1. values[f] # NoValue /\ field'[f] # field[f] /\ Reindexed(field[f], field'[f])
      BY <2>2 DEF Exposed, Reindexed
    <3>2. field[f].state # "absent"
      BY <3>1 DEF Refers
    <3>3. <<f, field'[f].version>> \in owed'
      BY <3>1, <3>2, FieldChanging
    <3>4. QED
      BY <1>2, <3>1, <3>3, OwesNew
  <2>3. QED
    BY <2>1, <2>2
<1>4. ASSUME NEW f \in Field, values[f] \in Option, option'[values[f]].renamed # shown[f].renamed
      PROVE  Owes(values[f], shown[f].version)'
  <2>1. PICK o \in Option : o = values[f]
    BY <1>4
  <2>2. option[o].state # "absent" /\ option[o].field = f
    BY <2>1, NullAssumption DEF Refers
  <2>3. CASE option'[o].renamed = option[o].renamed
    BY <1>1, <1>4, <2>1, <2>3, OwesStill DEF Shows
  <2>4. CASE option'[o].renamed # option[o].renamed
    <3>1. /\ field'[f].version = field[f].version + 1
          /\ <<o, field'[f].version>> \in owed'
      BY <2>2, <2>4, OptionChanging
    <3>2. field'[f].version > shown[f].version
      BY <1>1, <1>2, <3>1 DEF Typed, TypeOK, FieldRow
    <3>3. QED
      BY <2>1, <3>1, <3>2, OwesNew
  <2>5. QED
    BY <2>3, <2>4
<1>5. QED
  BY <1>2, <1>3, <1>4 DEF Shows
(* What an item will show, by the listing it is made from.                 *)
LEMMA ProjectedShows ==
  ASSUME TypeOK, NEW listing \in Listing, NEW values \in [Field -> Value \cup {NoValue}],
         Lists(listing), Refers(values),
         \A f \in Field : values[f] # NoValue => listing.field[f].state = "active"
  PROVE  Shows(Projected(listing, values), values)
<1>1. ASSUME NEW f \in Field, NEW shown, shown = Projected(listing, values)[f]
      PROVE  /\ shown.version <= field[f].version
             /\ shown.exposure # Exposed(field[f], values[f]) => Owes(f, shown.version)
             /\ values[f] \in Option /\ option[values[f]].renamed # shown.renamed
                  => Owes(values[f], shown.version)
  <2>1. /\ shown.exposure = IF values[f] = NoValue THEN "private" ELSE listing.field[f].visibility
        /\ shown.renamed = (values[f] \in Option /\ listing.option[values[f]].renamed)
        /\ shown.version = listing.field[f].version
    BY <1>1 DEF Projected
  <2>2. shown.version <= field[f].version
    BY <2>1 DEF Lists
  <2>3. ASSUME shown.exposure # Exposed(field[f], values[f]) PROVE Owes(f, shown.version)
    <3>1. values[f] # NoValue /\ shown.exposure = listing.field[f].visibility
      BY <2>1, <2>3 DEF Exposed
    <3>2. listing.field[f].state = "active"
      BY <3>1
    <3>3. Reindexed(listing.field[f], field[f])
      BY <2>3, <3>1, <3>2 DEF Exposed, Reindexed
    <3>4. QED
      BY <2>1, <3>2, <3>3 DEF Lists
  <2>4. ASSUME values[f] \in Option, option[values[f]].renamed # shown.renamed
        PROVE  Owes(values[f], shown.version)
    <3>1. PICK o \in Option : o = values[f]
      BY <2>4
    <3>2. option[o].state # "absent" /\ option[o].field = f
      BY <3>1, NullAssumption DEF Refers
    <3>3. listing.option[o].renamed \in BOOLEAN /\ option[o].renamed \in BOOLEAN
      BY DEF TypeOK, OptionRow, Listing
    <3>4. listing.option[o].renamed # option[o].renamed
      BY <2>1, <2>4, <3>1, <3>3
    <3>5. Owes(o, listing.field[f].version)
      BY <3>2, <3>4 DEF Lists, ListsOption
    <3>6. QED
      BY <2>1, <3>1, <3>5
  <2>5. QED
    BY <2>2, <2>3, <2>4
<1>2. QED
  BY <1>1 DEF Shows

ItemProjects(i) ==
  /\ Refers(item[i].values)
  /\ Shows(item[i].shown, item[i].values)
  /\ item[i].present => Named(item[i].category, item[i].name)

ItemsProject == \A i \in Item : ItemProjects(i)

CallProjects(r) ==
  /\ request[r].phase \in OfItem => Lists(request[r].listing)
  /\ request[r].phase \in {"owned", "planned"} =>
       Named(CategoryOf(request[r].ask), request[r].name)
  /\ request[r].phase = "planned" => Refers(request[r].values)

CallsProject == \A r \in Request : CallProjects(r)

(* A call projects what it holds of the schema.                            *)
Projects == KeptOptions /\ Merges /\ ItemsProject /\ CallsProject

LEMMA ItemsProjectStep ==
  ASSUME Projects, [Next]_vars
  PROVE  ItemsProject'
<1>1. Kept /\ Base /\ Typed /\ Typed' /\ Grows
  BY StepGrows DEF Projects, KeptOptions, Kept, Base
<1>2. SUFFICES ASSUME NEW i \in Item PROVE ItemProjects(i)'
  BY DEF ItemsProject
<1>3. PICK row \in ItemRow : row = item'[i]
  BY <1>1 DEF Typed, TypeOK
<1>4. SUFFICES /\ Refers(row.values) /\ Shows(row.shown, row.values)
               /\ row.present => row.category \in Category /\ Named(row.category, row.name)
  <2>1. PICK values \in [Field -> Value \cup {NoValue}], shown \in [Field -> Shown],
             c \in Category \cup {NoCategory}, name \in [template : Nat, version : Nat] :
          row.values = values /\ row.shown = shown /\ row.category = c /\ row.name = name
    BY DEF ItemRow
  <2>2. Refers(values) /\ Shows(shown, values)
    BY <1>4, <2>1
  <2>3. Refers(values)' /\ Shows(shown, values)'
    BY <1>1, <2>2, RefersStill, ShowsStill
  <2>4. row.present => Named(c, name)'
    BY <1>1, <1>4, <2>1, NamedStill
  <2>5. Refers(item[i].values)'
    BY <1>3, <2>1, <2>3 DEF Refers
  <2>6. Shows(item[i].shown, item[i].values)'
    BY <1>3, <2>1, <2>3 DEF Shows, Owes
  <2>7. (item[i].present => Named(item[i].category, item[i].name))'
    BY <1>3, <2>1, <2>4 DEF Named, Owes
  <2>8. QED
    BY <2>5, <2>6, <2>7 DEF ItemProjects
<1>5. CASE item'[i] = item[i]
  BY <1>1, <1>3, <1>5 DEF Projects, ItemsProject, ItemProjects, Base, Placed
<1>6. CASE item'[i] # item[i]
  <2>1. PICK w \in Request : request[w].ask.id = i /\ CommitItem(w)
    BY <1>1, <1>6, ItemWriter
  <2>2. PICK ask : ask = request[w].ask
    OBVIOUS
  <2>3. request[w].phase = "planned" /\ CategoryOf(ask) \in Category
    BY <1>1, <2>1, <2>2, CallPlaced DEF CommitItem, OfItem
  <2>4. /\ request[w].listing \in Listing
        /\ request[w].values \in [Field -> Value \cup {NoValue}]
        /\ \E new \in ItemRow :
             /\ item' = [item EXCEPT ![i] = new]
             /\ new.present /\ new.category = CategoryOf(ask)
             /\ new.values = request[w].values
             /\ new.shown = Projected(request[w].listing, request[w].values)
             /\ new.name = request[w].name
    BY <1>1, <2>1, <2>2, <2>3, CommitItemStep
  <2>5. PICK listing \in Listing, values \in [Field -> Value \cup {NoValue}] :
          listing = request[w].listing /\ values = request[w].values
    BY <2>4
  <2>6. /\ row.present /\ row.category = CategoryOf(ask)
        /\ row.values = values /\ row.shown = Projected(listing, values)
        /\ row.name = request[w].name
    BY <1>1, <1>3, <2>4, <2>5 DEF Typed, TypeOK
  <2>7. Lists(listing) /\ Refers(values) /\ Named(CategoryOf(ask), request[w].name)
    BY <2>2, <2>3, <2>5 DEF Projects, CallsProject, CallProjects, OfItem
  <2>8. \A f \in Field : values[f] # NoValue => listing.field[f].state = "active"
    BY <2>3, <2>5 DEF Projects, Merges, MergedAs, Applies, OfItem
  <2>9. Shows(Projected(listing, values), values)
    BY <1>1, <2>7, <2>8, ProjectedShows DEF Typed
  <2>10. QED
    BY <2>3, <2>6, <2>7, <2>9
<1>7. QED
  BY <1>5, <1>6
LEMMA CallsProjectStep ==
  ASSUME Projects, [Next]_vars
  PROVE  CallsProject'
<1>1. Kept /\ Base /\ Typed /\ Typed' /\ Grows /\ Locks /\ Locks'
  BY StepGrows, KeptStep DEF Projects, KeptOptions, Kept, Base
<1>2. SUFFICES ASSUME NEW r \in Request, request'[r].phase \in OfItem PROVE CallProjects(r)'
  BY DEF CallsProject, CallProjects, OfItem
<1>3. CASE request'[r] = request[r]
  <2>1. PICK listing \in Listing, values \in [Field -> Value \cup {NoValue}],
             name \in [template : Nat, version : Nat], ask \in Ask :
          /\ request[r].listing = listing /\ request[r].values = values
          /\ request[r].name = name /\ request[r].ask = ask
          /\ ask.op \in ItemOps
    BY <1>1, <1>2, <1>3, CallAsks DEF Typed, TypeOK, Call, OfItem, Outside
  <2>2. Lists(listing)'
    BY <1>1, <1>2, <1>3, <2>1, ListsStill DEF Projects, CallsProject, CallProjects
  <2>3. request[r].phase = "planned" => Refers(values)'
    BY <1>1, <2>1, RefersStill DEF Projects, CallsProject, CallProjects
  <2>4. ASSUME request[r].phase \in {"owned", "planned"}
        PROVE  Named(CategoryOf(request[r].ask), request[r].name)'
    <3>1. PICK c \in Category : c = CategoryOf(ask)
      BY <1>1, <1>2, <1>3, <2>1, CallPlaced
    <3>2. Named(c, name)'
      BY <1>1, <2>1, <2>4, <3>1, NamedStill DEF Projects, CallsProject, CallProjects
    <3>3. PICK i \in Item : i = ask.id
      BY <2>1, AskTyped
    <3>4. item[i].version = request[r].expected /\ item'[i].version = request[r].expected
      BY <1>1, <1>3, <2>1, <2>4, <3>3 DEF Locks
    <3>5. item'[i] = item[i]
      BY <1>1, <3>4 DEF Typed, TypeOK, ItemRow, Grows, ItemGrows
    <3>6. CategoryOf(ask)' = c
      BY <3>1, <3>3, <3>5 DEF CategoryOf
    <3>7. QED
      BY <1>3, <2>1, <3>2, <3>6 DEF Named, Owes
  <2>5. Lists(request[r].listing)'
    BY <1>3, <2>1, <2>2 DEF Lists, ListsOption, Owes
  <2>6. request[r].phase = "planned" => Refers(request[r].values)'
    BY <1>3, <2>1, <2>3 DEF Refers
  <2>7. QED
    BY <1>3, <2>4, <2>5, <2>6 DEF CallProjects
<1>4. CASE Moves(r) /\ request[r].phase = "new"
  <2>1. PICK ask \in Ask : ItemBegun(r, ask)
    BY <1>2, <1>4 DEF Moves, CategoryBegun, FieldBegun, OptionBegun, Walked, WroteCategory,
       Counted, Owned, PlannedValues, OfItem
  <2>2. /\ request'[r].phase = "listed" /\ UNCHANGED tables
        /\ request'[r].listing.field = field /\ request'[r].listing.option = option
    BY <2>1 DEF ItemBegun, Begun
  <2>3. Lists(request[r].listing)'
    BY <1>1, <2>2 DEF Lists, ListsOption, Reindexed, tables, Projects, KeptOptions, OptionsPlaced,
       Typed, TypeOK, FieldRow
  <2>4. QED
    BY <2>2, <2>3 DEF CallProjects
<1>5. CASE Moves(r) /\ request[r].phase # "new"
  <2>1. Owned(r) \/ PlannedValues(r)
    BY <1>2, <1>5 DEF Moves, CategoryBegun, FieldBegun, OptionBegun, ItemBegun, Begun, Walked,
       WroteCategory, Counted, Continues, OfItem
  <2>2. /\ request[r].phase \in OfItem /\ UNCHANGED tables
        /\ request'[r].ask = request[r].ask /\ request'[r].listing = request[r].listing
        /\ request'[r].values = request[r].values
    BY <2>1 DEF Owned, PlannedValues, Continues, OfItem, tables
  <2>3. /\ request[r].ask \in Ask /\ request[r].ask.op \in ItemOps
        /\ CategoryOf(request[r].ask) \in Category
    BY <1>1, <2>2, CallPlaced
  <2>4. Lists(request[r].listing)'
    BY <2>2 DEF Lists, ListsOption, Owes, tables, Projects, CallsProject, CallProjects
  <2>5. CASE Owned(r)
    <3>1. PICK ask \in Ask, c \in Category : ask = request[r].ask /\ c = CategoryOf(ask)
      BY <2>3
    <3>2. /\ IsActive(ask.category)
          /\ request'[r].phase = "owned"
          /\ request'[r].name.template = category[c].template
          /\ request'[r].name.version = category[c].version
      BY <2>5, <3>1 DEF Owned
    <3>3. category[c].state # "absent"
      <4>1. CASE ask.category = NoCategory
        <5>1. PICK i \in Item : i = ask.id
          BY <2>3, <3>1, AskTyped
        <5>2. ask.op = "updateItem"
          BY <2>3, <3>1, <4>1, AskTyped, NullAssumption DEF ItemOps
        <5>3. item[i].present
          BY <1>1, <2>2, <3>1, <5>1, <5>2 DEF Base, Placed
        <5>4. QED
          BY <3>1, <4>1, <5>1, <5>3 DEF Projects, ItemsProject, ItemProjects, Named, CategoryOf
      <4>2. CASE ask.category # NoCategory
        BY <3>1, <3>2, <4>2 DEF IsActive, CategoryOf
      <4>3. QED
        BY <4>1, <4>2
    <3>4. CategoryOf(request[r].ask)' = c
      BY <2>2, <3>1 DEF CategoryOf, tables
    <3>5. category[c].version \in Nat
      BY <1>1 DEF Typed, TypeOK, CategoryRow
    <3>6. Named(CategoryOf(request[r].ask), request[r].name)'
      BY <2>2, <3>2, <3>3, <3>4, <3>5 DEF Named, tables
    <3>7. QED
      BY <2>4, <3>2, <3>6 DEF CallProjects
  <2>6. CASE PlannedValues(r)
    <3>1. /\ request[r].phase = "owned" /\ request'[r].phase = "planned"
          /\ request'[r].name = request[r].name
          /\ Storable(request[r].ask, request[r].values)
      BY <2>6 DEF PlannedValues, Continues
    <3>2. Named(CategoryOf(request[r].ask), request[r].name)
      BY <3>1 DEF Projects, CallsProject, CallProjects
    <3>3. CategoryOf(request[r].ask)' = CategoryOf(request[r].ask)
      BY <2>2 DEF CategoryOf, tables
    <3>4. Named(CategoryOf(request[r].ask), request[r].name)'
      BY <2>2, <3>1, <3>2, <3>3 DEF Named, Owes, tables
    <3>5. Refers(request[r].values)
      BY <3>1 DEF Storable, Refers, Applies, ActiveOptions
    <3>6. Refers(request[r].values)'
      BY <2>2, <3>5 DEF Refers, tables
    <3>7. QED
      BY <2>4, <3>4, <3>6 DEF CallProjects
  <2>7. QED
    BY <2>1, <2>5, <2>6
<1>6. QED
  BY <1>1, <1>2, <1>3, <1>4, <1>5, CallMoves DEF OfItem, Outside

LEMMA ProjectsStep ==
  ASSUME Projects, [Next]_vars
  PROVE  Projects'
<1>1. KeptOptions' /\ Merges'
  BY KeptOptionsStep, MergesStep DEF Projects, KeptOptions, Kept
<1>2. QED
  BY <1>1, ItemsProjectStep, CallsProjectStep DEF Projects

LEMMA InitProjects ==
  ASSUME Init
  PROVE  Projects
<1>1. KeptOptions /\ Merges /\ CallsProject
  BY InitKeptOptions, InitSettled DEF Merges, CallsProject, CallProjects, OfItem
<1>2. ASSUME NEW i \in Item PROVE ItemProjects(i)
  <2>1. Refers(item[i].values)
    BY InitSettled DEF Sound, Refers
  <2>2. Shows(item[i].shown, item[i].values)
    BY InitSettled DEF Sound, Settled, Shows
  <2>3. item[i].present => Named(item[i].category, item[i].name)
    BY InitSettled DEF Sound, Settled, Named
  <2>4. QED
    BY <2>1, <2>2, <2>3 DEF ItemProjects
<1>3. QED
  BY <1>1, <1>2 DEF Projects, ItemsProject

(* What items show of the schema is what it is now, or a rebuild is owed   *)
(* under a version later than the one they were written from: for any      *)
(* interleaving of calls that list the schema before they lock anything.   *)
THEOREM CatalogRebuilds == Spec => []RebuildOwed
<1>1. Projects => RebuildOwed
  BY DEF Projects, ItemsProject, ItemProjects, Shows, Named, Owes, RebuildOwed
<1>2. QED
  BY InitProjects, ProjectsStep, <1>1, PTL DEF Spec
-----------------------------------------------------------------------------
(* Values fit the type of their field: a conversion that is about to be    *)
(* written has counted none, unless it raced with a call that plans one.   *)
Unstored == \A r \in Request :
  /\ request[r].phase = "checked" /\ Converting(r) /\ request[r].ask.id \notin raced
  => /\ \A i \in Item : item[i].values[request[r].ask.id] = NoValue
     /\ \A q \in Request :
          request[q].phase = "planned" => request[q].values[request[r].ask.id] = NoValue

Fitting == \A f \in Field \ raced :
  /\ \A i \in Item : item[i].values[f] # NoValue => Fits(item[i].values[f], field[f].type)
  /\ \A q \in Request : request[q].phase = "planned" /\ request[q].values[f] # NoValue
       => Fits(request[q].values[f], field[f].type)

ProjectsFit == Projects /\ Unstored /\ Fitting

(* What the history variables record stays recorded.                       *)
Recorded == raced \subseteq raced' /\ (overlapped => overlapped')

LEMMA HistoryGrows ==
  ASSUME [Next]_vars
  PROVE  Recorded
<1>1. ASSUME NEW r \in Request, NEW ask \in Ask,
             \/ StartCategory(r, ask) \/ StartField(r, ask)
             \/ StartOption(r, ask) \/ StartItem(r, ask)
      PROVE  UNCHANGED <<overlapped, raced>>
  <2>1. CASE StartCategory(r, ask)
    BY <2>1 DEF StartCategory, Begin
  <2>2. CASE StartField(r, ask)
    BY <2>2 DEF StartField, Begin
  <2>3. CASE StartOption(r, ask)
    BY <2>3 DEF StartOption, Begin
  <2>4. CASE StartItem(r, ask)
    BY <2>4 DEF StartItem, Begin
  <2>5. QED
    BY <1>1, <2>1, <2>2, <2>3, <2>4
<1>2. ASSUME NEW r \in Request, Walk(r) PROVE UNCHANGED <<overlapped, raced>>
  BY <1>2 DEF Walk, Refused
<1>a. ASSUME NEW r \in Request, WriteCategory(r)
      PROVE  UNCHANGED raced /\ (overlapped => overlapped')
  <2>1. CASE Refused(r)
    BY <2>1 DEF Refused
  <2>2. CASE ~Refused(r)
    <3>1. PICK also \in BOOLEAN : overlapped' = (overlapped \/ also) /\ UNCHANGED raced
      BY <1>a, <2>2 DEF WriteCategory
    <3>2. QED
      BY <3>1, Zenon
  <2>3. QED
    BY <2>1, <2>2
<1>3. ASSUME NEW r \in Request, CommitCategory(r) \/ CreateCategory(r)
      PROVE  UNCHANGED <<overlapped, raced>>
  BY <1>3 DEF CommitCategory, CreateCategory
<1>4. ASSUME NEW r \in Request, Count(r) PROVE UNCHANGED overlapped /\ raced \subseteq raced'
  BY <1>4 DEF Count, Refused
<1>5. ASSUME NEW r \in Request, CommitField(r) \/ CreateField(r)
      PROVE  UNCHANGED <<overlapped, raced>>
  <2>1. CASE CommitField(r)
    BY <2>1 DEF CommitField, Refused
  <2>2. CASE CreateField(r)
    BY <2>2 DEF CreateField
  <2>3. QED
    BY <1>5, <2>1, <2>2
<1>6. ASSUME NEW r \in Request, CommitOption(r) PROVE UNCHANGED <<overlapped, raced>>
  BY <1>6 DEF CommitOption, Refused
<1>7. ASSUME NEW r \in Request, Own(r) PROVE UNCHANGED <<overlapped, raced>>
  BY <1>7 DEF Own, Refused
<1>8. ASSUME NEW r \in Request, Plan(r) PROVE UNCHANGED overlapped /\ raced \subseteq raced'
  BY <1>8 DEF Plan, Refused
<1>9. ASSUME NEW r \in Request, CommitItem(r) PROVE UNCHANGED <<overlapped, raced>>
  BY <1>9 DEF CommitItem
<1>10. QED
  <2>1. UNCHANGED <<overlapped, raced>> => Recorded
    BY DEF Recorded
  <2>2. (UNCHANGED overlapped /\ raced \subseteq raced') => Recorded
    BY DEF Recorded
  <2>3. (UNCHANGED raced /\ (overlapped => overlapped')) => Recorded
    BY DEF Recorded
  <2>4. CASE UNCHANGED vars
    BY <2>1, <2>4 DEF vars
  <2>5. CASE Next
    BY <1>1, <1>2, <1>a, <1>3, <1>4, <1>5, <1>6, <1>7, <1>8, <1>9, <2>1, <2>2, <2>3, <2>5 DEF Next
  <2>6. QED
    BY <2>4, <2>5

(* The values an item is given are those its writer planned.               *)
LEMMA ItemGiven ==
  ASSUME Base, [Next]_vars, NEW i \in Item, item'[i] # item[i]
  PROVE  /\ UNCHANGED field
         /\ \E w \in Request :
              request[w].phase = "planned" /\ item'[i].values = request[w].values
<1>1. Typed
  BY DEF Base
<1>2. PICK w \in Request : request[w].ask.id = i /\ CommitItem(w)
  BY ItemWriter
<1>3. PICK ask : ask = request[w].ask
  OBVIOUS
<1>4. request[w].phase = "planned" /\ CategoryOf(ask) \in Category
  BY <1>2, <1>3, CallPlaced DEF CommitItem, OfItem
<1>5. /\ UNCHANGED field
      /\ \E new \in ItemRow : item' = [item EXCEPT ![i] = new] /\ new.values = request[w].values
  BY <1>1, <1>2, <1>3, <1>4, CommitItemStep
<1>6. QED
  BY <1>1, <1>4, <1>5 DEF Typed, TypeOK

(* A call that has planned its values in a step took the step, and found   *)
(* no conversion of their fields about to be written.                      *)
LEMMA NewlyPlanned ==
  ASSUME Base, [Next]_vars, NEW q \in Request, request'[q].phase = "planned",
         request'[q] # request[q]
  PROVE  PlannedValues(q) /\ UNCHANGED <<field, item>>
<1>1. Moves(q)
  BY CallMoves DEF Outside
<1>2. PlannedValues(q)
  BY <1>1 DEF Moves, CategoryBegun, FieldBegun, OptionBegun, ItemBegun, Begun, Walked,
     WroteCategory, Counted, Owned, Continues
<1>3. QED
  BY <1>1, <1>2, MoveShapes

(* A call that comes to be about to write a conversion has counted.        *)
LEMMA NewlyConverting ==
  ASSUME Base, [Next]_vars, NEW r \in Request, request'[r].phase = "checked",
         request'[r].ask.op \in FieldChanges, Converts(request'[r].ask, request'[r].before),
         request'[r] # request[r]
  PROVE  Counted(r) /\ UNCHANGED item
<1>1. Typed
  BY DEF Base
<1>2. Moves(r)
  BY CallMoves DEF Outside
<1>3. ASSUME NEW ask \in Ask, CategoryBegun(r, ask) \/ OptionBegun(r, ask) \/ ItemBegun(r, ask)
      PROVE  FALSE
  BY <1>3 DEF CategoryBegun, OptionBegun, ItemBegun, Begun, CategoryChanges, FieldChanges,
     OptionChanges, ItemOps
<1>4. ASSUME NEW ask \in Ask, FieldBegun(r, ask) PROVE FALSE
  BY <1>4 DEF FieldBegun, Begun, FieldChanges
<1>5. ~Walked(r)
  BY <1>1, CallAsks DEF Walked, Continues, Outside, CategoryChanges, FieldChanges
<1>6. Counted(r)
  BY <1>2, <1>3, <1>4, <1>5 DEF Moves, WroteCategory, Owned, PlannedValues, Continues
<1>7. QED
  BY <1>6 DEF Counted, tables
LEMMA UnstoredStep ==
  ASSUME ProjectsFit, [Next]_vars
  PROVE  Unstored'
<1>1. Kept /\ Base /\ Typed /\ Typed' /\ raced \subseteq raced'
  BY StepGrows, HistoryGrows DEF ProjectsFit, Projects, KeptOptions, Kept, Base, Recorded
<1>2. SUFFICES ASSUME NEW r \in Request, request'[r].phase = "checked", Converting(r)',
                      request'[r].ask.id \notin raced'
               PROVE  /\ \A i \in Item : item'[i].values[request'[r].ask.id] = NoValue
                      /\ \A q \in Request : request'[q].phase = "planned"
                           => request'[q].values[request'[r].ask.id] = NoValue
  BY DEF Unstored
<1>3. /\ request'[r].ask \in Ask /\ request'[r].ask.op \in FieldChanges
      /\ Converts(request'[r].ask, request'[r].before)
  BY <1>1, <1>2 DEF Converting, Converts, Typed, CallsFit, CallFits, Outside
<1>4. PICK f \in Field : f = request'[r].ask.id
  BY <1>3, AskTyped DEF FieldChanges, FieldOps
<1>5. f \notin raced
  BY <1>1, <1>2, <1>4
<1>6. CASE request'[r] = request[r]
  <2>1. /\ request[r].phase = "checked" /\ Converting(r) /\ request[r].ask.id = f
        /\ Converts(request[r].ask, request[r].before)
    BY <1>2, <1>3, <1>4, <1>6 DEF Converting
  <2>2. /\ \A i \in Item : item[i].values[f] = NoValue
        /\ \A q \in Request : request[q].phase = "planned" => request[q].values[f] = NoValue
    BY <1>5, <2>1 DEF ProjectsFit, Unstored
  <2>3. ASSUME NEW i \in Item PROVE item'[i].values[f] = NoValue
    BY <1>1, <2>2, ItemGiven
  <2>4. ASSUME NEW q \in Request, request'[q].phase = "planned"
        PROVE  request'[q].values[f] = NoValue
    <3>1. CASE request'[q] = request[q]
      BY <2>2, <2>4, <3>1
    <3>2. CASE PlannedValues(q)
      <4>1. request[q].values[f] # NoValue => f \in raced'
        BY <2>1, <3>2 DEF PlannedValues
      <4>2. QED
        BY <1>2, <1>4, <3>2, <4>1 DEF PlannedValues, Continues
    <3>3. QED
      BY <1>1, <2>4, <3>1, <3>2, NewlyPlanned
  <2>5. QED
    BY <1>4, <2>3, <2>4
<1>7. CASE request'[r] # request[r]
  <2>1. Counted(r) /\ UNCHANGED item
    BY <1>1, <1>2, <1>3, <1>7, NewlyConverting
  <2>2. /\ request'[r].ask = request[r].ask /\ request[r].phase = "counting"
        /\ \A q \in Request \ {r} : request'[q] = request[q]
        /\ NoValueStored(f) /\ Planned(f) = {}
    BY <1>2, <1>4, <2>1 DEF Counted, Continues
  <2>3. \A i \in Item : item'[i].values[f] = NoValue
    BY <2>1, <2>2 DEF NoValueStored
  <2>4. \A q \in Request : request'[q].phase = "planned" => request'[q].values[f] = NoValue
    BY <1>2, <2>2 DEF Planned
  <2>5. QED
    BY <1>4, <2>3, <2>4
<1>8. QED
  BY <1>6, <1>7

LEMMA FittingStep ==
  ASSUME ProjectsFit, [Next]_vars
  PROVE  Fitting'
<1>1. Kept /\ Base /\ Typed /\ Typed' /\ raced \subseteq raced'
  BY StepGrows, HistoryGrows DEF ProjectsFit, Projects, KeptOptions, Kept, Base, Recorded
<1>2. ASSUME NEW f \in Field \ raced, NEW values, values[f] # NoValue, Refers(values),
             \/ \E i \in Item : values = item[i].values
             \/ \E q \in Request : request[q].phase = "planned" /\ values = request[q].values
      PROVE  Fits(values[f], field'[f].type)
  <2>1. Fits(values[f], field[f].type)
    BY <1>2 DEF ProjectsFit, Fitting
  <2>2. field[f].state # "absent"
    BY <1>2 DEF Refers
  <2>3. ASSUME field'[f].type # field[f].type PROVE FALSE
    <3>1. PICK r \in Request :
            Converting(r) /\ request[r].phase = "checked" /\ request[r].ask.id = f
      BY <1>1, <2>2, <2>3, FieldChanging
    <3>2. QED
      BY <1>2, <3>1 DEF ProjectsFit, Unstored
  <2>4. QED
    BY <2>1, <2>3
<1>3. ASSUME NEW f \in Field \ raced', NEW i \in Item, item'[i].values[f] # NoValue
      PROVE  Fits(item'[i].values[f], field'[f].type)
  <2>1. CASE item'[i] = item[i]
    <3>1. Refers(item[i].values)
      BY DEF ProjectsFit, Projects, ItemsProject, ItemProjects
    <3>2. QED
      BY <1>1, <1>2, <1>3, <2>1, <3>1
  <2>2. CASE item'[i] # item[i]
    <3>1. PICK w \in Request : request[w].phase = "planned" /\ item'[i].values = request[w].values
      BY <1>1, <2>2, ItemGiven
    <3>2. Refers(request[w].values)
      BY <3>1 DEF ProjectsFit, Projects, CallsProject, CallProjects
    <3>3. QED
      BY <1>1, <1>2, <1>3, <3>1, <3>2
  <2>3. QED
    BY <2>1, <2>2
<1>4. ASSUME NEW f \in Field \ raced', NEW q \in Request, request'[q].phase = "planned",
             request'[q].values[f] # NoValue
      PROVE  Fits(request'[q].values[f], field'[f].type)
  <2>1. CASE request'[q] = request[q]
    <3>1. Refers(request[q].values)
      BY <1>4, <2>1 DEF ProjectsFit, Projects, CallsProject, CallProjects
    <3>2. QED
      BY <1>1, <1>2, <1>4, <2>1, <3>1
  <2>2. CASE request'[q] # request[q]
    <3>1. PlannedValues(q) /\ UNCHANGED field
      BY <1>1, <1>4, <2>2, NewlyPlanned
    <3>2. Storable(request[q].ask, request[q].values) /\ request'[q].values = request[q].values
      BY <3>1 DEF PlannedValues, Continues
    <3>3. QED
      BY <1>4, <3>1, <3>2 DEF Storable
  <2>3. QED
    BY <2>1, <2>2
<1>5. QED
  BY <1>3, <1>4 DEF Fitting

LEMMA InitFit ==
  ASSUME Init
  PROVE  ProjectsFit
<1>1. Projects /\ Unstored
  BY InitProjects, InitSettled DEF Unstored
<1>2. Fitting
  BY InitSettled DEF Fitting, Settled
<1>3. QED
  BY <1>1, <1>2 DEF ProjectsFit

LEMMA FitStep ==
  ASSUME ProjectsFit, [Next]_vars
  PROVE  ProjectsFit'
<1>1. Projects'
  BY ProjectsStep DEF ProjectsFit
<1>2. QED
  BY <1>1, UnstoredStep, FittingStep DEF ProjectsFit

(* A stored value is in the slot of its field's type, however old the      *)
(* listing it was written from: an attribute write and a conversion that   *)
(* overlap at the one point where neither sees the other are the only way  *)
(* past it.                                                                *)
THEOREM CatalogValues == Spec => []ValueFitsType
<1>1. ProjectsFit => ValueFitsType
  BY DEF ProjectsFit, Fitting, ValueFitsType
<1>2. QED
  BY InitFit, FitStep, <1>1, PTL DEF Spec
-----------------------------------------------------------------------------
(* The parent links.  A lineage is the least set closed upward, so it is   *)
(* bounded by exhibiting another.                                          *)
LEMMA LineageWithin ==
  ASSUME NEW table, NEW c, NEW set \in SUBSET Category,
         {c} \subseteq set \cup {NoCategory}, Upward(table, set)
  PROVE  Lineage(table, c) \subseteq set
  BY DEF Lineage

LEMMA LineageUpward ==
  ASSUME NEW table \in [Category -> CategoryRow], NEW c \in Category \cup {NoCategory}
  PROVE  /\ Lineage(table, c) \subseteq Category
         /\ {c} \subseteq Lineage(table, c) \cup {NoCategory}
         /\ Upward(table, Lineage(table, c))
<1>1. Lineage(table, c) \subseteq Category /\ {c} \subseteq Lineage(table, c) \cup {NoCategory}
  BY DEF Lineage
<1>2. ASSUME NEW d \in Lineage(table, c), table[d].parent # NoCategory
      PROVE  table[d].parent \in Lineage(table, c)
  <2>1. d \in Category /\ table[d].parent \in Category
    BY <1>1, <1>2 DEF CategoryRow
  <2>2. ASSUME NEW set \in SUBSET Category, {c} \subseteq set \cup {NoCategory}, Upward(table, set)
        PROVE  table[d].parent \in set
    <3>1. d \in set
      BY <1>2, <2>2 DEF Lineage
    <3>2. QED
      BY <1>2, <2>2, <3>1 DEF Upward
  <2>3. QED
    BY <2>1, <2>2 DEF Lineage
<1>3. QED
  BY <1>1, <1>2 DEF Upward

(* Changes of parents outside a lineage leave it without new members.      *)
LEMMA LineageUndisturbed ==
  ASSUME NEW table \in [Category -> CategoryRow], NEW new, NEW c \in Category \cup {NoCategory},
         \A d \in Lineage(table, c) : new[d].parent = table[d].parent
  PROVE  Lineage(new, c) \subseteq Lineage(table, c)
<1>1. PICK set \in SUBSET Category : set = Lineage(table, c)
  BY LineageUpward
<1>2. {c} \subseteq set \cup {NoCategory} /\ Upward(table, set)
  BY <1>1, LineageUpward
<1>3. Upward(new, set)
  BY <1>1, <1>2 DEF Upward
<1>4. QED
  BY <1>1, <1>2, <1>3, LineageWithin

(* A category moved below one that is not below it closes no cycle.        *)
LEMMA AcyclicMoved ==
  ASSUME NEW table \in [Category -> CategoryRow], NEW new \in [Category -> CategoryRow],
         NEW id \in Category, Acyclic(table), id \notin Lineage(table, new[id].parent),
         \A d \in Category \ {id} : new[d].parent = table[d].parent
  PROVE  Acyclic(new)
<1>1. PICK p \in Category \cup {NoCategory} : p = new[id].parent
  BY DEF CategoryRow
<1>2. PICK above \in SUBSET Category : above = Lineage(table, p)
  BY LineageUpward
<1>3. /\ id \notin above /\ {p} \subseteq above \cup {NoCategory} /\ Upward(table, above)
      /\ Upward(new, above)
  BY <1>1, <1>2, LineageUpward DEF Upward
<1>4. Lineage(new, p) \subseteq above
  BY <1>3, LineageWithin
<1>5. ASSUME NEW c \in Category, c # id, c \in Lineage(new, new[c].parent) PROVE FALSE
  <2>1. PICK q \in Category \cup {NoCategory} : q = new[c].parent
    BY DEF CategoryRow
  <2>2. q = table[c].parent
    BY <1>5, <2>1
  <2>3. PICK line \in SUBSET Category : line = Lineage(table, q)
    BY <2>1, LineageUpward
  <2>4. c \notin line /\ {q} \subseteq line \cup {NoCategory} /\ Upward(table, line)
    BY <2>2, <2>3, LineageUpward DEF Acyclic
  <2>5. CASE id \notin line
    <3>1. Upward(new, line)
      BY <2>4, <2>5 DEF Upward
    <3>2. Lineage(new, q) \subseteq line
      BY <2>4, <3>1, LineageWithin
    <3>3. QED
      BY <1>5, <2>1, <2>4, <3>2
  <2>6. CASE id \in line
    <3>1. Upward(new, line \cup above)
      BY <1>1, <1>3, <2>4 DEF Upward
    <3>2. Lineage(new, q) \subseteq line \cup above
      BY <2>4, <3>1, LineageWithin
    <3>3. c \in above
      BY <1>5, <2>1, <2>4, <3>2
    <3>4. {q} \subseteq above \cup {NoCategory}
      BY <1>3, <2>2, <3>3 DEF Upward
    <3>5. line \subseteq above
      BY <1>3, <2>3, <3>4, LineageWithin
    <3>6. QED
      BY <1>3, <2>6, <3>5
  <2>7. QED
    BY <2>5, <2>6
<1>6. QED
  BY <1>1, <1>3, <1>4, <1>5 DEF Acyclic

LEMMA AcyclicSame ==
  ASSUME NEW table \in [Category -> CategoryRow], NEW new \in [Category -> CategoryRow],
         Acyclic(table), \A d \in Category : new[d].parent = table[d].parent
  PROVE  Acyclic(new)
<1>1. ASSUME NEW c \in Category PROVE c \notin Lineage(new, new[c].parent)
  <2>1. PICK q \in Category \cup {NoCategory} : q = table[c].parent /\ q = new[c].parent
    BY DEF CategoryRow
  <2>2. Lineage(new, q) \subseteq Lineage(table, q)
    BY LineageUpward, LineageUndisturbed
  <2>3. QED
    BY <2>1, <2>2 DEF Acyclic
<1>2. QED
  BY <1>1 DEF Acyclic
(* Parents exist, of rows and of those that are about to be written; of    *)
(* reparentings that do not overlap one is under way, and closes no cycle. *)
IsThere(c) == c # NoCategory => category[c].state # "absent"

Linked == \A c \in Category :
  /\ category[c].state = "absent" => category[c].parent = NoCategory
  /\ IsThere(category[c].parent)

SetsParent(ask) == ask.op = "createCategory" \/ Reparents(ask)

Targeted(r) ==
  LET q == request[r]
  IN  /\ q.phase \in {"checked", "written"} /\ SetsParent(q.ask) => IsThere(q.ask.to.parent)
      /\ q.phase = "walking" /\ Reparents(q.ask)
           => q.cursor = q.ask.to.parent \/ IsThere(q.ask.to.parent)

Targets == \A r \in Request : Targeted(r)

Moving(r) == Written(r) /\ Reparents(request[r].ask)

OneMoves == overlapped \/ \A r, q \in Request : Moving(r) /\ Moving(q) => r = q

Cleared ==
  \/ overlapped
  \/ /\ Acyclic(category)
     /\ \A r \in Request : Moving(r) =>
          request[r].ask.id \notin Lineage(category, request[r].ask.to.parent)

Climbs == Kept /\ Linked /\ Targets /\ OneMoves /\ Cleared

LEMMA LineageThere ==
  ASSUME Typed, Linked, NEW c \in Category \cup {NoCategory}, IsThere(c),
         NEW d \in Category, category[d].state = "absent"
  PROVE  d \notin Lineage(category, c)
<1>1. PICK set \in SUBSET Category : set = {e \in Category : category[e].state # "absent"}
  OBVIOUS
<1>2. {c} \subseteq set \cup {NoCategory}
  BY <1>1 DEF IsThere
<1>3. ASSUME NEW e \in set PROVE category[e].parent \in set \cup {NoCategory}
  <2>1. category[e].parent \in Category \cup {NoCategory} /\ IsThere(category[e].parent)
    BY <1>1 DEF Linked, Typed, TypeOK, CategoryRow
  <2>2. QED
    BY <1>1, <2>1 DEF IsThere
<1>4. Lineage(category, c) \subseteq set
  BY <1>2, <1>3, LineageWithin DEF Upward
<1>5. QED
  BY <1>1, <1>4

(* The parent that an ask sets.                                            *)
LEMMA ParentTyped ==
  ASSUME NEW ask \in Ask, SetsParent(ask)
  PROVE  ask.id \in Category /\ ask.to.parent \in Category \cup {NoCategory}
<1>1. /\ ask.id \in Category
      /\ ask.to.parent \in Category \cup {NoCategory, Undefined}
  BY AskTyped DEF SetsParent, Reparents, CategoryOps
<1>2. ask.to.parent # Undefined
  BY AskAssumption DEF SetsParent, Reparents
<1>3. QED
  BY <1>1, <1>2

(* A category gets another parent when it is created or moved.             *)
LEMMA ParentChanging ==
  ASSUME Climbs, [Next]_vars, NEW c \in Category, category'[c].parent # category[c].parent
  PROVE  /\ category'[c].parent \in Category \cup {NoCategory} /\ IsThere(category'[c].parent)
         /\ \A d \in Category \ {c} : category'[d] = category[d]
         /\ \/ category[c].state = "absent"
            \/ \E r \in Request :
                 /\ Moving(r) /\ request'[r].phase = "done"
                 /\ request[r].ask.id = c /\ request[r].ask.to.parent = category'[c].parent
<1>1. Base /\ Typed /\ Typed'
  BY StepGrows DEF Climbs, Kept, Base
<1>2. category'[c].parent \in Category \cup {NoCategory}
  BY <1>1 DEF Typed, TypeOK, CategoryRow
<1>3. ASSUME NEW r \in Request, request[r].ask.id = c, CommitCategory(r)
      PROVE  /\ IsThere(category'[c].parent)
             /\ \A d \in Category \ {c} : category'[d] = category[d]
             /\ Moving(r) /\ request'[r].phase = "done"
             /\ request[r].ask.to.parent = category'[c].parent
  <2>1. PICK ask : ask = request[r].ask
    OBVIOUS
  <2>2. /\ Written(r) /\ ask \in Ask /\ ask.op \in CategoryChanges /\ category[c] \in CategoryRow
        /\ category' = [category EXCEPT ![c] = CategoryAfter(ask, category[c])]
        /\ Ended(r)
    BY <1>1, <1>3, <2>1, CommitCategoryStep
  <2>3. /\ category'[c] = CategoryAfter(ask, category[c])
        /\ \A d \in Category \ {c} : category'[d] = category[d]
    BY <1>1, <2>2 DEF Typed, TypeOK
  <2>4. Reparents(ask) /\ category'[c].parent = ask.to.parent
    BY <2>2, <2>3, CategoryChanged
  <2>5. IsThere(ask.to.parent)
    BY <2>1, <2>2, <2>4 DEF Climbs, Targets, Targeted, SetsParent, Written
  <2>6. QED
    BY <2>1, <2>2, <2>3, <2>4, <2>5 DEF Moving, Ended
<1>4. ASSUME NEW r \in Request, request[r].ask.id = c, CreateCategory(r)
      PROVE  /\ IsThere(category'[c].parent)
             /\ \A d \in Category \ {c} : category'[d] = category[d]
  <2>1. PICK ask : ask = request[r].ask
    OBVIOUS
  <2>2. /\ request[r].phase = "checked" /\ ask \in Ask /\ ask.op = "createCategory"
        /\ \E row \in CategoryRow :
             row.parent = ask.to.parent /\ category' = [category EXCEPT ![c] = row]
    BY <1>1, <1>3, <1>4, <2>1, CreateCategoryStep
  <2>3. /\ category'[c].parent = ask.to.parent
        /\ \A d \in Category \ {c} : category'[d] = category[d]
    BY <1>1, <2>2 DEF Typed, TypeOK
  <2>4. IsThere(ask.to.parent)
    BY <2>1, <2>2 DEF Climbs, Targets, Targeted, SetsParent
  <2>5. QED
    BY <2>3, <2>4
<1>5. \E r \in Request : /\ request[r].ask.id = c
                         /\ \/ CommitCategory(r)
                            \/ CreateCategory(r) /\ category[c].state = "absent"
  BY <1>1, CategoryWriter
<1>6. QED
  BY <1>2, <1>3, <1>4, <1>5

LEMMA LinkedStep ==
  ASSUME Climbs, [Next]_vars
  PROVE  Linked'
<1>1. Grows /\ Typed /\ Typed'
  BY StepGrows DEF Climbs, Kept, Base
<1>2. ASSUME NEW c \in Category
      PROVE  /\ category'[c].state = "absent" => category'[c].parent = NoCategory
             /\ category'[c].parent # NoCategory
                  => category'[category'[c].parent].state # "absent"
  <2>1. category'[c].state = "absent" => category'[c] = category[c]
    BY <1>1 DEF Grows, CategoryGrows
  <2>2. PICK p \in Category \cup {NoCategory} : p = category'[c].parent
    BY <1>1 DEF Typed, TypeOK, CategoryRow
  <2>3. IsThere(p)
    <3>1. CASE category'[c].parent = category[c].parent
      BY <2>2, <3>1 DEF Climbs, Linked
    <3>2. CASE category'[c].parent # category[c].parent
      BY <2>2, <3>2, ParentChanging
    <3>3. QED
      BY <3>1, <3>2
  <2>4. p # NoCategory => category'[p].state # "absent"
    BY <1>1, <2>3 DEF IsThere, Grows, CategoryGrows
  <2>5. QED
    BY <2>1, <2>2, <2>4 DEF Climbs, Linked
<1>3. QED
  BY <1>2 DEF Linked, IsThere
LEMMA TargetsStep ==
  ASSUME Climbs, [Next]_vars
  PROVE  Targets'
<1>1. Grows /\ Base /\ Typed /\ Typed'
  BY StepGrows DEF Climbs, Kept, Base
<1>2. ASSUME NEW c \in Category \cup {NoCategory}, IsThere(c) PROVE IsThere(c)'
  BY <1>1, <1>2 DEF IsThere, Grows, CategoryGrows
<1>3. ASSUME NEW r \in Request, request'[r] = request[r] PROVE Targeted(r)'
  <2>1. PICK ask : ask = request[r].ask
    OBVIOUS
  <2>2. ASSUME request[r].phase \in {"checked", "written", "walking"}, SetsParent(ask),
               IsThere(ask.to.parent)
        PROVE  IsThere(ask.to.parent)'
    <3>1. ask \in Ask
      BY <1>1, <2>1, <2>2, CallAsks DEF Outside
    <3>2. ask.to.parent \in Category \cup {NoCategory}
      BY <2>2, <3>1, ParentTyped
    <3>3. QED
      BY <1>2, <2>2, <3>2
  <2>3. Targeted(r)
    BY DEF Climbs, Targets
  <2>4. IsThere(ask.to.parent)' = IsThere(request[r].ask.to.parent)'
    BY <1>3, <2>1 DEF IsThere
  <2>5. QED
    BY <1>3, <2>1, <2>2, <2>3, <2>4 DEF Targeted, SetsParent, Reparents
<1>4. ASSUME NEW r \in Request, NEW ask \in Ask, CategoryBegun(r, ask) PROVE Targeted(r)'
  <2>1. request'[r].ask = ask /\ UNCHANGED category
    BY <1>4 DEF CategoryBegun, Begun, tables
  <2>2. CASE ask.op = "createCategory" /\ IsActive(ask.to.parent) /\ request'[r].phase = "checked"
    BY <2>1, <2>2 DEF Targeted, SetsParent, Reparents, IsThere, IsActive
  <2>3. CASE /\ ask.op \in CategoryChanges
             /\ Reparents(ask) => ask.to.parent = NoCategory
             /\ request'[r].phase = "checked"
    BY <2>1, <2>3 DEF Targeted, SetsParent, Reparents, IsThere, CategoryChanges
  <2>4. CASE request'[r].phase = "walking" /\ request'[r].cursor = ask.to.parent
    BY <2>1, <2>4 DEF Targeted
  <2>5. QED
    BY <1>4, <2>2, <2>3, <2>4 DEF CategoryBegun
<1>5. ASSUME NEW r \in Request, NEW ask \in Ask,
             FieldBegun(r, ask) \/ OptionBegun(r, ask) \/ ItemBegun(r, ask)
      PROVE  Targeted(r)'
  BY <1>5 DEF FieldBegun, OptionBegun, ItemBegun, Begun, Targeted, SetsParent, Reparents,
     FieldChanges, OptionChanges, ItemOps
<1>6. ASSUME NEW r \in Request, Walked(r) PROVE Targeted(r)'
  <2>1. /\ request[r].phase = "walking" /\ category[request[r].cursor].state = "active"
        /\ UNCHANGED category /\ request'[r].ask = request[r].ask
        /\ request'[r].phase \in {"walking", "checked"}
    BY <1>6 DEF Walked, Continues, tables
  <2>2. Reparents(request[r].ask) => IsThere(request[r].ask.to.parent)
    BY <2>1 DEF Climbs, Targets, Targeted, IsThere
  <2>3. request[r].ask.op # "createCategory"
    BY <1>1, <2>1, CallAsks DEF Outside, CategoryChanges
  <2>4. QED
    BY <2>1, <2>2, <2>3 DEF Targeted, SetsParent, Reparents, IsThere
<1>7. ASSUME NEW r \in Request, WroteCategory(r) PROVE Targeted(r)'
  BY <1>7 DEF WroteCategory, Continues, tables, Climbs, Targets, Targeted, SetsParent, Reparents,
     IsThere
<1>8. ASSUME NEW r \in Request, Counted(r) \/ Owned(r) \/ PlannedValues(r) PROVE Targeted(r)'
  BY <1>8 DEF Counted, Owned, PlannedValues, Continues, Targeted, SetsParent, Reparents
<1>9. ASSUME NEW r \in Request, request'[r].phase \in Outside PROVE Targeted(r)'
  BY <1>9 DEF Targeted, Outside
<1>10. QED
  BY <1>1, <1>3, <1>4, <1>5, <1>6, <1>7, <1>8, <1>9, CallMoves DEF Targets, Moves

(* A call begins to move a category by writing its row.                    *)
LEMMA NewlyMoving ==
  ASSUME Base, [Next]_vars, NEW r \in Request, Moving(r)', request'[r] # request[r]
  PROVE  WroteCategory(r)
<1>1. Moves(r)
  BY CallMoves DEF Moving, Written, Outside
<1>2. QED
  BY <1>1 DEF Moving, Written, Moves, CategoryBegun, FieldBegun, OptionBegun, ItemBegun, Walked,
     Counted, Owned, PlannedValues, Continues

LEMMA OneMovesStep ==
  ASSUME Climbs, [Next]_vars
  PROVE  OneMoves'
<1>1. Base /\ Recorded
  BY HistoryGrows DEF Climbs, Kept
<1>2. SUFFICES ASSUME ~overlapped', NEW r \in Request, NEW q \in Request,
                      Moving(r)', Moving(q)', r # q
               PROVE  FALSE
  BY DEF OneMoves
<1>3. ~overlapped
  BY <1>1, <1>2 DEF Recorded
<1>4. ASSUME NEW a \in Request, NEW b \in Request, a # b, Moving(a)', Moving(b)', WroteCategory(a)
      PROVE  FALSE
  <2>1. request'[b] = request[b] /\ request'[a].ask = request[a].ask
    BY <1>4 DEF WroteCategory, Continues
  <2>2. Written(b) /\ Reparents(request[b].ask) /\ Reparents(request[a].ask)
    BY <1>4, <2>1 DEF Moving, Written, Reparents
  <2>3. QED
    BY <1>2, <1>4, <2>2 DEF WroteCategory
<1>5. CASE request'[r] = request[r] /\ request'[q] = request[q]
  BY <1>2, <1>3, <1>5 DEF Climbs, OneMoves, Moving, Written, Reparents
<1>6. QED
  BY <1>1, <1>2, <1>4, <1>5, NewlyMoving
LEMMA ClearedStep ==
  ASSUME Climbs, [Next]_vars
  PROVE  Cleared'
<1>1. Base /\ Typed /\ Typed' /\ Recorded
  BY StepGrows, HistoryGrows DEF Climbs, Kept, Base
<1>2. SUFFICES ASSUME ~overlapped' PROVE Acyclic(category') /\ \A r \in Request : Moving(r)' =>
                 request'[r].ask.id \notin Lineage(category', request'[r].ask.to.parent)
  BY DEF Cleared
<1>3. /\ Acyclic(category)
      /\ \A r \in Request : Moving(r) =>
           request[r].ask.id \notin Lineage(category, request[r].ask.to.parent)
      /\ \A r, q \in Request : Moving(r) /\ Moving(q) => r = q
  BY <1>1, <1>2 DEF Climbs, Cleared, OneMoves, Recorded
<1>4. category \in [Category -> CategoryRow] /\ category' \in [Category -> CategoryRow]
  BY <1>1 DEF Typed, TypeOK
<1>5. Acyclic(category')
  <2>1. CASE \A c \in Category : category'[c].parent = category[c].parent
    BY <1>3, <1>4, <2>1, AcyclicSame
  <2>2. CASE \E c \in Category : category'[c].parent # category[c].parent
    <3>1. PICK c \in Category : category'[c].parent # category[c].parent
      BY <2>2
    <3>2. PICK p \in Category \cup {NoCategory} : p = category'[c].parent
      BY <1>4 DEF CategoryRow
    <3>3. IsThere(p) /\ \A d \in Category \ {c} : category'[d] = category[d]
      BY <3>1, <3>2, ParentChanging
    <3>4. c \notin Lineage(category, p)
      <4>1. CASE category[c].state = "absent"
        BY <1>1, <3>2, <3>3, <4>1, LineageThere DEF Climbs
      <4>2. CASE category[c].state # "absent"
        <5>1. PICK r \in Request : Moving(r) /\ request[r].ask.id = c /\ request[r].ask.to.parent = p
          BY <3>1, <3>2, <4>2, ParentChanging
        <5>2. QED
          BY <1>3, <5>1
      <4>3. QED
        BY <4>1, <4>2
    <3>5. QED
      BY <1>3, <1>4, <3>2, <3>3, <3>4, AcyclicMoved
  <2>3. QED
    BY <2>1, <2>2
<1>6. ASSUME NEW r \in Request, Moving(r)'
      PROVE  request'[r].ask.id \notin Lineage(category', request'[r].ask.to.parent)
  <2>1. CASE request'[r] = request[r]
    <3>1. Moving(r)
      BY <1>6, <2>1 DEF Moving, Written, Reparents
    <3>2. PICK ask \in Ask : ask = request[r].ask
      BY <1>1, <3>1, CallAsks DEF Moving, Written, Outside
    <3>3. SetsParent(ask)
      BY <3>1, <3>2 DEF Moving, SetsParent
    <3>4. PICK p \in Category \cup {NoCategory} : p = ask.to.parent
      BY <3>3, ParentTyped
    <3>5. IsThere(p)
      BY <3>1, <3>2, <3>3, <3>4 DEF Climbs, Targets, Targeted, Moving, Written
    <3>6. ASSUME NEW d \in Lineage(category, p), category'[d].parent # category[d].parent
          PROVE  FALSE
      <4>1. d \in Category
        BY <1>4, LineageUpward
      <4>2. category[d].state # "absent"
        BY <1>1, <3>5, <3>6, <4>1, LineageThere DEF Climbs
      <4>3. PICK w \in Request : Moving(w) /\ request'[w].phase = "done"
        BY <3>6, <4>1, <4>2, ParentChanging
      <4>4. w = r
        BY <1>3, <3>1, <4>3
      <4>5. QED
        BY <1>6, <4>3, <4>4 DEF Moving, Written
    <3>7. Lineage(category', p) \subseteq Lineage(category, p)
      BY <1>4, <3>6, LineageUndisturbed
    <3>8. ask.id \notin Lineage(category, p)
      BY <1>3, <3>1, <3>2, <3>4
    <3>9. QED
      BY <2>1, <3>2, <3>4, <3>7, <3>8
  <2>2. CASE request'[r] # request[r]
    <3>1. WroteCategory(r)
      BY <1>1, <1>6, <2>2, NewlyMoving
    <3>2. /\ UNCHANGED category /\ request'[r].ask = request[r].ask
          /\ Trigger(request[r].ask)
      BY <3>1 DEF WroteCategory, Continues, tables
    <3>3. Reparents(request[r].ask)
      BY <1>6, <3>2 DEF Moving, Reparents
    <3>4. QED
      BY <3>2, <3>3 DEF Trigger
  <2>3. QED
    BY <2>1, <2>2
<1>7. QED
  BY <1>5, <1>6

LEMMA ClimbsStep ==
  ASSUME Climbs, [Next]_vars
  PROVE  Climbs'
<1>1. Kept'
  BY KeptStep DEF Climbs
<1>2. QED
  BY <1>1, LinkedStep, TargetsStep, OneMovesStep, ClearedStep DEF Climbs

LEMMA InitClimbs ==
  ASSUME Init
  PROVE  Climbs
<1>1. Kept /\ \A r \in Request : request[r].phase = "new"
  BY InitKept, InitSettled
<1>2. Linked /\ Acyclic(category)
  BY InitSettled DEF Sound, Settled, Linked, IsThere
<1>3. QED
  BY <1>1, <1>2 DEF Climbs, Targets, Targeted, OneMoves, Cleared, Moving, Written

(* The overlap of two reparenting statements is the only way to a cycle,   *)
(* for any tree and any calls: what else changes while a call walks up the *)
(* tree, or between the trigger and the commit, closes none.               *)
THEOREM CatalogCycles == Spec => []CycleOnlyFromOverlap
<1>1. Climbs => CycleOnlyFromOverlap
  BY DEF Climbs, Cleared, CycleOnlyFromOverlap, NoCategoryCycle
<1>2. QED
  BY InitClimbs, ClimbsStep, <1>1, PTL DEF Spec
=============================================================================
