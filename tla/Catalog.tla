------------------------------ MODULE Catalog ------------------------------
(***************************************************************************)
(* The dictionaries and the dynamic schema of the catalog and the items    *)
(* written against them: catalog/dictionary-repository.ts (categories),    *)
(* schema/field-definition-repository.ts, schema/attribute-value-port.ts   *)
(* and the attribute part of catalog/item-service.ts.                      *)
(*                                                                         *)
(* A request is one call, in one READ COMMITTED transaction: what it reads *)
(* is what others have committed when it reads it, and nobody sees its     *)
(* writes before it commits.  A transaction whose writes no trigger and no *)
(* other statement of its own depends on writes and commits in one action. *)
(*                                                                         *)
(* A field holds at most one value per item: repeated values and their     *)
(* positions are left out, with validation rules, tags, item visibility    *)
(* and the storage destination (module StorageTxn).  Labels of categories  *)
(* go with their template, those of fields with their visibility: what     *)
(* items show of them is rebuilt for the same reasons.                     *)
(***************************************************************************)
EXTENDS Naturals, FiniteSets

CONSTANTS
  Category, Field, Option, Item,  \* ids of rows
  Request,                        \* calls, each made once
  Ask,                            \* what a call may ask for
  Beginning,                      \* tables an execution may begin with
  NoCategory, NoField, NoValue, NoRow, NoAsk,
  Undefined                       \* a column or a field that an ask leaves as it is

ASSUME NullAssumption ==
  /\ NoCategory \notin Category
  /\ NoField \notin Field
  /\ NoValue \notin Option \cup {"text", "number"}
  /\ NoAsk \notin Ask
  /\ Undefined \notin Category \cup {NoCategory} \cup Nat \cup BOOLEAN
  /\ Undefined \notin Option \cup {"text", "number", "select", NoValue}
  /\ Undefined \notin {"private", "authenticated", "public"}

VARIABLES
  category,    \* category[c]: the categories row c
  field,       \* field[f]: the field_definitions row f
  option,      \* option[o]: the field_options row o
  item,        \* item[i]: the items row i, its attribute values and projection
  owed,        \* search.rebuild-items.v1 messages: what changed, at which version
  request,     \* request[r]: where call r stands
  overlapped,  \* history: two categories were reparented at the same time
  raced        \* history: fields converted while values were being written

tables == <<category, field, option, item, owed>>
vars == <<category, field, option, item, owed, request, overlapped, raced>>

Lifecycle == {"absent", "active", "archived"}

(* Template 0 is none: the item keeps the name it was given.               *)
CategoryRow == [state : Lifecycle, parent : Category \cup {NoCategory}, template : Nat,
                version : Nat]

Type == {"text", "number", "select"}

Exposure == {"private", "authenticated", "public"}

FieldRow == [state : Lifecycle, category : Category \cup {NoCategory}, type : Type,
             visibility : Exposure, required : BOOLEAN, version : Nat]

OptionRow == [state : Lifecycle, field : Field \cup {NoField}, renamed : BOOLEAN]

(* A value is an option, or stands for the canonical ones of a scalar type. *)
Value == Option \cup {"text", "number"}

(* `shown` is the entry of the projection: what it exposes of the field    *)
(* ("private" is nothing), under which name of the option, and (history)   *)
(* the version of the definition it was made from.  `name` is the template *)
(* the display name was derived from, and the version of its category.     *)
Shown == [exposure : Exposure, renamed : BOOLEAN, version : Nat]
ItemRow == [present : BOOLEAN, category : Category \cup {NoCategory}, version : Nat,
            values : [Field -> Value \cup {NoValue}], shown : [Field -> Shown],
            name : [template : Nat, version : Nat]]

(* An ask names its row `id`; `to` holds the columns it sets, `values` the *)
(* fields it submits.  A call that creates a row sets every column.        *)
CategoryPatch == [parent : Category \cup {NoCategory, Undefined},
                  template : Nat \cup {Undefined}]
FieldPatch == [category : Category \cup {NoCategory, Undefined}, type : Type \cup {Undefined},
               visibility : Exposure \cup {Undefined}, required : BOOLEAN \cup {Undefined}]
Submitted == [Field -> Value \cup {NoValue, Undefined}]

AnyAsk ==
  [op : {"createCategory", "updateCategory"}, id : Category, to : CategoryPatch]
  \cup [op : {"archiveCategory"}, id : Category]
  \cup [op : {"createField", "updateField"}, id : Field, to : FieldPatch]
  \cup [op : {"archiveField"}, id : Field]
  \cup [op : {"createOption", "updateOption", "archiveOption"}, id : Option, field : Field]
  \cup [op : {"createItem"}, id : Item, category : Category, privileged : BOOLEAN,
         values : Submitted]
  \cup [op : {"updateItem"}, id : Item, category : Category \cup {NoCategory},
         privileged : BOOLEAN, values : Submitted]

ASSUME AskAssumption ==
  /\ Ask \subseteq AnyAsk
  /\ \A ask \in Ask : ask.op = "createCategory" => Undefined \notin {ask.to.parent, ask.to.template}
  /\ \A ask \in Ask : ask.op = "createField" =>
       Undefined \notin {ask.to.category, ask.to.type, ask.to.visibility, ask.to.required}

Given(new, old) == IF new = Undefined THEN old ELSE new

(* `before` is the row a call's audit event will show, `listing` what the  *)
(* call read of the schema outside its transaction.                        *)
Call == [phase : {"new", "walking", "checked", "counting", "written", "listed", "owned",
                  "planned", "done"},
         ask : Ask \cup {NoAsk}, expected : Nat, cursor : Category \cup {NoCategory},
         visited : SUBSET Category,
         before : CategoryRow \cup FieldRow \cup OptionRow \cup ItemRow \cup {NoRow},
         listing : [field : [Field -> FieldRow], option : [Option -> OptionRow]] \cup {NoRow},
         values : [Field -> Value \cup {NoValue}], name : [template : Nat, version : Nat]]

NoName == [template |-> 0, version |-> 0]
Empty  == [f \in Field |-> NoValue]

NewCall == [phase |-> "new", ask |-> NoAsk, expected |-> 0, cursor |-> NoCategory,
            visited |-> {}, before |-> NoRow, listing |-> NoRow, values |-> Empty,
            name |-> NoName]

(* The slot of a value is one the type stores.                             *)
Fits(value, type) == IF type = "select" THEN value \in Option ELSE value = type

(* A category and its ancestors: the least set that has the parent of each *)
(* category in it, which is what the recursive query's union computes.     *)
Upward(table, set) == \A c \in set : table[c].parent \in set \cup {NoCategory}

Lineage(table, c) ==
  {d \in Category : \A set \in SUBSET Category :
     {c} \subseteq set \cup {NoCategory} /\ Upward(table, set) => d \in set}

Acyclic(table) == \A c \in Category : c \notin Lineage(table, table[c].parent)

(* Rows refer to rows that exist, and one that does not refers to none and *)
(* has no version.                                                         *)
Sound(c, f, o, i) ==
  /\ \A id \in Category :
       /\ c[id].state = "absent" => c[id].version = 0 /\ c[id].parent = NoCategory
       /\ c[id].parent # NoCategory => c[c[id].parent].state # "absent"
  /\ \A id \in Field : f[id].state = "absent" => f[id].version = 0
  /\ \A id \in Option :
       IF o[id].state = "absent" THEN ~o[id].renamed
       ELSE o[id].field \in Field /\ f[o[id].field].state # "absent"
  /\ \A id \in Item : \A key \in Field :
       LET value == i[id].values[key]
       IN  /\ i[id].shown[key].version <= f[key].version
           /\ value # NoValue => f[key].state # "absent"
           /\ value \in Option => o[value].state # "absent" /\ o[value].field = key
  /\ \A id \in Item : i[id].present =>
       /\ i[id].category \in Category
       /\ c[i[id].category].state # "absent"
       /\ i[id].name.version <= c[i[id].category].version

(* What a field exposes of a value now.                                    *)
Exposed(row, value) ==
  IF value = NoValue \/ row.state # "active" THEN "private" ELSE row.visibility

(* Nothing is in a cycle, converted badly or waiting for a rebuild.        *)
Settled(c, f, o, i) ==
  /\ Acyclic(c)
  /\ \A id \in Option : o[id].state = "active" => f[o[id].field].type = "select"
  /\ \A id \in Item : \A key \in Field :
       LET value == i[id].values[key]
       IN  /\ value # NoValue => Fits(value, f[key].type)
           /\ i[id].shown[key].exposure = Exposed(f[key], value)
           /\ value \in Option => i[id].shown[key].renamed = o[value].renamed
  /\ \A id \in Item : i[id].present => i[id].name.template = c[i[id].category].template

ASSUME BeginningAssumption ==
  \A first \in Beginning :
    /\ first.category \in [Category -> CategoryRow]
    /\ first.field \in [Field -> FieldRow]
    /\ first.option \in [Option -> OptionRow]
    /\ first.item \in [Item -> ItemRow]
    /\ Sound(first.category, first.field, first.option, first.item)
    /\ Settled(first.category, first.field, first.option, first.item)

TypeOK ==
  /\ category \in [Category -> CategoryRow]
  /\ field \in [Field -> FieldRow]
  /\ option \in [Option -> OptionRow]
  /\ item \in [Item -> ItemRow]
  /\ owed \subseteq (Category \cup Field \cup Option) \X Nat
  /\ request \in [Request -> Call]
  /\ overlapped \in BOOLEAN
  /\ raced \subseteq Field

Init ==
  /\ \E first \in Beginning :
       /\ category = first.category
       /\ field = first.field
       /\ option = first.option
       /\ item = first.item
  /\ owed = {}
  /\ request = [r \in Request |-> NewCall]
  /\ overlapped = FALSE
  /\ raced = {}

-----------------------------------------------------------------------------
CategoryOps == {"createCategory", "updateCategory", "archiveCategory"}
FieldOps    == {"createField", "updateField", "archiveField"}
OptionOps   == {"createOption", "updateOption", "archiveOption"}
ItemOps     == {"createItem", "updateItem"}

Row(ask) ==
  CASE ask.op \in CategoryOps -> category[ask.id]
    [] ask.op \in FieldOps    -> field[ask.id]
    [] ask.op \in OptionOps   -> option[ask.id]
    [] ask.op \in ItemOps     -> item[ask.id]

(* The client read its expected version just before; when it is older yet, *)
(* the call fails as it does when another commits first.  A field governs  *)
(* the version of its options.                                             *)
Expected(ask) ==
  CASE ask.op \in OptionOps -> field[ask.field].version
    [] OTHER -> Row(ask).version

Checked == [NewCall EXCEPT !.phase = "checked"]

Begin(r, ask, call) ==
  /\ request[r].phase = "new"
  /\ request' = [request EXCEPT ![r] =
       [call EXCEPT !.ask = ask, !.expected = Expected(ask)]]
  /\ UNCHANGED <<tables, overlapped, raced>>

Goto(r, phase) == request' = [request EXCEPT ![r].phase = phase]

Ends(r) == request' = [request EXCEPT ![r] = [NewCall EXCEPT !.phase = "done"]]

Refused(r) == Ends(r) /\ UNCHANGED <<tables, overlapped, raced>>

IsActive(c) == c # NoCategory => category[c].state = "active"

-----------------------------------------------------------------------------
(* Categories.  A call that sets a parent walks up from it, one read at a  *)
(* time, before it reads its own row.                                      *)
Reparents(ask) == ask.op = "updateCategory" /\ ask.to.parent # Undefined

StartCategory(r, ask) ==
  \/ /\ ask.op = "createCategory"
     /\ category[ask.id].state = "absent"
     /\ IsActive(ask.to.parent)
     /\ Begin(r, ask, Checked)
  \/ /\ ask.op \in {"updateCategory", "archiveCategory"}
     /\ category[ask.id].state = "active"
     /\ Reparents(ask) => ask.to.parent = NoCategory
     /\ Begin(r, ask, [Checked EXCEPT !.before = category[ask.id]])
  \/ /\ Reparents(ask)
     /\ ask.to.parent \notin {NoCategory, ask.id}
     /\ Begin(r, ask, [NewCall EXCEPT !.phase = "walking", !.cursor = ask.to.parent])

(* validateCategoryParent reads one ancestor.                              *)
Walk(r) ==
  LET at == category[request[r].cursor]
      id == request[r].ask.id
      visited == request[r].visited \cup {request[r].cursor}
      outside == at.state = "active" /\ at.parent \notin visited \cup {id}
  IN  /\ request[r].phase = "walking"
      /\ \/ ~outside /\ Refused(r)
         \/ /\ outside
            /\ request' = [request EXCEPT ![r] =
                 IF at.parent = NoCategory
                 THEN [@ EXCEPT !.phase = "checked", !.before = category[id],
                                !.cursor = NoCategory, !.visited = {}]
                 ELSE [@ EXCEPT !.cursor = at.parent, !.visited = visited]]
            /\ UNCHANGED <<tables, overlapped, raced>>

(* Seeded fault: the database checks nothing.                              *)
TriggerMissing(ask) == TRUE

(* Trigger categories_no_cycle, which fires when a statement sets a parent. *)
Trigger(ask) == Reparents(ask) => ask.id \notin Lineage(category, ask.to.parent)

(* Seeded fault: a row is changed whatever its version.                    *)
UnchangedVersion(row, expected) == row.state = "active"

(* The guard of every versioned write, once the row is unlocked.           *)
AtVersion(row, expected) == row.state = "active" /\ row.version = expected

(* The row is written and locked, and read by nobody, until the commit.    *)
Written(q) == request[q].phase = "written"

WriteCategory(r) ==
  LET ask == request[r].ask
      allowed == AtVersion(category[ask.id], request[r].expected) /\ Trigger(ask)
  IN  /\ request[r].phase = "checked"
      /\ ask.op \in {"updateCategory", "archiveCategory"}
      /\ \A q \in Request : Written(q) => request[q].ask.id # ask.id
      /\ \/ ~allowed /\ Refused(r)
         \/ /\ allowed
            /\ Goto(r, "written")
            /\ overlapped' = (overlapped \/
                 (Reparents(ask) /\ \E q \in Request : Written(q) /\ Reparents(request[q].ask)))
            /\ UNCHANGED <<tables, raced>>

(* The row a call leaves; archiving asks nothing of the children.          *)
CategoryAfter(ask, row) ==
  IF ask.op = "archiveCategory" THEN [row EXCEPT !.state = "archived", !.version = row.version + 1]
  ELSE [state |-> row.state, parent |-> Given(ask.to.parent, row.parent),
        template |-> Given(ask.to.template, row.template), version |-> row.version + 1]

(* A changed template (or label) asks for a rebuild of the items.          *)
CommitCategory(r) ==
  LET ask == request[r].ask
      old == category[ask.id]
      new == CategoryAfter(ask, old)
  IN  /\ Written(r)
      /\ category' = [category EXCEPT ![ask.id] = new]
      /\ owed' = owed \cup {m \in {<<ask.id, new.version>>} : new.template # old.template}
      /\ Ends(r)
      /\ UNCHANGED <<field, option, item, overlapped, raced>>

CreateCategory(r) ==
  LET ask == request[r].ask
  IN  /\ request[r].phase = "checked"
      /\ ask.op = "createCategory"
      /\ category' = [category EXCEPT ![ask.id] =
           IF @.state # "absent" THEN @
           ELSE [state |-> "active", parent |-> ask.to.parent, template |-> ask.to.template,
                 version |-> 1]]
      /\ Ends(r)
      /\ UNCHANGED <<field, option, item, owed, overlapped, raced>>

-----------------------------------------------------------------------------
(* Field definitions and their options.                                    *)
Converts(ask, row) == ask.op = "updateField" /\ Given(ask.to.type, row.type) # row.type

ActiveOptions(f) == {o \in Option : option[o].field = f /\ option[o].state = "active"}

(* conversionSupported, for these types, and no option left behind.        *)
Convertible(f, type) ==
  /\ <<field[f].type, type>> \in {<<"text", "number">>, <<"number", "text">>,
                                  <<"select", "text">>}
  /\ field[f].type = "select" => ActiveOptions(f) = {}

NewCategoryIsActive(ask) == ask.to.category # Undefined => IsActive(ask.to.category)

StartField(r, ask) ==
  \/ /\ ask.op = "createField"
     /\ field[ask.id].state = "absent"
     /\ NewCategoryIsActive(ask)
     /\ Begin(r, ask, Checked)
  \/ /\ ask.op \in {"updateField", "archiveField"}
     /\ field[ask.id].state = "active"
     /\ LET converts == Converts(ask, field[ask.id])
        IN  /\ converts => Convertible(ask.id, ask.to.type)
            /\ ask.op = "updateField" /\ ~converts => NewCategoryIsActive(ask)
            /\ Begin(r, ask, [NewCall EXCEPT !.phase = IF converts THEN "counting" ELSE "checked",
                                             !.before = field[ask.id]])

(* Requests whose values are planned and not yet committed.                *)
Planned(f) == {q \in Request : request[q].phase = "planned" /\ request[q].values[f] # NoValue}

(* Seeded fault: values are converted in place, whatever they are.         *)
NoValueStoredUnasked(f) == TRUE

NoValueStored(f) == \A i \in Item : item[i].values[f] = NoValue

(* requireConvertibleWithoutData counts the values, locking nothing.       *)
Count(r) ==
  LET ask == request[r].ask
      allowed == NoValueStored(ask.id) /\ NewCategoryIsActive(ask)
  IN  /\ request[r].phase = "counting"
      /\ \/ ~allowed /\ Refused(r)
         \/ /\ allowed
            /\ Goto(r, "checked")
            /\ raced' = raced \cup {f \in {ask.id} : Planned(f) # {}}
            /\ UNCHANGED <<tables, overlapped>>

(* Seeded fault: the warning forgets the visibility.                       *)
ReindexedWhenArchived(old, new) == new.state # old.state

(* reindexWarning.                                                         *)
Reindexed(old, new) == new.visibility # old.visibility \/ new.state # old.state

(* The row a call leaves, with its type and whether it is required written *)
(* from the row read before when the ask leaves them.                      *)
FieldAfter(ask, row, before) ==
  IF ask.op = "archiveField" THEN [row EXCEPT !.state = "archived", !.version = row.version + 1]
  ELSE [state |-> row.state, category |-> Given(ask.to.category, row.category),
        type |-> Given(ask.to.type, before.type),
        visibility |-> Given(ask.to.visibility, row.visibility),
        required |-> Given(ask.to.required, before.required), version |-> row.version + 1]

CommitField(r) ==
  LET ask == request[r].ask
      old == request[r].before
      new == FieldAfter(ask, field[ask.id], old)
  IN  /\ request[r].phase = "checked"
      /\ ask.op \in {"updateField", "archiveField"}
      /\ \/ ~AtVersion(field[ask.id], request[r].expected) /\ Refused(r)
         \/ /\ AtVersion(field[ask.id], request[r].expected)
            /\ field' = [field EXCEPT ![ask.id] = new]
            /\ owed' = owed \cup {m \in {<<ask.id, new.version>>} : Reindexed(old, new)}
            /\ Ends(r)
            /\ UNCHANGED <<category, option, item, overlapped, raced>>

CreateField(r) ==
  LET ask == request[r].ask
  IN  /\ request[r].phase = "checked"
      /\ ask.op = "createField"
      /\ field' = [field EXCEPT ![ask.id] =
           IF @.state # "absent" THEN @
           ELSE [state |-> "active", category |-> ask.to.category, type |-> ask.to.type,
                 visibility |-> ask.to.visibility, required |-> ask.to.required, version |-> 1]]
      /\ Ends(r)
      /\ UNCHANGED <<category, option, item, owed, overlapped, raced>>

StartOption(r, ask) ==
  \/ /\ ask.op = "createOption"
     /\ option[ask.id].state = "absent"
     /\ field[ask.field].state = "active"
     /\ field[ask.field].type = "select"
     /\ Begin(r, ask, Checked)
  \/ /\ ask.op \in {"updateOption", "archiveOption"}
     /\ option[ask.id].state = "active"
     /\ option[ask.id].field = ask.field
     /\ Begin(r, ask, [Checked EXCEPT !.before = option[ask.id]])

(* Seeded fault: an option write leaves the version of its field alone.    *)
OptionGuardMissing(row, expected) == TRUE

(* bumpDefinition.                                                         *)
OptionGuard(row, expected) == AtVersion(row, expected)

(* The option is written first; the bump decides whether it stays.         *)
CommitOption(r) ==
  LET ask == request[r].ask
      version == field[ask.field].version + 1
      writable == option[ask.id].state = (IF ask.op = "createOption" THEN "absent" ELSE "active")
      allowed == writable /\ OptionGuard(field[ask.field], request[r].expected)
  IN  /\ request[r].phase = "checked"
      /\ ask.op \in OptionOps
      /\ \/ ~allowed /\ Refused(r)
         \/ /\ allowed
            /\ option' = [option EXCEPT ![ask.id] =
                 CASE ask.op = "createOption" -> [state |-> "active", field |-> ask.field,
                                                  renamed |-> FALSE]
                   [] ask.op = "updateOption" -> [@ EXCEPT !.renamed = TRUE]
                   [] ask.op = "archiveOption" -> [@ EXCEPT !.state = "archived"]]
            /\ field' = [field EXCEPT ![ask.field].version = version]
            /\ owed' = owed \cup {m \in {<<ask.id, version>>} :
                                    ask.op = "updateOption" /\ ~option[ask.id].renamed}
            /\ Ends(r)
            /\ UNCHANGED <<category, item, overlapped, raced>>

-----------------------------------------------------------------------------
(* Items.  A call lists the definitions and the stored values, swaps the   *)
(* core row by its version, lets the attribute port read the definitions   *)
(* again and replace the values, and projects them by the first listing.   *)
Applies(table, f, c) == table[f].state = "active" /\ table[f].category \in {NoCategory, c}

CategoryOf(ask) == IF ask.category = NoCategory THEN item[ask.id].category ELSE ask.category

(* mergeAssignments.                                                       *)
Merged(ask) ==
  [f \in Field |->
     CASE ~Applies(field, f, CategoryOf(ask)) -> NoValue
       [] OTHER -> Given(ask.values[f], item[ask.id].values[f])]

(* assignmentsFor: a private field is writable for privileged actors, and  *)
(* for whoever creates the item.                                           *)
Submittable(ask) ==
  \A f \in Field : ask.values[f] # Undefined =>
    /\ Applies(field, f, CategoryOf(ask))
    /\ ask.privileged \/ ask.op = "createItem" \/ field[f].visibility # "private"
    /\ ask.values[f] = NoValue \/ Fits(ask.values[f], field[f].type)

StartItem(r, ask) ==
  /\ ask.op \in ItemOps
  /\ item[ask.id].present = (ask.op = "updateItem")
  /\ Submittable(ask)
  /\ Begin(r, ask, [NewCall EXCEPT !.phase = "listed", !.before = item[ask.id],
       !.listing = [field |-> field, option |-> option], !.values = Merged(ask)])

Holds(q, i) ==
  request[q].phase \in {"owned", "planned"} /\ request[q].ask.id = i

(* Seeded fault: the core row is written without comparing its version.    *)
SwappableAnyVersion(row, expected) == TRUE

Swappable(row, expected) == row.version = expected

(* deriveDisplayName reads the category; createCore or updateCore follows. *)
Own(r) ==
  LET ask == request[r].ask
      of == category[CategoryOf(ask)]
      allowed == IsActive(ask.category) /\ Swappable(item[ask.id], request[r].expected)
  IN  /\ request[r].phase = "listed"
      /\ \A q \in Request : ~Holds(q, ask.id)
      /\ \/ ~allowed /\ Refused(r)
         \/ /\ allowed
            /\ request' = [request EXCEPT ![r].phase = "owned",
                 ![r].name = [template |-> of.template, version |-> of.version]]
            /\ UNCHANGED <<tables, overlapped, raced>>

(* planAttributeRows.                                                      *)
Storable(ask, values) ==
  \A f \in Field :
    IF values[f] = NoValue
    THEN ~(field[f].required /\ Applies(field, f, CategoryOf(ask)))
    ELSE /\ Applies(field, f, CategoryOf(ask))
         /\ Fits(values[f], field[f].type)
         /\ values[f] \in Option => values[f] \in ActiveOptions(f)

Plan(r) ==
  LET ask == request[r].ask
      values == request[r].values
      converting == {f \in Field : values[f] # NoValue /\
        \E q \in Request : request[q].phase = "checked" /\ request[q].ask.id = f
                             /\ Converts(request[q].ask, request[q].before)}
  IN  /\ request[r].phase = "owned"
      /\ \/ ~Storable(ask, values) /\ Refused(r)
         \/ /\ Storable(ask, values)
            /\ Goto(r, "planned")
            /\ raced' = raced \cup converting
            /\ UNCHANGED <<tables, overlapped>>

(* projectionFor.                                                          *)
Projected(listing, values) ==
  [f \in Field |->
     [exposure |-> IF values[f] = NoValue THEN "private" ELSE listing.field[f].visibility,
      renamed |-> values[f] \in Option /\ listing.option[values[f]].renamed,
      version |-> listing.field[f].version]]

CommitItem(r) ==
  LET ask == request[r].ask
      values == request[r].values
  IN  /\ request[r].phase = "planned"
      /\ item' = [item EXCEPT ![ask.id] =
           [present |-> TRUE, category |-> CategoryOf(ask), version |-> @.version + 1,
            values |-> values, shown |-> Projected(request[r].listing, values),
            name |-> request[r].name]]
      /\ Ends(r)
      /\ UNCHANGED <<category, field, option, owed, overlapped, raced>>

-----------------------------------------------------------------------------
Next ==
  \E r \in Request :
    \/ \E ask \in Ask : \/ StartCategory(r, ask)
                        \/ StartField(r, ask)
                        \/ StartOption(r, ask)
                        \/ StartItem(r, ask)
    \/ Walk(r) \/ WriteCategory(r) \/ CommitCategory(r) \/ CreateCategory(r)
    \/ Count(r) \/ CommitField(r) \/ CreateField(r)
    \/ CommitOption(r)
    \/ Own(r) \/ Plan(r) \/ CommitItem(r)

Spec == Init /\ [][Next]_vars

-----------------------------------------------------------------------------
(* No category is its own ancestor ("PostgreSQL also rejects cycles        *)
(* created outside the repository", catalog-dictionaries.md:22).  Two      *)
(* reparentings whose statements overlap refute it.                        *)
NoCategoryCycle == Acyclic(category)

(* The overlap of two reparenting statements is the only way to a cycle:   *)
(* what changes while a call walks up the tree is caught by the trigger.   *)
CycleOnlyFromOverlap == overlapped \/ NoCategoryCycle

(* Only a select has options in use: creating one and converting the field *)
(* both decide from rows read before, and meet at the field's version.     *)
OptionsFitType ==
  \A f \in Field : ActiveOptions(f) # {} => field[f].type = "select"

(* A stored value is in the slot of its field's type ("the populated slot  *)
(* matches the definition's data_type", dynamic-schema.md:131), however    *)
(* old the listing its item was written from; only a conversion whose      *)
(* count overlaps the port's own reading and commit gets past it.          *)
ValueFitsType ==
  \A i \in Item : \A f \in Field \ raced :
    item[i].values[f] # NoValue => Fits(item[i].values[f], field[f].type)

(* What a definition, option or category change makes wrong in the         *)
(* projection or name of an item is owed a rebuild, recorded under a later *)
(* version than the item was written from: even if the item was being      *)
(* written when the change was committed.                                  *)
RebuildOwed ==
  LET Owed(id, version) == \E m \in owed : m[1] = id /\ m[2] > version
  IN  \A i \in Item :
        /\ \A f \in Field :
             LET shown == item[i].shown[f]
                 value == item[i].values[f]
             IN  /\ shown.exposure # Exposed(field[f], value) => Owed(f, shown.version)
                 /\ value \in Option /\ option[value].renamed # shown.renamed
                      => Owed(value, shown.version)
        /\ item[i].present /\ category[item[i].category].template # item[i].name.template
             => Owed(item[i].category, item[i].name.version)

(* The `before` of an audit event, read without a lock, is the very row    *)
(* the call replaced: the snapshots chain ("Those snapshots are the        *)
(* definition-version history", dynamic-schema.md:144).                    *)
AuditChains ==
  [][\A r \in Request, ask \in Ask :
       /\ request[r].ask = ask
       /\ request[r].before # NoRow
       /\ request'[r].phase = "done"
       /\ Row(ask)' # Row(ask)
       => request[r].before = Row(ask)]_vars

(* An update of an item leaves every value it does not submit as it is, if *)
(* the field still applied when the call listed it: of two editors neither *)
(* erases what the other wrote.                                            *)
KeepsUnaddressed ==
  [][\A r \in Request, ask \in Ask :
       /\ request[r].ask = ask
       /\ ask.op = "updateItem"
       /\ item'[ask.id] # item[ask.id]
       /\ request'[r].phase = "done"
       => \A f \in Field :
            ask.values[f] = Undefined
            /\ Applies(request[r].listing.field, f, item'[ask.id].category)
              => item'[ask.id].values[f] = item[ask.id].values[f]]_vars
=============================================================================
