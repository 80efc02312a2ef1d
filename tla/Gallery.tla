------------------------------ MODULE Gallery ------------------------------
(***************************************************************************)
(* The images attached to one item: finalizeUpload's attachment,           *)
(* reorderGallery, setPrimary and detachRelation of media/media-service.ts *)
(* over the media_relations table.  Items share nothing here but the table.*)
(*                                                                         *)
(* A call reads what it decides from before its first write, in or before  *)
(* its transaction, and locks nothing by it.  Its writes are one action:   *)
(* they hold the rows and the index entries they touch until the commit,   *)
(* and whoever needs one of them waits, then goes on or is aborted.        *)
(* After each statement the unique indexes of active relations hold, or    *)
(* the transaction is rolled back.                                         *)
(***************************************************************************)
EXTENDS Naturals, Sequences, FiniteSets, SequencesExt

CONSTANTS
  Relation,   \* ids of media_relations rows
  Edit,       \* calls, each made once
  Ask,        \* what a call may ask for
  Beginning,  \* tables an execution may begin with
  Parking,    \* what a parked position is moved up by: 1000 in the code
  NoAsk

VARIABLES
  relation,  \* relation[x]: the row x
  edit       \* edit[e]: where call e stands

galleryVars == <<relation, edit>>

(* mediaRelationRoles.                                                     *)
Role == {"primary", "gallery", "container_photo"}

Row == [state : {"absent", "active", "archived"}, role : Role, position : Nat]

Attachments == [op : {"attach"}, id : Relation, role : Role]
Reorders    == [op : {"reorder"}, order : Seq(Relation)]
Promotions  == [op : {"setPrimary"}, id : Relation]
Detachments == [op : {"detach"}, id : Relation]

(* `found` is the row a promotion or a detachment has read, `place` the    *)
(* position an attachment has, and `gallery` the list a reordering.        *)
(* `beside`: another call has committed since (history).                   *)
Call == [phase : {"new", "read", "done", "clashed"}, ask : Ask \cup {NoAsk}, found : Row,
         place : Nat, gallery : Seq(Relation), beside : BOOLEAN]

NoRow == [state |-> "absent", role |-> "gallery", position |-> 0]

NewCall == [phase |-> "new", ask |-> NoAsk, found |-> NoRow, place |-> 0,
            gallery |-> <<>>, beside |-> FALSE]

GalleryTypeOK ==
  /\ relation \in [Relation -> Row]
  /\ edit \in [Edit -> Call]

GalleryInit ==
  /\ relation \in Beginning
  /\ edit = [e \in Edit |-> NewCall]

-----------------------------------------------------------------------------
Active(table, role) == {x \in Relation : table[x].state = "active" /\ table[x].role = role}

(* The unique indexes media_relations_primary_item_idx and _item_position_idx. *)
Unique(table) ==
  /\ \A x, y \in Active(table, "primary") : x = y
  /\ \A role \in Role : \A x, y \in Active(table, role) :
       table[x].position = table[y].position => x = y

ASSUME RelationAssumption == IsFiniteSet(Relation)
ASSUME ParkingAssumption == Parking \in Nat \ {0}
ASSUME AskAssumption ==
  \A ask \in Ask : ask \in Attachments \cup Reorders \cup Promotions \cup Detachments
ASSUME BeginningAssumption ==
  \A table \in Beginning : table \in [Relation -> Row] /\ Unique(table)

(* What one statement makes of a table. *)
Positioned(table, id, position) == [table EXCEPT ![id].position = position]

Promoted(table, id) == [table EXCEPT ![id].role = "primary", ![id].position = 0]

Demoted(table, position) ==
  [x \in Relation |-> IF x \in Active(table, "primary")
                      THEN [table[x] EXCEPT !.role = "gallery", !.position = position]
                      ELSE table[x]]

Inserted(table, id, role, position) ==
  [table EXCEPT ![id] = [state |-> "active", role |-> role, position |-> position]]

(* ... and what k of them do that put the first k rows of a list at `from` *)
(* and the positions after it.                                             *)
Placed(table, list, from, k) ==
  [x \in Relation |->
     IF \E j \in 1..k : list[j] = x
     THEN [table[x] EXCEPT !.position = from + (CHOOSE j \in 1..k : list[j] = x) - 1]
     ELSE table[x]]

(* listItemMedia, of the gallery: by position.                             *)
Listings(table) ==
  {gallery \in SetToSeqs(Active(table, "gallery")) :
     \A j, k \in DOMAIN gallery :
       j <= k => table[gallery[j]].position <= table[gallery[k]].position}

(* nextGalleryPosition.                                                    *)
NextPosition(table, gallery) ==
  IF gallery = <<>> THEN 0 ELSE table[Last(gallery)].position + 1

(* Seeded fault: a list of some of the gallery will do.                    *)
ValidOrderInPart(order, gallery) == ToSet(order) \subseteq ToSet(gallery)

(* validateOrderedIds.                                                     *)
ValidOrder(order, gallery) ==
  /\ order # <<>>
  /\ IsInjective(order)
  /\ ToSet(order) = ToSet(gallery)

(* Seeded fault: a relation detached long ago is as good as any.           *)
UsableAttachedOnce(row) == row.state # "absent"

Usable(row) == row.state = "active"

-----------------------------------------------------------------------------
(* The precondition on the item's version is left out: nothing in this     *)
(* module changes it, so it does not order these calls.                    *)
Reads(e, ask, found, place, gallery) ==
  /\ edit[e].phase = "new"
  /\ edit' = [edit EXCEPT ![e] =
       [phase |-> "read", ask |-> ask, found |-> found, place |-> place,
        gallery |-> gallery, beside |-> FALSE]]
  /\ UNCHANGED relation

(* An attachment is always of a new relation.                              *)
ReadAttach(e, ask) ==
  /\ ask.op = "attach"
  /\ relation[ask.id].state = "absent"
  /\ \A f \in Edit : edit[f].phase = "read" /\ edit[f].ask.op = "attach"
                       => edit[f].ask.id # ask.id
  /\ \E gallery \in Listings(relation) :
       Reads(e, ask, NoRow, NextPosition(relation, gallery), <<>>)

ReadReorder(e, ask) ==
  /\ ask.op = "reorder"
  /\ \E gallery \in Listings(relation) :
       ValidOrder(ask.order, gallery) /\ Reads(e, ask, NoRow, 0, gallery)

(* A primary is not promoted again.                                        *)
ReadRelation(e, ask) ==
  /\ ask.op \in {"setPrimary", "detach"}
  /\ Usable(relation[ask.id])
  /\ ask.op = "setPrimary" => relation[ask.id].role # "primary"
  /\ Reads(e, ask, relation[ask.id], 0, <<>>)

(* The call ends; what the others have read is no longer the last word.    *)
Ends(e, phase) ==
  edit' = [f \in Edit |->
    IF f = e THEN [NewCall EXCEPT !.phase = phase]
    ELSE [edit[f] EXCEPT
            !.beside = @ \/ (edit[f].phase = "read" /\ relation' # relation)]]

(* A transaction, as the table is after each of its statements: all of     *)
(* them, or none.                                                          *)
Execute(e, tables) ==
  IF \A k \in DOMAIN tables : Unique(tables[k])
  THEN relation' = Last(tables) /\ Ends(e, "done")
  ELSE UNCHANGED relation /\ Ends(e, "clashed")

(* A container photo goes to position 0, whatever is there.                *)
Attached(table, ask, place) ==
  IF ask.role = "primary"
  THEN <<Demoted(table, place), Inserted(Demoted(table, place), ask.id, "primary", 0)>>
  ELSE <<Inserted(table, ask.id, ask.role, IF ask.role = "gallery" THEN place ELSE 0)>>

AttachImage(e) ==
  /\ edit[e].phase = "read"
  /\ edit[e].ask.op = "attach"
  /\ Execute(e, Attached(relation, edit[e].ask, edit[e].place))

(* Seeded fault: one pass.                                                 *)
ReorderingAtOnce(table, order, gallery) ==
  [k \in DOMAIN order |-> Placed(table, order, 0, k)]

(* The gallery is parked, then its order placed.                           *)
Reordering(table, order, gallery) ==
  LET n == Len(gallery)
      Parked(k) == Placed(table, gallery, n + Parking, k)
  IN  [k \in 1..(n + Len(order)) |->
         IF k <= n THEN Parked(k) ELSE Placed(Parked(n), order, 0, k - n)]

Reorder(e) ==
  /\ edit[e].phase = "read"
  /\ edit[e].ask.op = "reorder"
  /\ Execute(e, Reordering(relation, edit[e].ask.order, edit[e].gallery))

(* By the position that was read; a row archived since is written as well. *)
Promoting(table, id, from) ==
  LET parked  == Positioned(table, id, from + Parking)
      demoted == Demoted(parked, from)
  IN  <<parked, demoted, Promoted(demoted, id)>>

SetPrimary(e) ==
  /\ edit[e].phase = "read"
  /\ edit[e].ask.op = "setPrimary"
  /\ Execute(e, Promoting(relation, edit[e].ask.id, edit[e].found.position))

(* Archived once; the asset is then due for collection (MediaPipeline).    *)
Detach(e) ==
  LET id == edit[e].ask.id
  IN  /\ edit[e].phase = "read"
      /\ edit[e].ask.op = "detach"
      /\ relation' = [relation EXCEPT ![id].state = "archived"]
      /\ Ends(e, "done")

(* Whatever else rolls a call back: a wait for another that ends in a      *)
(* violated index or a deadlock, a lost connection.                        *)
Abort(e) ==
  /\ edit[e].phase = "read"
  /\ UNCHANGED relation
  /\ Ends(e, "done")

GalleryNext ==
  \E e \in Edit :
    \/ \E ask \in Ask : ReadAttach(e, ask) \/ ReadReorder(e, ask) \/ ReadRelation(e, ask)
    \/ AttachImage(e) \/ Reorder(e) \/ SetPrimary(e) \/ Detach(e) \/ Abort(e)

GallerySpec == GalleryInit /\ [][GalleryNext]_galleryVars

-----------------------------------------------------------------------------
Commits(e, op) ==
  edit[e].phase = "read" /\ edit'[e].phase = "done" /\ edit[e].ask.op = op

(* An item that has a primary image goes on having one, until somebody     *)
(* detaches that image ("Exactly one active primary per owner: the         *)
(* previous one becomes a gallery image", media-service.ts:276).  The one  *)
(* other way to lose it: the image being promoted is detached between the  *)
(* read of its relation and the transaction, which writes it all the same. *)
PrimaryKept ==
  [][Active(relation, "primary") # {} /\ Active(relation', "primary") = {}
       => \E e \in Edit :
            \/ Commits(e, "detach") /\ edit[e].ask.id \in Active(relation, "primary")
            \/ /\ Commits(e, "setPrimary")
               /\ edit[e].found.state = "active"
               /\ relation[edit[e].ask.id].state = "archived"]_galleryVars

(* Two gallery images change places only when somebody asked for an order  *)
(* of both ("A partial list ... is rejected, so ordering cannot drift",    *)
(* media-uploads.md:64): attaching, promoting, demoting and detaching      *)
(* others leave the rest in order.  A reordering can overtake but one it   *)
(* did not name: one that joined the gallery after it had read its list.   *)
OrderOnlyByReorder ==
  [][\A x, y \in Active(relation, "gallery") \cap Active(relation', "gallery") :
       relation[x].position < relation[y].position /\ relation'[x].position > relation'[y].position
         => \E e \in Edit :
              LET named == ToSet(edit[e].ask.order)
              IN  /\ Commits(e, "reorder")
                  /\ {x, y} \cap named # {}
                  /\ {x, y} \cap ToSet(edit[e].gallery) \subseteq named]_galleryVars

(* Two calls that violate an index all by themselves: a container photo    *)
(* beside another one, and the promotion of a container photo, which sends *)
(* the primary to the gallery at a position of the other role.             *)
SecondContainerPhoto(e) ==
  /\ edit[e].ask.op = "attach" /\ edit[e].ask.role = "container_photo"
  /\ \E x \in Active(relation, "container_photo") : relation[x].position = 0

DemotionOntoAnother(e) ==
  /\ edit[e].ask.op = "setPrimary" /\ edit[e].found.role = "container_photo"
  /\ Active(relation, "primary") # {}
  /\ \E x \in Active(relation, "gallery") : relation[x].position = edit[e].found.position

(* Parking rows above the used range keeps the indexes satisfied ("so the  *)
(* position uniqueness index is never violated mid-transaction",           *)
(* media-uploads.md:60) of the primary and the gallery: beside container   *)
(* photos, which are not parked, and positions that have grown into the    *)
(* parking range, a call fails by an index only when another overlapped it.*)
ClashHasCause ==
  [][\A e \in Edit :
       edit[e].phase = "read" /\ edit'[e].phase = "clashed"
         => \/ edit[e].beside
            \/ \E x \in Relation : relation[x].position >= Parking
            \/ SecondContainerPhoto(e) \/ DemotionOntoAnother(e)]_galleryVars
=============================================================================
