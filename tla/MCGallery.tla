----------------------------- MODULE MCGallery -----------------------------
(* A small instance of Gallery for TLC.                                    *)
EXTENDS Gallery, TLC

CONSTANTS x1, x2, x3, x4, e1, e2, e3, e4

Image(role, position) == [state |-> "active", role |-> role, position |-> position]

None == [x \in Relation |-> NoRow]

(* Two gallery images below a primary, three without one, one of which has *)
(* been detached, positions that have grown into the parking range, or a   *)
(* container photo beside a primary and a gallery image.                   *)
Tables ==
  {None,
   [None EXCEPT ![x1] = Image("primary", 0), ![x2] = Image("gallery", 0),
                ![x3] = Image("gallery", 1)],
   [None EXCEPT ![x1] = Image("gallery", 0), ![x2] = Image("gallery", 2),
                ![x3] = Image("gallery", 1)],
   [None EXCEPT ![x1] = Image("primary", 0), ![x2] = Image("gallery", 2),
                ![x3] = [Image("gallery", 1) EXCEPT !.state = "archived"]],
   [None EXCEPT ![x1] = Image("primary", 0), ![x2] = Image("gallery", 2),
                ![x3] = Image("gallery", Parking + 2)],
   [None EXCEPT ![x1] = Image("primary", 0), ![x2] = Image("gallery", 0),
                ![x3] = Image("container_photo", 0)]}

Orders == {<<x2>>, <<x3>>, <<x3, x2>>, <<x2, x3>>, <<x3, x2, x1>>, <<x3, x2, x4>>,
           <<x1, x4, x3>>}

Asks ==
  {[op |-> "attach", id |-> x4, role |-> role] : role \in Role}
  \cup {[op |-> "attach", id |-> x3, role |-> "gallery"]}
  \cup {[op |-> "reorder", order |-> order] : order \in Orders}
  \cup {[op |-> "setPrimary", id |-> x] : x \in {x1, x2, x3}}
  \cup {[op |-> "detach", id |-> x] : x \in {x1, x2, x3}}

Symmetry == Permutations(Edit)
=============================================================================
