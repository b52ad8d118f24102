---------------------------- MODULE MCCatalogue ------------------------------
(***************************************************************************)
(* Two devices edit product p1, an import and a creation draw p2; two      *)
(* categories want the same name.  Times are in the unit of clock:         *)
(* transactions start at 2, 4, 6 ..., so that an edit made at 9 comes from *)
(* a clock that is ahead, and one made at 1 is late.                       *)
(***************************************************************************)
EXTENDS Catalogue

CONSTANTS p1, p2, c1, c2, b1, n1, n2, s1, s2

Put(ts, fields, deleted) ==
    [route |-> "put", id |-> p1, ts |-> ts, fields |-> fields, deleted |-> deleted]

Patch(fields) == [route |-> "patch", id |-> p1, fields |-> fields]

PutCategory(ts, id, name, deleted) ==
    [route |-> "putCategory", id |-> id, ts |-> ts, name |-> name, deleted |-> deleted]

On(route, id) == [route |-> route, id |-> id]

Full(name, barcode, stock) == [name |-> name, barcode |-> barcode, stock |-> stock]

Line(barcode, stock, category) ==
    [id |-> p2, fields |-> Full(n1, barcode, stock) @@ [category |-> category]]

Pool == {
    Put(1, Full(n1, b1, 1), FALSE),
    Put(5, Full(n2, None, 1) @@ [category |-> c1], FALSE),
    Put(9, Full(n1, None, 2), TRUE),
    Patch([stock |-> 2, barcode |-> b1]),
    Patch([stock |-> None, category |-> c1]),
    On("delete", p1),
    [route |-> "bulk", items |-> <<Malformed, Line(b1, 1, None)>>],
    [route |-> "create", items |-> <<Line(None, None, c1)>>],
    [route |-> "adjust", id |-> p1, delta |-> 2],
    [route |-> "sale", id |-> p1, delta |-> -1],
    [route |-> "image", id |-> p1, sha |-> s1],
    [route |-> "image", id |-> p1, sha |-> s2],
    [route |-> "image", id |-> p1, sha |-> Malformed],
    On("unimage", p1),
    [route |-> "newCategory", id |-> c1, name |-> n1],
    [route |-> "rename", id |-> c1, name |-> n2],
    On("dropCategory", c1),
    PutCategory(3, c2, n1, FALSE),
    PutCategory(9, c1, n1, TRUE)}

WorkerSymmetry == Permutations(Workers)
==============================================================================
