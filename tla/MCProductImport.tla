--------------------------- MODULE MCProductImport ---------------------------
(***************************************************************************)
(* Two imports at once, and a product and a category of another device.    *)
(* The files fail at every stage of a line, after lines that were written  *)
(* and before lines that will be: a stock that INTEGER cannot hold after   *)
(* the INSERT, a barcode that comes twice, a category the store lacks, a   *)
(* line that is no product.  The second file takes the barcodes in the     *)
(* other order, so that the two imports can wait for each other.           *)
(***************************************************************************)
EXTENDS ProductImport

CONSTANTS b1, b2, c1

Item(b, c, s) == [barcode |-> b, category |-> c, stock |-> s]

MCFiles ==
    {<<Item(b1, None, 1), Item(b2, None, 2), Item(b2, None, None)>>,
     <<Item(b2, None, 1), Malformed, Item(b1, None, 1)>>,
     <<Item(b1, None, None), Item(b1, None, 1), Item(None, c1, 2)>>}
=============================================================================
