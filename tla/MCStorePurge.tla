---------------------------- MODULE MCStorePurge -----------------------------
(***************************************************************************)
(* An account with a product, its category, a sale and its return.  The     *)
(* owner asks twice at once while devices push a batch of two sales, the    *)
(* second one without a product, and the image of the product.              *)
(***************************************************************************)
EXTENDS StorePurge, TLC

CONSTANTS user, shop, cat1, prod1, sale1, item1, move1,
          sale2, item2, move2, sale3, item3, ret1, retitem1, retmove1, image1, logo1

MCTable ==
    user :> "users" @@ shop :> "stores" @@ cat1 :> "categories" @@
    prod1 :> "products" @@ image1 :> "product_images" @@
    logo1 :> "store_logos" @@ sale1 :> "sales" @@ sale2 :> "sales" @@ sale3 :> "sales" @@
    item1 :> "sale_items" @@ item2 :> "sale_items" @@ item3 :> "sale_items" @@
    move1 :> "stock_movements" @@ move2 :> "stock_movements" @@
    ret1 :> "sale_returns" @@ retitem1 :> "sale_return_items" @@
    retmove1 :> "stock_movements"

MCRows == DOMAIN MCTable

MCRefs ==
    user :> {} @@ shop :> {user} @@ cat1 :> {shop} @@
    prod1 :> {shop, cat1} @@ image1 :> {shop, prod1} @@
    logo1 :> {shop} @@ sale1 :> {shop, user} @@ sale2 :> {shop, user} @@
    sale3 :> {shop, user} @@ item3 :> {shop, sale3} @@
    item1 :> {shop, sale1, prod1} @@ item2 :> {shop, sale2, prod1} @@
    move1 :> {shop, prod1, sale1, user} @@ move2 :> {shop, prod1, sale2, user} @@
    ret1 :> {shop, sale1, user} @@ retitem1 :> {shop, ret1, item1, prod1} @@
    retmove1 :> {shop, prod1, ret1, user}

MCEstablished == MCRows \ {sale2, item2, move2, sale3, item3, image1}

MCJobs == {<<<<sale2, item2, move2>>, <<sale3, item3>>>>,
           <<<<image1>>>>}
==============================================================================
