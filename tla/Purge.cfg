SPECIFICATION FairSpec
CONSTANTS
    user = user
    shop = shop
    cat1 = cat1
    prod1 = prod1
    sale1 = sale1
    item1 = item1
    move1 = move1
    sale2 = sale2
    item2 = item2
    move2 = move2
    sale3 = sale3
    item3 = item3
    ret1 = ret1
    retitem1 = retitem1
    retmove1 = retmove1
    image1 = image1
    logo1 = logo1
    Rows <- MCRows
    Table <- MCTable
    Refs <- MCRefs
    Established <- MCEstablished
    Jobs <- MCJobs
    Owners = {o1, o2}
    Writers = {w1, w2}
    None = None
INVARIANTS AllOrNothing
PROPERTIES GoneAtLast AccountSpec
CHECK_DEADLOCK FALSE
