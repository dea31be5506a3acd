\* Tickets, pages, invoices, customers, addresses, riders, carts and zones,
\* one component at a time.
SPECIFICATION ServicesSpec
CONSTANTS
    Scenes = {"tickets", "pages", "invoices", "accounts", "addresses", "riders", "cart", "zones"}
    a1 = a1
    a2 = a2
    b1 = b1
    b2 = b2
    u1 = u1
    o1 = o1
    o2 = o2
    c1 = c1
    c2 = c2
    pa = pa
    pb = pb
    l1 = l1
    l2 = l2
    d1 = d1
    d2 = d2
    w1 = w1
    w2 = w2
    k1 = k1
    k2 = k2
    v1 = v1
    v2 = v2
    e1 = e1
    e2 = e2
    Tickets = {1, 2}
    Agents = {a1, a2}
    Refunds = {0, 1}
    Typed <- MCTyped
    MaxCredits = 2
    MaxEdited = 1
    Browsers = {b1, b2}
    Raters = {u1}
    Stars = {1, 5}
    FullStock = 1
    MaxWrites = 2
    Bills = {o1, o2}
    Clerks = {c1, c2}
    Totals = {1, 2}
    NoNumber = NoNumber
    MaxMails = 1
    MaxAsks = 3
    People = {pa, pb}
    Dialled = {"", "91", "0"}
    Logins = {l1, l2}
    Uploads = {1}
    Files <- MCFiles
    MaxCodes = 1
    MaxOnboarded = 1
    ReportEvery = 2
    KeepErrors = 1
    Places = {d1, d2}
    Writers = {w1, w2}
    Nowhere = Nowhere
    MaxSaves = 3
    Riders = {1, 2}
    Office = {2}
    Designated = 1
    Parcels = {e1, e2}
    Lines <- MCLines
    Cash = {e1}
    ToOffice = {e2}
    Nobody = Nobody
    RiderFee = 2000
    UnitPrice = 1
    Scale = 6
    Top = 1
    LastDate = 2
    Variants = {v1, v2}
    Price <- MCPrice
    Mrp <- MCMrp
    Carriers = {k1, k2}
    MostUnits = 2
    Store <- MCStore
    Coupons <- MCCoupons
    NoCap = NoCap
    MaxEdits = 2
    Zones = {1, 2, 3, 4, 5, 6, 7}
    Polygon <- MCPolygon
    Priority <- MCPriority
    Areas = {"p1", "p2"}
    Circle <- MCCircle
    NoFence = NoFence
    Grid <- MCGrid
    NoPoint = NoPoint
    Pincodes = {"p1", "p2"}
    Phones = {"f1"}
    Borders <- MCBorders
    Rectangle <- MCRectangle
SYMMETRY Symmetry
INVARIANTS
    RefundedOnce
    PagesTellTheTruth
    InvoiceNumbered
    CartAddsUp
    AccountPerPerson
    ImportAccounted
    DefaultIsChosen
    RiderScreensAgree
    BordersTile
    ZonesAgree
CHECK_DEADLOCK FALSE
