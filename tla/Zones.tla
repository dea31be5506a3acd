-------------------------------- MODULE Zones --------------------------------
(***************************************************************************)
(* Where the store delivers (apps/serviceability): polygons drawn on a     *)
(* map, areas keyed by pincode with an optional circle, and a waiting list *)
(* for the rest.  The ray casting is computed here over integer points, in *)
(* exact arithmetic; the code uses floating point.                         *)
(***************************************************************************)
EXTENDS Integers, Sequences, FiniteSets, SequencesExt

CONSTANTS
    Zones,        \* zone ids, numbers
    Polygon,      \* the rings of each zone: the outer one, then its holes
    Priority,     \* DeliveryZone.priority
    Areas,        \* pincodes of the serviceable areas
    Circle,       \* the points inside the geofence of each area that has one
    NoFence,      \* an area without a geofence
    Grid,         \* coordinates of the points asked about: pairs <<x, y>>
    NoPoint,      \* an address without coordinates
    Pincodes,
    Phones,
    Borders,      \* <<whole, one, other>>: zones a straight border cuts a zone into
    Rectangle     \* the zones that are one: <<low corner, high corner>>

\* The ring of a rectangle.
Corners(lo, hi) == <<lo, <<hi[1], lo[2]>>, hi, <<lo[1], hi[2]>>>>

ASSUME ZonesAssumption ==
    /\ IsFiniteSet(Zones) /\ Zones \subseteq Nat /\ Priority \in [Zones -> Int]
    /\ Grid \subseteq Int \X Int /\ NoPoint \notin Grid
    /\ \A z \in DOMAIN Rectangle :
          LET lo == Rectangle[z][1]
              hi == Rectangle[z][2]
          IN  /\ lo \in Int \X Int /\ hi \in Int \X Int
              /\ lo[1] < hi[1] /\ lo[2] < hi[2]
              /\ Polygon[z] = <<Corners(lo, hi)>>

\* On which side of the line from u to v the point q lies: its sign.
Side(u, v, q) == (v[1] - u[1]) * (q[2] - u[2]) - (v[2] - u[2]) * (q[1] - u[1])

\* A straight border from the i-th corner of a ring to the j-th, with corners along
\* it or none: one half takes the corners between, the other half the rest, and
\* the halves lie on either side of its line.
CutInTwo(whole, one, other) ==
    \E i, j \in DOMAIN whole :
        LET along == SubSeq(one, i + 1, Len(one) - (Len(whole) - j + 1))
            side(q) == Side(whole[i], whole[j], q)
        IN  /\ i < j /\ whole[i] # whole[j]
            /\ one = SubSeq(whole, 1, i) \o along \o SubSeq(whole, j, Len(whole))
            /\ other = SubSeq(whole, i, j) \o Reverse(along)
            /\ \/ /\ \A k \in DOMAIN one : side(one[k]) <= 0
                  /\ \A k \in DOMAIN other : side(other[k]) >= 0
               \/ /\ \A k \in DOMAIN one : side(one[k]) >= 0
                  /\ \A k \in DOMAIN other : side(other[k]) <= 0

ASSUME BordersAssumption ==
    \A e \in Borders :
        /\ \A k \in 1..3 : Len(Polygon[e[k]]) = 1 /\ Polygon[e[k]][1] \in Seq(Int \X Int)
        /\ CutInTwo(Polygon[e[1]][1], Polygon[e[2]][1], Polygon[e[3]][1])

VARIABLES
    zoneOn,       \* the active zones
    areaOn,       \* the active areas
    waiting       \* serviceability_waitlist: the <<phone, pincode>> pairs on it

zonesVars == <<zoneOn, areaOn, waiting>>

ZonesInit ==
    /\ zoneOn = {} /\ areaOn = {}
    /\ waiting = {}

-----------------------------------------------------------------------------
(* Point in polygon.                                                       *)

\* A faulty build that counts an end point on the ray for both its edges.
TouchesRay(y, yi, yj) == (yi >= y /\ yj <= y) \/ (yi <= y /\ yj >= y)

\* (yi > y) != (yj > y): an edge reaches over the ray when one end is above.
Straddles(y, yi, yj) == (yi > y) # (yj > y)

\* x < (xj - xi) * (y - yi) / (yj - yi) + xi, without the division.
LeftOf(x, y, a, b) ==
    IF b[2] > a[2] THEN (x - a[1]) * (b[2] - a[2]) < (b[1] - a[1]) * (y - a[2])
                   ELSE (x - a[1]) * (b[2] - a[2]) > (b[1] - a[1]) * (y - a[2])

\* _point_in_ring: inside when an odd number of edges is to the right.
PointInRing(p, ring) ==
    LET before(i) == IF i = 1 THEN Len(ring) ELSE i - 1
        crossed == {i \in DOMAIN ring :
                       /\ Straddles(p[2], ring[i][2], ring[before(i)][2])
                       /\ LeftOf(p[1], p[2], ring[i], ring[before(i)])}
    IN  Cardinality(crossed) % 2 = 1

\* _point_in_polygon: inside the outer ring and outside every hole.
PointInPolygon(p, rings) ==
    /\ rings # <<>> /\ PointInRing(p, rings[1])
    /\ \A i \in 2..Len(rings) : ~PointInRing(p, rings[i])

\* The points that each zone contains, worked out once; NoPoint is in none.
Inside == [z \in Zones |-> {p \in Grid : PointInPolygon(p, Polygon[z])}]

ZonesAt(p) == {z \in zoneOn : p \in Inside[z]}

\* A faulty build that goes by age alone.
OldestZone(p) == CHOOSE z \in ZonesAt(p) : \A y \in ZonesAt(p) \ {z} : z < y

\* zone_for_point: highest priority, then lowest id, of the active zones.
ZoneForPoint(p) ==
    CHOOSE z \in ZonesAt(p) : \A y \in ZonesAt(p) \ {z} :
        Priority[z] > Priority[y] \/ (Priority[z] = Priority[y] /\ z < y)

\* check: open until something is active; zones first, then the pincode.
Check(pin, p, zones, areas) ==
    LET within == {z \in zones : p \in Inside[z]}
    IN  \/ zones = {} /\ areas = {}
        \/ within # {}
        \/ /\ pin \in areas
           /\ Circle[pin] = NoFence \/ p = NoPoint \/ p \in Circle[pin]

-----------------------------------------------------------------------------
(* Operations.                                                             *)

\* DeliveryZoneDetailView, ServiceableAreaDetailView: drawn, activated, removed.
SwitchZone(z) ==
    /\ zoneOn' = IF z \in zoneOn THEN zoneOn \ {z} ELSE zoneOn \cup {z}
    /\ UNCHANGED <<areaOn, waiting>>

SwitchArea(a) ==
    /\ areaOn' = IF a \in areaOn THEN areaOn \ {a} ELSE areaOn \cup {a}
    /\ UNCHANGED <<zoneOn, waiting>>

\* waitlist: "asking again refreshes the same row"; the pair is unique.
JoinWaitlist(phone, pin) ==
    /\ waiting' = waiting \cup {<<phone, pin>>}
    /\ UNCHANGED <<zoneOn, areaOn>>

ZonesNext ==
    \/ \E z \in Zones : SwitchZone(z)
    \/ \E a \in Areas : SwitchArea(a)
    \/ \E phone \in Phones, pin \in Pincodes : JoinWaitlist(phone, pin)

ZonesSpec == ZonesInit /\ [][ZonesNext]_zonesVars

-----------------------------------------------------------------------------
(* Ray casting puts a point on the border that two zones share into        *)
(* exactly one of them, wherever the border runs, corners and horizontal   *)
(* sides included: a zone cut in two serves the points it served before.   *)
BordersTile ==
    \A e \in Borders : {e[2], e[3]} \subseteq zoneOn =>
        \A p \in Grid :
            LET one   == PointInPolygon(p, Polygon[e[2]])
                other == PointInPolygon(p, Polygon[e[3]])
            IN  /\ PointInPolygon(p, Polygon[e[1]]) <=> one \/ other
                /\ ~(one /\ other)

\* A rectangle holds its low sides and not its high ones.
RectanglesHalfOpen ==
    \A z \in zoneOn \cap DOMAIN Rectangle :
        LET lo == Rectangle[z][1]
            hi == Rectangle[z][2]
        IN  \A p \in Grid : PointInPolygon(p, Polygon[z]) <=>
                               p[1] \in lo[1]..hi[1] - 1 /\ p[2] \in lo[2]..hi[2] - 1

\* The zone reported for a point contains it and is the first of those that do.
BestZoneReported ==
    \A p \in Grid : ZonesAt(p) # {} =>
        /\ ZoneForPoint(p) \in ZonesAt(p)
        /\ \A z \in ZonesAt(p) : Priority[z] <= Priority[ZoneForPoint(p)]
        /\ \A pin \in Pincodes : Check(pin, p, zoneOn, areaOn)

\* One more zone or area takes the service away from nobody.
ServiceOnlyGrows ==
    zoneOn # {} \/ areaOn # {} =>
        \A p \in Grid \cup {NoPoint}, pin \in Pincodes :
            Check(pin, p, zoneOn, areaOn) =>
                /\ \A z \in Zones \ zoneOn : Check(pin, p, zoneOn \cup {z}, areaOn)
                /\ \A a \in Areas \ areaOn : Check(pin, p, zoneOn, areaOn \cup {a})

(* Ray casting makes of a rectangle the half-open one, so that rectangles  *)
(* side by side share no point.  The zone reported for a point contains    *)
(* it, no active zone that contains it has a higher priority, and the      *)
(* point is served.  Switching one more zone or area on takes the service  *)
(* away from nobody, unless it is the first, before which the store        *)
(* delivers everywhere.                                                    *)
ZonesAgree == RectanglesHalfOpen /\ BestZoneReported /\ ServiceOnlyGrows

=============================================================================
