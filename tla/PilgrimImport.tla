--------------------------- MODULE PilgrimImport ---------------------------
(***************************************************************************)
(* What an imported Excel file is accepted for (pilgrims-import.ts).  A row *)
(* is a record of cells: phone and pinfl (normalized; anything else is in  *)
(* none of Phones and Pinfls), named (first and last name are there and    *)
(* not too long), and the names of a country, a region and a district,     *)
(* None for an empty cell.  Error codes are not told apart: a file with    *)
(* any error creates nothing.                                              *)
(***************************************************************************)
EXTENDS Naturals, Sequences, FiniteSets

CONSTANTS Phones, Pinfls, None,
          Countries, Regions, Districts   \* live rows: records of id, name and parent

Earlier(rows, i, field) == {rows[j][field] : j \in 1..(i - 1)}

\* Looks at the row above only.  \* mutant
PhoneOkNearby(rows, i, taken) ==
  /\ rows[i].phone \in Phones \ taken
  /\ i > 1 => rows[i].phone # rows[i - 1].phone

PhoneOk(rows, i, taken) ==
  /\ rows[i].phone \in Phones \ taken
  /\ rows[i].phone \notin Earlier(rows, i, "phone")

PinflOk(rows, i, taken) ==
  rows[i].pinfl # None => /\ rows[i].pinfl \in Pinfls \ taken
                          /\ rows[i].pinfl \notin Earlier(rows, i, "pinfl")

-----------------------------------------------------------------------------
(* Country, region, district: each is optional, and a lower level fills in  *)
(* the higher one.                                                          *)

Under(items, name, parents) == {x \in items : x.name = name /\ x.parent \in parents}

\* What a cell stands for: nothing when it is empty, otherwise its only match.
Pick(cell, found) == IF cell = None THEN {None}
                     ELSE IF Cardinality(found) = 1 THEN found ELSE {}

Any == {None} \cup {x.parent : x \in Countries \cup Regions \cup Districts}

PickCountry(r) == Pick(r.country, Under(Countries, r.country, Any))
PickRegion(r, c) == Pick(r.region, Under(Regions, r.region, IF c = None THEN Any ELSE {c.id}))

\* Without a region every district of that name counts.  \* mutant
PickAnyDistrict(r, c, g) ==
  Pick(r.district, Under(Districts, r.district, IF g # None THEN {g.id} ELSE Any))

\* Without a region the district must sit in the chosen country.
PickDistrict(r, c, g) == Pick(r.district, Under(Districts, r.district,
  IF g # None THEN {g.id}
  ELSE IF c # None THEN {x.id : x \in {y \in Regions : y.parent = c.id}} ELSE Any))

\* The country of the live region with this id, if there is one.
CountryOf(region) == LET found == {x \in Regions : x.id = region}
                     IN IF found = {} THEN None ELSE (CHOOSE x \in found : TRUE).parent

Filled(c, g, d) ==
  LET region == IF g # None THEN g.id ELSE IF d # None THEN d.parent ELSE None
  IN [region |-> region,
      country |-> IF c # None THEN c.id ELSE IF g # None THEN g.parent ELSE CountryOf(region),
      district |-> IF d = None THEN None ELSE d.id]

\* The places row r may stand for: one, or none when a name is wrong.
Places(r) == UNION {UNION {{Filled(c, g, d) : d \in PickDistrict(r, c, g)}
                           : g \in PickRegion(r, c)} : c \in PickCountry(r)}

-----------------------------------------------------------------------------

RowOk(rows, i, taken) ==
  /\ PhoneOk(rows, i, taken) /\ PinflOk(rows, i, taken)
  /\ rows[i].named
  /\ Places(rows[i]) # {}

FileOk(rows, taken) == \A i \in DOMAIN rows : RowOk(rows, i, taken)

\* What is inserted for an accepted file.
Items(rows) == [i \in DOMAIN rows |->
  [phone |-> rows[i].phone, pinfl |-> rows[i].pinfl,
   place |-> CHOOSE p \in Places(rows[i]) : TRUE]]

=============================================================================
