---------------------------- MODULE BexBusProofs ----------------------------
(***************************************************************************)
(* Proofs about BexBus, for any number of devices, names and adders and    *)
(* any finite number of deleters: what is bound to the driver, which name  *)
(* its misc devices ask for, whose memory an open file uses, and how many  *)
(* references a device has.                                                *)
(***************************************************************************)
EXTENDS BexBus, FiniteSetTheorems, TLAPS

States == {"new", "on", "off", "lost", "broken"}

TypeInv ==
  /\ dev \in [Devs -> Device \cup {Free}]
  /\ refs \in [Devs -> Int]
  /\ new \in [Adders -> Devs \cup {NoDev}]
  /\ found \in [Deleters -> Devs \cup {NoDev}]
  /\ drv \in {"none", "attaching", "on", "detaching"}
  /\ files \subseteq Devs
  /\ probe \in [Devs -> {"idle", "load", "store", "register"}]
  /\ num \in [Devs -> Int]
  /\ bex_misc_count \in 0..(CountMod - 1) /\ miscounted \in BOOLEAN

\* What an adder has allocated is its own until it has registered and probed it.
NewInv ==
  /\ \A a \in Adders : new[a] # NoDev =>
       \/ dev[new[a]].st = "new"
       \/ dev[new[a]].st = "on" /\ probe[new[a]] # "idle"
  /\ \A a, b \in Adders : new[a] = new[b] /\ new[a] # NoDev => a = b

\* The driver core knows only devices that are on the bus.
PlaceInv ==
  /\ bound \subseteq On /\ failed \subseteq On /\ todo \subseteq On /\ Probing \subseteq On
  /\ bound \cap Probing = {}

\* What each phase of the driver excludes.
DrvInv ==
  /\ drv \in {"none", "detaching"} => files = {}
  /\ drv = "none" => bound = {} /\ Probing = {}
  /\ drv # "attaching" => todo = {}

FileInv == \A d \in files : dev[d].st # "new" /\ (dev[d].st = "on" => d \in bound)

Fits(d) == dev[d].type \in MiscTypes /\ dev[d].version <= 1

\* While the driver is being registered it has yet to try what it misses.
BoundInv ==
  \A d \in On :
    /\ d \in bound \cup Probing => Fits(d)
    /\ drv \in {"attaching", "on"} /\ Fits(d) => d \in bound \cup failed \cup Probing \cup todo

\* The devices whose misc device has a number in its name.  Until an increment
\* is lost bex_misc_count is above each of these numbers.
Named == {d \in Devs : probe[d] # "store" /\ num[d] # Unnamed}

NameInv ==
  /\ \A d \in Devs \ bound : probe[d] \in {"idle", "load"} => num[d] = Unnamed
  /\ miscounted \/ \A d \in Named : num[d] < bex_misc_count
  /\ miscounted \/ \A d, e \in Named : num[d] = num[e] => d = e

Finders(d) == {w \in Deleters : found[w] = d}

RefsInv ==
  \A d \in Devs :
    /\ dev[d].st \in {"new", "on", "lost"} => refs[d] = 1 + Cardinality(Finders(d))
    /\ dev[d].st = "off" => refs[d] = Cardinality(Finders(d)) /\ refs[d] > 0
    /\ dev[d].st = "free" => refs[d] = 0 /\ Finders(d) = {}

\* The driver's half of the invariant, the names' and the references'.
BusInv == NewInv /\ PlaceInv /\ DrvInv /\ FileInv /\ BoundInv
BexInv == TypeInv /\ BusInv /\ NameInv /\ RefsInv

-----------------------------------------------------------------------------
\* What setting the state of a struct bex_device leaves alone.
LEMMA SetState ==
  ASSUME NEW x \in Device, NEW s \in States
  PROVE  LET y == [x EXCEPT !.st = s]
         IN  /\ y \in Device /\ y.st = s
             /\ y.type = x.type /\ y.version = x.version
BY DEF Device, States

\* A device that is not free memory is a struct bex_device.
LEMMA IsDevice ==
  ASSUME TypeInv, NEW d \in Devs, dev[d].st # "free"
  PROVE  dev[d] \in Device
BY DEF TypeInv, Free

LEMMA FindersFinite ==
  ASSUME NEW d
  PROVE  /\ IsFiniteSet(Finders(d)) /\ Cardinality(Finders(d)) \in Nat
BY FiniteAssumption, FS_Subset, FS_CardinalityType DEF Finders

\* The next value of bex_misc_count.
LEMMA CountNext ==
  ASSUME NEW i \in 0..(CountMod - 1)
  PROVE  (i + 1) % CountMod = (IF i = CountMod - 1 THEN 0 ELSE i + 1)
BY BexAssumption

\* Match and probe fail, or begin a probe of a device that fits.
LEMMA AttachBegins ==
  ASSUME BexInv, NEW d \in Devs \ Probing, dev[d].version \in Int, Attach(d)
  PROVE  /\ UNCHANGED <<num, bound, bex_misc_count, miscounted>>
         /\ probe' \in [Devs -> {"idle", "load", "store", "register"}]
         /\ \/ probe' = probe /\ Probing' = Probing /\ failed' \in {failed, failed \cup {d}}
            \/ /\ probe' # probe /\ probe' = [probe EXCEPT ![d] = "load"]
               /\ Probing' = Probing \cup {d} /\ failed' = failed \ {d}
               /\ Fits(d) /\ d \notin bound
         /\ Fits(d) => d \in bound \cup failed' \cup Probing'
         /\ NameInv'
<1>1. /\ UNCHANGED <<num, bound, bex_misc_count, miscounted>>
      /\ \/ probe' = probe /\ failed' \in {failed, failed \cup {d}}
         \/ /\ probe' = [probe EXCEPT ![d] = "load"] /\ failed' = failed \ {d}
            /\ Fits(d) /\ d \notin bound
      /\ probe' = probe => bound' = bound /\ (Fits(d) => d \in bound \cup failed' \cup Probing')
  <2>1. CASE bex_match(d) /\ d \notin bound
    <3>1. /\ \/ failed' = failed \cup {d} /\ UNCHANGED probe
             \/ dev[d].version <= 1 /\ probe' = [probe EXCEPT ![d] = "load"] /\ failed' = failed \ {d}
          /\ UNCHANGED <<num, bound, bex_misc_count, miscounted>>
      BY <2>1 DEF Attach, bex_misc_probe
    <3>2. probe[d] = "idle"
      BY DEF Probing
    <3>3. probe' = [probe EXCEPT ![d] = "load"] => probe'[d] = "load"
      BY DEF BexInv, TypeInv
    <3> QED BY <2>1, <3>1, <3>2, <3>3 DEF bex_match, Fits
  <2>2. CASE ~(bex_match(d) /\ d \notin bound)
    BY <2>2 DEF Attach, misc, bex_match, Fits
  <2> QED BY <2>1, <2>2
<1>2. CASE probe' = probe
  <2>1. Probing' = Probing /\ Named' = Named
    BY <1>1, <1>2 DEF Probing, Named
  <2>2. NameInv'
    BY <1>1, <1>2, <2>1 DEF BexInv, NameInv
  <2> QED BY <1>1, <1>2, <2>1, <2>2 DEF BexInv, TypeInv
<1>3. CASE probe' # probe
  <2>1. probe' = [probe EXCEPT ![d] = "load"]
    BY <1>1, <1>3
  <2>2. probe'[d] = "load" /\ \A e \in Devs \ {d} : probe'[e] = probe[e]
    BY <2>1 DEF BexInv, TypeInv
  <2>3. Probing' = Probing \cup {d}
    BY <2>2 DEF Probing
  <2>4. d \notin bound /\ num[d] = Unnamed
    BY <1>1, <1>3 DEF BexInv, NameInv, Probing
  <2>5. Named' = Named
    BY <1>1, <2>2, <2>4 DEF Named
  <2>6. NameInv'
    BY <1>1, <2>2, <2>4, <2>5 DEF BexInv, NameInv
  <2> QED BY <1>1, <1>3, <2>1, <2>3, <2>6 DEF BexInv, TypeInv
<1> QED BY <1>2, <1>3

\* A step that leaves the probes and what they have registered alone.
LEMMA NamesStay ==
  ASSUME NameInv, UNCHANGED <<probe, num, bound, bex_misc_count, miscounted>>
  PROVE  NameInv'
BY DEF NameInv, Named

\* bex_misc_remove takes a name away.
LEMMA RemoveNames ==
  ASSUME BexInv, NEW d \in Devs \ Probing, bex_misc_remove(d), UNCHANGED <<probe, miscounted>>
  PROVE  /\ bound' = bound \ {d} /\ num' \in [Devs -> Int] /\ NameInv'
         /\ bex_misc_count' \in 0..(CountMod - 1)
<1>1. /\ bound' = bound \ {d} /\ num' = [num EXCEPT ![d] = Unnamed]
      /\ UNCHANGED bex_misc_count
  BY DEF bex_misc_remove
<1>2. num'[d] = Unnamed /\ \A e \in Devs \ {d} : num'[e] = num[e]
  BY <1>1 DEF BexInv, TypeInv
<1>3. Named' \subseteq Named \ {d}
  BY <1>2 DEF Named
<1>4. \A e \in Named' : num'[e] = num[e]
  BY <1>2, <1>3 DEF Named
<1>5. NameInv'
  BY <1>1, <1>2, <1>3, <1>4 DEF BexInv, NameInv
<1> QED BY <1>1, <1>5 DEF BexInv, TypeInv, Unnamed

\* A step that leaves the devices, and who has found them, alone.
LEMMA RefsStay ==
  ASSUME RefsInv, UNCHANGED <<dev, refs, found>>
  PROVE  RefsInv'
BY DEF RefsInv, Finders

-----------------------------------------------------------------------------
LEMMA AllocInv ==
  ASSUME BexInv, NEW a \in Adders, NEW d \in Devs, NEW name \in Names,
         NEW type \in Types, NEW version \in Versions,
         AddAlloc(a, d, name, type, version)
  PROVE  BexInv'
<1> DEFINE x == [st |-> "new", name |-> name, type |-> type, version |-> version]
<1>1. x \in Device /\ x.st = "new"
  BY DEF Device
<1> HIDE DEF x
<1>2. /\ new[a] = NoDev /\ dev[d] = Free /\ d \notin files
      /\ dev' = [dev EXCEPT ![d] = x]
      /\ refs' = [refs EXCEPT ![d] = 1]
      /\ new' = [new EXCEPT ![a] = d]
      /\ UNCHANGED <<drv, todo, probe, num, bound, failed, bex_misc_count, miscounted,
                     files, found>>
  BY DEF AddAlloc, x, misc
<1>3. dev[d].st = "free"
  BY <1>2 DEF Free
<1>4. TypeInv'
  BY <1>1, <1>2 DEF BexInv, TypeInv
<1>5. /\ dev'[d] = x /\ \A e \in Devs \ {d} : dev'[e] = dev[e]
      /\ refs'[d] = 1 /\ \A e \in Devs \ {d} : refs'[e] = refs[e]
      /\ new'[a] = d /\ \A b \in Adders \ {a} : new'[b] = new[b]
  BY <1>2 DEF BexInv, TypeInv
<1>6. On' = On
  BY <1>1, <1>3, <1>5 DEF On
<1>7. NewInv'
  BY <1>1, <1>2, <1>3, <1>4, <1>5, BexAssumption DEF BexInv, BusInv, TypeInv, NewInv
<1>8. PlaceInv' /\ DrvInv'
  BY <1>2, <1>6 DEF BexInv, BusInv, PlaceInv, DrvInv, Probing
<1>9. FileInv'
  BY <1>2, <1>5 DEF BexInv, BusInv, TypeInv, FileInv
<1>10. BoundInv'
  BY <1>2, <1>3, <1>5, <1>6 DEF BexInv, BusInv, BoundInv, On, Fits, Probing
<1>11. RefsInv'
  <2>1. \A e : Finders(e)' = Finders(e)
    BY <1>2 DEF Finders
  <2>2. Finders(d) = {}
    BY <1>3 DEF BexInv, RefsInv
  <2>3. refs'[d] = 1 + Cardinality(Finders(d))
    BY <1>5, <2>2, FS_EmptySet
  <2> QED BY <1>1, <1>5, <2>1, <2>3 DEF BexInv, RefsInv
<1>12. NameInv'
  BY <1>2, NamesStay DEF BexInv
<1> QED BY <1>4, <1>7, <1>8, <1>9, <1>10, <1>11, <1>12 DEF BexInv, BusInv

LEMMA RegisterInv ==
  ASSUME BexInv, NEW a \in Adders, AddRegister(a)
  PROVE  BexInv'
<1>0. PICK d \in Devs : d = new[a]
  BY DEF AddRegister, BexInv, TypeInv
<1> DEFINE x == [dev[d] EXCEPT !.st = "on"]
<1>1. /\ dev[d].st = "new" /\ dev' = [dev EXCEPT ![d] = x]
      /\ IF drv \in {"attaching", "on"} THEN Attach(d) ELSE UNCHANGED misc
      /\ new' = [new EXCEPT ![a] = IF probe' = probe THEN NoDev ELSE d]
      /\ todo' = IF todo = {} THEN {} ELSE todo \cup {d}
      /\ UNCHANGED <<refs, drv, files, found>>
  BY <1>0 DEF AddRegister
<1>2. dev[d] \in Device
  BY <1>1, IsDevice DEF BexInv
<1>3. /\ x \in Device /\ x.st = "on"
      /\ x.type = dev[d].type /\ x.version = dev[d].version
  BY <1>2, SetState DEF States
<1>4. dev[d].version \in Int
  BY <1>2, BexAssumption DEF Device
<1> HIDE DEF x
<1>5. d \notin On /\ d \notin Probing /\ d \notin bound
  BY <1>1 DEF BexInv, BusInv, PlaceInv, On
<1>6. /\ UNCHANGED <<num, bound, bex_misc_count, miscounted>>
      /\ probe' \in [Devs -> {"idle", "load", "store", "register"}]
      /\ \/ probe' = probe /\ Probing' = Probing /\ failed' \in {failed, failed \cup {d}}
         \/ /\ probe' # probe /\ probe' = [probe EXCEPT ![d] = "load"]
            /\ Probing' = Probing \cup {d} /\ failed' = failed \ {d}
            /\ Fits(d) /\ d \notin bound
      /\ drv \in {"attaching", "on"} /\ Fits(d) => d \in bound \cup failed' \cup Probing'
      /\ drv \notin {"attaching", "on"} => Probing' = Probing
      /\ NameInv'
  <2>1. CASE drv \in {"attaching", "on"}
    <3>1. Attach(d)
      BY <1>1, <2>1
    <3> QED BY <1>4, <1>5, <2>1, <3>1, AttachBegins
  <2>2. CASE drv \notin {"attaching", "on"}
    <3>1. UNCHANGED <<probe, num, bound, failed, bex_misc_count, miscounted>>
      BY <1>1, <2>2 DEF misc
    <3>2. NameInv' /\ Probing' = Probing
      BY <3>1, NamesStay DEF BexInv, Probing
    <3> QED BY <2>2, <3>1, <3>2 DEF BexInv, TypeInv
  <2> QED BY <2>1, <2>2
<1>7. /\ dev'[d] = x /\ \A e \in Devs \ {d} : dev'[e] = dev[e]
      /\ new'[a] \in {NoDev, d} /\ \A b \in Adders \ {a} : new'[b] = new[b]
      /\ new'[a] # NoDev => d \in Probing'
  <2>1. probe' # probe => d \in Probing'
    BY <1>6
  <2> QED BY <1>1, <2>1 DEF BexInv, TypeInv
<1>8. TypeInv'
  BY <1>1, <1>3, <1>6 DEF BexInv, TypeInv
<1>9. On' = On \cup {d}
  BY <1>1, <1>3, <1>7 DEF On
<1>10. NewInv'
  <2>1. \A b \in Adders \ {a} : new[b] # NoDev => new[b] # d /\ new[b] \in Devs
    BY <1>0 DEF BexInv, BusInv, NewInv, TypeInv
  <2>2. \A e \in Devs \ {d} : probe[e] # "idle" => probe'[e] # "idle"
    BY <1>6 DEF Probing
  <2>3. new'[a] # NoDev => new'[a] = d /\ dev'[d].st = "on" /\ probe'[d] # "idle"
    BY <1>3, <1>7 DEF Probing
  <2> QED BY <1>7, <2>1, <2>2, <2>3 DEF BexInv, BusInv, NewInv
<1>11. PlaceInv'
  BY <1>1, <1>5, <1>6, <1>9 DEF BexInv, BusInv, PlaceInv
<1>12. DrvInv'
  BY <1>1, <1>6 DEF BexInv, BusInv, DrvInv, TypeInv
<1>13. FileInv'
  <2>1. d \notin files
    BY <1>1, <1>5 DEF BexInv, BusInv, FileInv
  <2> QED BY <1>1, <1>6, <1>7, <2>1 DEF BexInv, BusInv, TypeInv, FileInv
<1>14. BoundInv'
  <2>1. \A e \in On : e # d /\ Fits(e)' = Fits(e)
    BY <1>5, <1>7 DEF On, Fits
  <2>2. Fits(d)' = Fits(d)
    BY <1>3, <1>7 DEF Fits
  <2> QED BY <1>1, <1>5, <1>6, <1>9, <2>1, <2>2 DEF BexInv, BusInv, BoundInv
<1>15. RefsInv'
  <2>1. \A e : Finders(e)' = Finders(e)
    BY <1>1 DEF Finders
  <2> QED BY <1>1, <1>3, <1>7, <2>1 DEF BexInv, RefsInv
<1> QED BY <1>6, <1>8, <1>10, <1>11, <1>12, <1>13, <1>14, <1>15 DEF BexInv, BusInv

LEMMA RefusedInv ==
  ASSUME BexInv, NEW a \in Adders, AddRefused(a)
  PROVE  BexInv'
<1>0. PICK d \in Devs : d = new[a]
  BY DEF AddRefused, BexInv, TypeInv
<1> DEFINE x == [dev[d] EXCEPT !.st = "lost"]
<1>1. /\ dev[d].st = "new" /\ dev' = [dev EXCEPT ![d] = x]
      /\ new' = [new EXCEPT ![a] = NoDev]
      /\ UNCHANGED <<refs, drv, todo, probe, num, bound, failed, bex_misc_count,
                     miscounted, files, found>>
  BY <1>0 DEF AddRefused, misc
<1>2. dev[d].st = "new" /\ dev[d] \in Device
  BY <1>1, IsDevice DEF BexInv
<1>3. x \in Device /\ x.st = "lost"
  BY <1>2, SetState DEF States
<1> HIDE DEF x
<1>4. TypeInv'
  BY <1>1, <1>3 DEF BexInv, TypeInv
<1>5. /\ dev'[d] = x /\ \A e \in Devs \ {d} : dev'[e] = dev[e]
      /\ new'[a] = NoDev /\ \A b \in Adders \ {a} : new'[b] = new[b]
  BY <1>1 DEF BexInv, TypeInv
<1>6. On' = On /\ d \notin On
  BY <1>1, <1>2, <1>3, <1>5 DEF On
<1>7. NewInv'
  <2>1. \A b \in Adders \ {a} : new[b] # NoDev => new[b] # d /\ new[b] \in Devs
    BY <1>0 DEF BexInv, BusInv, NewInv, TypeInv
  <2> QED BY <1>1, <1>5, <2>1 DEF BexInv, BusInv, NewInv
<1>8. PlaceInv' /\ DrvInv'
  BY <1>1, <1>6 DEF BexInv, BusInv, PlaceInv, DrvInv, Probing
<1>9. FileInv'
  BY <1>1, <1>3, <1>5 DEF BexInv, BusInv, TypeInv, FileInv
<1>10. BoundInv'
  BY <1>1, <1>5, <1>6 DEF BexInv, BusInv, BoundInv, On, Fits, Probing
<1>11. RefsInv'
  <2>1. \A e : Finders(e)' = Finders(e)
    BY <1>1 DEF Finders
  <2> QED BY <1>1, <1>2, <1>3, <1>5, <2>1 DEF BexInv, RefsInv
<1>12. NameInv'
  BY <1>1, NamesStay DEF BexInv
<1> QED BY <1>4, <1>7, <1>8, <1>9, <1>10, <1>11, <1>12 DEF BexInv, BusInv

-----------------------------------------------------------------------------
LEMMA FindInv ==
  ASSUME BexInv, NEW w \in Deleters, NEW d \in Devs, DelFind(w, d)
  PROVE  BexInv'
<1>1. /\ found[w] = NoDev /\ dev[d].st = "on"
      /\ found' = [found EXCEPT ![w] = d]
      /\ refs' = [refs EXCEPT ![d] = @ + 1]
      /\ UNCHANGED <<dev, drv, todo, probe, num, bound, failed, bex_misc_count,
                     miscounted, files, new>>
  BY DEF DelFind, On, misc
<1>2. TypeInv'
  BY <1>1 DEF BexInv, TypeInv
<1>3. BusInv' /\ NameInv'
  BY <1>1, NamesStay DEF BexInv, BusInv, NewInv, PlaceInv, DrvInv, FileInv, BoundInv, On,
                         Fits, Probing
<1>4. /\ found'[w] = d /\ \A v \in Deleters \ {w} : found'[v] = found[v]
      /\ refs'[d] = refs[d] + 1 /\ \A e \in Devs \ {d} : refs'[e] = refs[e]
  BY <1>1 DEF BexInv, TypeInv
<1>5. Finders(d)' = Finders(d) \cup {w} /\ w \notin Finders(d)
  BY <1>1, <1>4, BexAssumption DEF Finders
<1>6. \A e \in Devs \ {d} : Finders(e)' = Finders(e)
  BY <1>1, <1>4, BexAssumption DEF Finders
<1>7. Cardinality(Finders(d))' = Cardinality(Finders(d)) + 1
  BY <1>5, FindersFinite, FS_AddElement
<1>8. RefsInv'
  BY <1>1, <1>4, <1>6, <1>7, FindersFinite DEF BexInv, RefsInv
<1> QED BY <1>2, <1>3, <1>8 DEF BexInv

\* What taking a device off the bus does to the rest of the invariant.
LEMMA LeaveInv ==
  ASSUME BexInv, NEW d \in Devs \ Probing, NEW x \in Device \cup {Free},
         dev[d].st \in {"on", "off", "broken"}, x.st \notin {"on", "new"},
         dev' = [dev EXCEPT ![d] = x],
         bound' = bound \ {d}, failed' = failed \ {d}, todo' = todo \ {d},
         UNCHANGED <<drv, probe, files, new>>
  PROVE  BusInv'
<1>1. dev'[d] = x /\ \A e \in Devs \ {d} : dev'[e] = dev[e]
  BY DEF BexInv, TypeInv
<1>2. On' = On \ {d} /\ Probing' = Probing
  BY <1>1 DEF On, Probing
<1>3. NewInv'
  BY <1>1 DEF BexInv, BusInv, NewInv, TypeInv, Probing
<1>4. PlaceInv' /\ DrvInv'
  BY <1>2 DEF BexInv, BusInv, PlaceInv, DrvInv
<1>5. FileInv'
  BY <1>1 DEF BexInv, BusInv, FileInv, TypeInv
<1>6. BoundInv'
  BY <1>1, <1>2 DEF BexInv, BusInv, BoundInv, On, Fits
<1> QED BY <1>3, <1>4, <1>5, <1>6 DEF BusInv

LEMMA UnregisterInv ==
  ASSUME BexInv, NEW w \in Deleters, DelUnregister(w)
  PROVE  BexInv'
<1>1. PICK d \in Devs : d = found[w]
  BY DEF DelUnregister, BexInv, TypeInv
<1> DEFINE off == [dev[d] EXCEPT !.st = "off"]
           x == IF refs[d] = 2 THEN Free ELSE off
<1>2. /\ dev[d].st = "on" /\ d \notin Probing /\ dev' = [dev EXCEPT ![d] = x]
      /\ found' = [found EXCEPT ![w] = NoDev]
      /\ IF d \in bound THEN bex_misc_remove(d) ELSE UNCHANGED <<bound, num, bex_misc_count>>
      /\ failed' = failed \ {d} /\ todo' = todo \ {d}
      /\ refs' = [refs EXCEPT ![d] = @ - 2]
      /\ UNCHANGED <<drv, probe, miscounted, files, new>>
  BY <1>1 DEF DelUnregister, Detach
<1>0. /\ bound' = bound \ {d} /\ num' \in [Devs -> Int] /\ NameInv'
      /\ bex_misc_count' \in 0..(CountMod - 1)
  <2>1. CASE d \in bound
    BY <1>2, <2>1, RemoveNames
  <2>2. CASE d \notin bound
    <3>1. UNCHANGED <<probe, num, bound, bex_misc_count, miscounted>>
      BY <1>2, <2>2
    <3> QED BY <2>2, <3>1, NamesStay DEF BexInv, TypeInv
  <2> QED BY <2>1, <2>2
<1>3. off \in Device /\ off.st = "off"
  BY <1>2, IsDevice, SetState DEF States, BexInv
<1> HIDE DEF off
<1>4. /\ x \in Device \cup {Free} /\ x.st \in {"off", "free"}
      /\ x.st = "free" <=> refs[d] = 2
  BY <1>3 DEF Free
<1> HIDE DEF x
<1>5. TypeInv'
  BY <1>0, <1>2, <1>4 DEF BexInv, TypeInv
<1>6. BusInv'
  BY <1>0, <1>2, <1>4, LeaveInv
<1>7. /\ dev'[d] = x /\ \A e \in Devs \ {d} : dev'[e] = dev[e]
      /\ found'[w] = NoDev /\ \A v \in Deleters \ {w} : found'[v] = found[v]
      /\ refs'[d] = refs[d] - 2 /\ \A e \in Devs \ {d} : refs'[e] = refs[e]
  BY <1>2 DEF BexInv, TypeInv
<1>8. Finders(d)' = Finders(d) \ {w} /\ w \in Finders(d)
  BY <1>1, <1>7, BexAssumption DEF Finders
<1>9. \A e \in Devs \ {d} : Finders(e)' = Finders(e)
  BY <1>1, <1>7, BexAssumption DEF Finders
<1>10. /\ Cardinality(Finders(d))' = Cardinality(Finders(d)) - 1
       /\ Cardinality(Finders(d)) \in Nat /\ Cardinality(Finders(d))' \in Nat
  BY <1>8, FindersFinite, FS_RemoveElement, FS_Subset, FS_CardinalityType
<1>11. refs[d] = 1 + Cardinality(Finders(d))
  BY <1>2 DEF BexInv, RefsInv
<1>12. refs[d] = 2 => Finders(d)' = {}
  <2>1. IsFiniteSet(Finders(d)')
    BY <1>8, FindersFinite, FS_Subset
  <2> QED BY <1>10, <1>11, <2>1, FS_EmptySet
<1>13. RefsInv'
  <2>1. ASSUME NEW e \in Devs \ {d}
        PROVE  /\ dev'[e].st \in {"new", "on", "lost"} => refs'[e] = 1 + Cardinality(Finders(e)')
               /\ dev'[e].st = "off" => refs'[e] = Cardinality(Finders(e)') /\ refs'[e] > 0
               /\ dev'[e].st = "free" => refs'[e] = 0 /\ Finders(e)' = {}
    BY <1>7, <1>9 DEF BexInv, RefsInv
  <2>2. /\ dev'[d].st = "off" => refs'[d] = Cardinality(Finders(d))' /\ refs'[d] > 0
        /\ dev'[d].st = "free" => refs'[d] = 0 /\ Finders(d)' = {}
    BY <1>4, <1>7, <1>10, <1>11, <1>12
  <2> QED BY <1>4, <1>7, <2>1, <2>2 DEF RefsInv
<1> QED BY <1>0, <1>5, <1>6, <1>13 DEF BexInv

LEMMA AgainInv ==
  ASSUME BexInv, NEW w \in Deleters, DelAgain(w)
  PROVE  BexInv'
<1>1. PICK d \in Devs : d = found[w]
  BY DEF DelAgain, BexInv, TypeInv
<1> DEFINE x == [dev[d] EXCEPT !.st = "broken"]
<1>2. /\ dev[d].st \in {"off", "broken"} /\ dev' = [dev EXCEPT ![d] = x]
      /\ found' = [found EXCEPT ![w] = NoDev]
      /\ refs' = [refs EXCEPT ![d] = 0]
      /\ UNCHANGED <<drv, todo, probe, num, bound, failed, bex_misc_count, miscounted,
                     files, new>>
  BY <1>1 DEF DelAgain, misc
<1>3. x \in Device /\ x.st = "broken"
  BY <1>2, IsDevice, SetState DEF States, BexInv
<1> HIDE DEF x
<1>4. TypeInv'
  BY <1>2, <1>3 DEF BexInv, TypeInv
<1>5. /\ bound' = bound \ {d} /\ failed' = failed \ {d} /\ todo' = todo \ {d}
      /\ d \notin Probing /\ NameInv'
  BY <1>2, NamesStay DEF BexInv, BusInv, PlaceInv, On
<1>6. BusInv'
  BY <1>2, <1>3, <1>5, LeaveInv
<1>7. /\ dev'[d] = x /\ \A e \in Devs \ {d} : dev'[e] = dev[e]
      /\ found'[w] = NoDev /\ \A v \in Deleters \ {w} : found'[v] = found[v]
      /\ \A e \in Devs \ {d} : refs'[e] = refs[e]
  BY <1>2 DEF BexInv, TypeInv
<1>8. \A e \in Devs \ {d} : Finders(e)' = Finders(e)
  BY <1>1, <1>7, BexAssumption DEF Finders
<1>9. RefsInv'
  BY <1>3, <1>7, <1>8 DEF BexInv, RefsInv
<1> QED BY <1>4, <1>5, <1>6, <1>9 DEF BexInv

-----------------------------------------------------------------------------
\* A step within a probe that has no effect outside it.
LEMMA ProbingInv ==
  ASSUME BexInv, NEW d \in Probing, NEW pc \in {"store", "register"},
         probe' = [probe EXCEPT ![d] = pc],
         UNCHANGED <<dev, refs, drv, todo, bound, failed, files, new, found>>
  PROVE  /\ BusInv' /\ RefsInv'
         /\ probe' \in [Devs -> {"idle", "load", "store", "register"}]
<1>1. d \in Devs /\ probe[d] # "idle"
  BY DEF Probing
<1>2. probe'[d] = pc /\ \A e \in Devs \ {d} : probe'[e] = probe[e]
  BY <1>1 DEF BexInv, TypeInv
<1>3. Probing' = Probing
  BY <1>1, <1>2 DEF Probing
<1>4. NewInv'
  BY <1>2 DEF BexInv, BusInv, NewInv, TypeInv
<1>5. PlaceInv' /\ DrvInv' /\ FileInv' /\ BoundInv'
  BY <1>3 DEF BexInv, BusInv, PlaceInv, DrvInv, FileInv, BoundInv, On, Fits
<1>6. RefsInv'
  BY RefsStay DEF BexInv
<1> QED BY <1>1, <1>4, <1>5, <1>6 DEF BusInv, BexInv, TypeInv

LEMMA LoadInv ==
  ASSUME BexInv, NEW d \in Devs, ProbeLoad(d)
  PROVE  BexInv'
<1>1. /\ probe[d] = "load" /\ probe' = [probe EXCEPT ![d] = "store"]
      /\ num' = [num EXCEPT ![d] = bex_misc_count]
      /\ UNCHANGED <<dev, refs, drv, todo, bound, failed, bex_misc_count, miscounted,
                     files, new, found>>
  BY DEF ProbeLoad
<1>2. d \in Probing
  BY <1>1 DEF Probing
<1>3. BusInv' /\ RefsInv' /\ probe' \in [Devs -> {"idle", "load", "store", "register"}]
  BY <1>1, <1>2, ProbingInv
<1>4. TypeInv'
  BY <1>1, <1>3 DEF BexInv, TypeInv
<1>5. /\ probe'[d] = "store" /\ \A e \in Devs \ {d} : probe'[e] = probe[e]
      /\ \A e \in Devs \ {d} : num'[e] = num[e]
  BY <1>1 DEF BexInv, TypeInv
<1>6. d \notin Named
  BY <1>1, <1>2 DEF Named, BexInv, NameInv, BusInv, PlaceInv
<1>7. Named' = Named
  BY <1>5, <1>6 DEF Named
<1>8. \A e \in Named : num'[e] = num[e]
  BY <1>5, <1>6 DEF Named
<1>9. NameInv'
  BY <1>1, <1>5, <1>7, <1>8 DEF BexInv, NameInv
<1> QED BY <1>3, <1>4, <1>9 DEF BexInv

\* If the count has not moved since it was read, the number is above all others
\* and the count above the number, unless it wraps.
LEMMA StoreInv ==
  ASSUME BexInv, NEW d \in Devs, ProbeStore(d)
  PROVE  BexInv'
<1>1. /\ probe[d] = "store" /\ probe' = [probe EXCEPT ![d] = "register"]
      /\ bex_misc_count' = (num[d] + 1) % CountMod
      /\ miscounted' = (miscounted \/ bex_misc_count # num[d] \/ bex_misc_count' = 0)
      /\ UNCHANGED <<dev, refs, drv, todo, bound, failed, files, new, found>>
  BY DEF ProbeStore
<1>2. PICK name \in {num[d], Unnamed} : num' = [num EXCEPT ![d] = name]
  BY DEF ProbeStore
<1>3. d \in Probing
  BY <1>1 DEF Probing
<1>4. BusInv' /\ RefsInv' /\ probe' \in [Devs -> {"idle", "load", "store", "register"}]
  BY <1>1, <1>3, ProbingInv
<1>5. /\ num[d] \in Int /\ name \in Int
      /\ bex_misc_count \in 0..(CountMod - 1) /\ miscounted \in BOOLEAN
  BY DEF BexInv, TypeInv, Unnamed
<1>6. bex_misc_count' \in 0..(CountMod - 1)
  BY <1>1, <1>5, BexAssumption
<1>7. num' \in [Devs -> Int]
  BY <1>2, <1>5 DEF BexInv, TypeInv
<1>8. miscounted' \in BOOLEAN
  BY <1>1
<1>9. TypeInv'
  BY <1>1, <1>4, <1>6, <1>7, <1>8 DEF BexInv, TypeInv
<1>10. /\ probe'[d] = "register" /\ \A e \in Devs \ {d} : probe'[e] = probe[e]
       /\ num'[d] = name /\ \A e \in Devs \ {d} : num'[e] = num[e]
  BY <1>1, <1>2 DEF BexInv, TypeInv
<1>11. d \notin bound /\ d \notin Named
  BY <1>1, <1>3 DEF BexInv, BusInv, PlaceInv, Named
<1>12. /\ Named' \subseteq Named \cup {d}
       /\ \A e \in Named : e # d /\ num'[e] = num[e]
       /\ d \in Named' => num'[d] = num[d]
  BY <1>10, <1>11 DEF Named
<1>13. \A e \in (Devs \ bound)' : probe'[e] \in {"idle", "load"} => num'[e] = Unnamed
  BY <1>1, <1>10 DEF BexInv, NameInv
<1>14. ASSUME miscounted' PROVE NameInv'
  BY <1>13, <1>14 DEF BexInv, NameInv
<1>15. ASSUME ~miscounted' PROVE NameInv'
  <2>1. ~miscounted /\ bex_misc_count = num[d] /\ bex_misc_count' # 0
    BY <1>1, <1>15
  <2>2. bex_misc_count' = bex_misc_count + 1 /\ num[d] < bex_misc_count'
    BY <1>1, <1>5, <2>1, CountNext
  <2>3. /\ \A e \in Named : num[e] < bex_misc_count /\ num[e] \in Int
        /\ \A e, f \in Named : num[e] = num[f] => e = f
    BY <2>1 DEF BexInv, NameInv, TypeInv, Named
  <2>4. \A e \in Named : num[e] # num[d] /\ num[e] < bex_misc_count'
    BY <1>5, <2>1, <2>2, <2>3
  <2>5. \A e \in Named' : num'[e] < bex_misc_count'
    BY <1>12, <2>2, <2>4
  <2>6. \A e, f \in Named' : num'[e] = num'[f] => e = f
    BY <1>12, <2>3, <2>4
  <2> QED BY <1>13, <2>5, <2>6 DEF BexInv, NameInv
<1> QED BY <1>4, <1>9, <1>14, <1>15 DEF BexInv

LEMMA ProbeRegisterInv ==
  ASSUME BexInv, NEW d \in Devs, ProbeRegister(d)
  PROVE  BexInv'
<1>1. /\ probe[d] = "register" /\ probe' = [probe EXCEPT ![d] = "idle"]
      /\ todo' = todo \ (Walked \cap {d})
      /\ new' = [a \in Adders |-> IF new[a] = d THEN NoDev ELSE new[a]]
      /\ UNCHANGED <<dev, refs, drv, bex_misc_count, miscounted, files, found>>
      /\ \/ bound' = bound \cup {d} /\ UNCHANGED <<num, failed>>
         \/ /\ failed' = failed \cup {d} /\ num' = [num EXCEPT ![d] = Unnamed]
            /\ UNCHANGED bound
  BY DEF ProbeRegister, misc_register
<1>2. d \in Probing
  BY <1>1 DEF Probing
<1>3. d \in On /\ d \notin bound /\ Fits(d) /\ drv # "none"
  BY <1>2 DEF BexInv, BusInv, PlaceInv, BoundInv, DrvInv
<1>4. probe'[d] = "idle" /\ \A e \in Devs \ {d} : probe'[e] = probe[e]
  BY <1>1 DEF BexInv, TypeInv
<1>5. Probing' = Probing \ {d} /\ On' = On
  BY <1>1, <1>4 DEF Probing, On
<1>6. \A a \in Adders : (new'[a] = new[a] /\ new[a] # d) \/ new'[a] = NoDev
  BY <1>1
<1>7. TypeInv'
  BY <1>1, <1>6 DEF BexInv, TypeInv, Unnamed
<1>8. NewInv'
  BY <1>1, <1>4, <1>6, BexAssumption DEF BexInv, BusInv, NewInv, TypeInv
<1>9. PlaceInv' /\ DrvInv'
  BY <1>1, <1>3, <1>5 DEF BexInv, BusInv, PlaceInv, DrvInv
<1>10. FileInv'
  BY <1>1 DEF BexInv, BusInv, FileInv
<1>11. BoundInv'
  <2>1. \A e \in On : Fits(e)' = Fits(e)
    BY <1>1 DEF Fits
  <2> QED BY <1>1, <1>3, <1>5, <2>1 DEF BexInv, BusInv, BoundInv
<1>12. NameInv'
  <2>1. CASE bound' = bound \cup {d} /\ UNCHANGED <<num, failed>>
    <3>1. Named' = Named
      BY <1>1, <1>4, <2>1 DEF Named
    <3> QED BY <1>1, <1>4, <2>1, <3>1 DEF BexInv, NameInv
  <2>2. CASE num' = [num EXCEPT ![d] = Unnamed] /\ UNCHANGED bound
    <3>1. num'[d] = Unnamed /\ \A e \in Devs \ {d} : num'[e] = num[e]
      BY <2>2 DEF BexInv, TypeInv
    <3>2. Named' \subseteq Named /\ \A e \in Named' : num'[e] = num[e]
      BY <1>4, <3>1 DEF Named
    <3> QED BY <1>1, <1>4, <2>2, <3>1, <3>2 DEF BexInv, NameInv
  <2> QED BY <1>1, <2>1, <2>2
<1>13. RefsInv'
  BY <1>1, RefsStay DEF BexInv
<1> QED BY <1>7, <1>8, <1>9, <1>10, <1>11, <1>12, <1>13 DEF BexInv, BusInv

-----------------------------------------------------------------------------
LEMMA WalkInv ==
  ASSUME BexInv, NEW d \in Devs, DriverAttach(d)
  PROVE  BexInv'
<1>1. /\ drv = "attaching" /\ d \in todo /\ d \notin Probing /\ Attach(d)
      /\ todo' = IF probe' = probe THEN todo \ {d} ELSE todo
      /\ UNCHANGED <<dev, refs, drv, files, new, found>>
  BY DEF DriverAttach
<1>2. d \in On
  BY <1>1 DEF BexInv, BusInv, PlaceInv
<1>3. dev[d].version \in Int
  BY <1>2, IsDevice, BexAssumption DEF On, BexInv, Device
<1>4. /\ UNCHANGED <<num, bound, bex_misc_count, miscounted>>
      /\ probe' \in [Devs -> {"idle", "load", "store", "register"}]
      /\ \/ probe' = probe /\ Probing' = Probing /\ failed' \in {failed, failed \cup {d}}
         \/ /\ probe' # probe /\ probe' = [probe EXCEPT ![d] = "load"]
            /\ Probing' = Probing \cup {d} /\ failed' = failed \ {d}
            /\ Fits(d) /\ d \notin bound
      /\ Fits(d) => d \in bound \cup failed' \cup Probing'
      /\ NameInv'
  BY <1>1, <1>3, AttachBegins
<1>5. On' = On /\ \A e : Fits(e)' = Fits(e)
  BY <1>1 DEF On, Fits
<1>6. TypeInv'
  BY <1>1, <1>4 DEF BexInv, TypeInv
<1>7. NewInv'
  <2>1. \A e \in Devs : probe[e] # "idle" => probe'[e] # "idle"
    BY <1>4 DEF Probing
  <2> QED BY <1>1, <2>1 DEF BexInv, BusInv, NewInv, TypeInv
<1>8. PlaceInv' /\ DrvInv' /\ FileInv'
  BY <1>1, <1>2, <1>4, <1>5 DEF BexInv, BusInv, PlaceInv, DrvInv, FileInv
<1>9. BoundInv'
  BY <1>1, <1>4, <1>5 DEF BexInv, BusInv, BoundInv
<1>10. RefsInv'
  BY <1>1, RefsStay DEF BexInv
<1> QED BY <1>4, <1>6, <1>7, <1>8, <1>9, <1>10 DEF BexInv, BusInv

LEMMA DetachInv ==
  ASSUME BexInv, NEW d \in Devs, DriverDetach(d)
  PROVE  BexInv'
<1>1. /\ drv = "detaching" /\ Probing = {} /\ bex_misc_remove(d)
      /\ UNCHANGED <<dev, refs, drv, todo, probe, failed, miscounted, files, new, found>>
  BY DEF DriverDetach
<1>2. /\ bound' = bound \ {d} /\ num' \in [Devs -> Int] /\ NameInv'
      /\ bex_misc_count' \in 0..(CountMod - 1)
  BY <1>1, RemoveNames
<1>3. On' = On /\ Probing' = Probing
  BY <1>1 DEF On, Probing
<1>4. TypeInv' /\ NewInv'
  BY <1>1, <1>2 DEF BexInv, TypeInv, BusInv, NewInv
<1>5. PlaceInv' /\ DrvInv' /\ FileInv'
  BY <1>1, <1>2, <1>3 DEF BexInv, BusInv, PlaceInv, DrvInv, FileInv
<1>6. BoundInv'
  BY <1>1, <1>2, <1>3 DEF BexInv, BusInv, BoundInv, Fits
<1>7. RefsInv'
  BY <1>1, RefsStay DEF BexInv
<1> QED BY <1>2, <1>4, <1>5, <1>6, <1>7 DEF BexInv, BusInv

LEMMA GoneInv ==
  ASSUME BexInv, DriverGone
  PROVE  BexInv'
<1>1. /\ drv = "detaching" /\ Probing = {} /\ bound = {}
      /\ drv' = "none" /\ failed' = {} /\ bex_misc_count' = 0 /\ miscounted' = FALSE
      /\ UNCHANGED <<dev, refs, todo, probe, num, bound, files, new, found>>
  BY DEF DriverGone
<1>2. On' = On /\ Probing' = {}
  BY <1>1 DEF On, Probing
<1>0. 0 \in 0..(CountMod - 1)
  BY BexAssumption
<1>3. TypeInv' /\ NewInv'
  BY <1>0, <1>1 DEF BexInv, TypeInv, BusInv, NewInv
<1>4. PlaceInv' /\ DrvInv' /\ FileInv'
  BY <1>1, <1>2 DEF BexInv, BusInv, PlaceInv, DrvInv, FileInv
<1>5. BoundInv'
  BY <1>1, <1>2 DEF BoundInv
<1>6. \A d \in Devs : num[d] = Unnamed
  BY <1>1 DEF BexInv, NameInv, Probing
<1>7. Named' = {}
  BY <1>1, <1>6 DEF Named
<1>8. NameInv'
  BY <1>1, <1>6, <1>7 DEF NameInv
<1>9. RefsInv'
  BY <1>1, RefsStay DEF BexInv
<1> QED BY <1>3, <1>4, <1>5, <1>8, <1>9 DEF BexInv, BusInv

LEMMA DriverInv ==
  ASSUME BexInv,
         \/ DriverRegister \/ DriverReady \/ DriverUnregister \/ DriverGone
         \/ \E d \in Devs : DriverAttach(d) \/ DriverDetach(d)
  PROVE  BexInv'
<1>1. CASE DriverRegister
  BY <1>1, RefsStay, NamesStay DEF DriverRegister, misc, BexInv, TypeInv, BusInv, NewInv,
                        PlaceInv, DrvInv, FileInv, BoundInv, On, Probing, Fits
<1>2. CASE DriverReady
  BY <1>2, RefsStay, NamesStay DEF DriverReady, misc, BexInv, TypeInv, BusInv, NewInv,
                        PlaceInv, DrvInv, FileInv, BoundInv, On, Probing, Fits
<1>3. CASE DriverUnregister
  BY <1>3, RefsStay, NamesStay DEF DriverUnregister, misc, BexInv, TypeInv, BusInv, NewInv,
                        PlaceInv, DrvInv, FileInv, BoundInv, On, Probing, Fits
<1>4. CASE DriverGone
  BY <1>4, GoneInv
<1>5. ASSUME NEW d \in Devs, DriverAttach(d) \/ DriverDetach(d) PROVE BexInv'
  BY <1>5, WalkInv, DetachInv
<1> QED BY <1>1, <1>2, <1>3, <1>4, <1>5

LEMMA FileStepInv ==
  ASSUME BexInv, NEW d \in Devs, Open(d) \/ Close(d)
  PROVE  BexInv'
<1>1. /\ UNCHANGED <<dev, refs, drv, todo, probe, num, bound, failed, bex_misc_count,
                     miscounted, new, found>>
      /\ \/ files' = files \cup {d} /\ d \in bound /\ drv # "detaching"
         \/ files' = files \ {d}
  BY DEF Open, Close, misc
<1>2. TypeInv' /\ NewInv' /\ PlaceInv'
  BY <1>1 DEF BexInv, BusInv, TypeInv, NewInv, PlaceInv, On, Probing
<1>3. DrvInv'
  BY <1>1 DEF BexInv, BusInv, DrvInv, Probing
<1>4. FileInv'
  BY <1>1 DEF BexInv, BusInv, FileInv, PlaceInv, On
<1>5. BoundInv'
  BY <1>1 DEF BexInv, BusInv, BoundInv, On, Fits, Probing
<1>6. RefsInv' /\ NameInv'
  BY <1>1, RefsStay, NamesStay DEF BexInv
<1> QED BY <1>2, <1>3, <1>4, <1>5, <1>6 DEF BexInv, BusInv

-----------------------------------------------------------------------------
LEMMA NextInv == BexInv /\ [Next]_vars => BexInv'
<1> SUFFICES ASSUME BexInv, [Next]_vars PROVE BexInv'
  OBVIOUS
<1>1. ASSUME NEW a \in Adders,
             \/ \E d \in Devs, name \in Names, type \in Types, version \in Versions :
                  AddAlloc(a, d, name, type, version)
             \/ AddRegister(a) \/ AddRefused(a)
      PROVE  BexInv'
  BY <1>1, AllocInv, RegisterInv, RefusedInv
<1>2. ASSUME NEW w \in Deleters,
             DelUnregister(w) \/ DelAgain(w) \/ \E d \in Devs : DelFind(w, d)
      PROVE  BexInv'
  BY <1>2, FindInv, UnregisterInv, AgainInv
<1>3. CASE \/ DriverRegister \/ DriverReady \/ DriverUnregister \/ DriverGone
           \/ \E d \in Devs : DriverAttach(d) \/ DriverDetach(d)
  BY <1>3, DriverInv
<1>4. ASSUME NEW d \in Devs, ProbeLoad(d) \/ ProbeStore(d) \/ ProbeRegister(d) PROVE BexInv'
  BY <1>4, LoadInv, StoreInv, ProbeRegisterInv
<1>5. ASSUME NEW d \in Devs, Open(d) \/ Close(d) PROVE BexInv'
  BY <1>5, FileStepInv
<1>6. CASE UNCHANGED vars
  <2>1. UNCHANGED <<dev, refs, drv, todo, probe, num, bound, failed, bex_misc_count,
                    miscounted, files, new, found>>
    BY <1>6 DEF vars, misc
  <2>2. RefsInv' /\ NameInv'
    BY <2>1, RefsStay, NamesStay DEF BexInv
  <2> QED BY <2>1, <2>2 DEF BexInv, TypeInv, BusInv, NewInv, PlaceInv, DrvInv,
                            FileInv, BoundInv, On, Probing, Fits
<1> QED BY <1>1, <1>2, <1>3, <1>4, <1>5, <1>6 DEF Next

LEMMA InitInv == Init => BexInv
<1> SUFFICES ASSUME Init PROVE BexInv
  OBVIOUS
<1>1. \A d \in Devs : dev[d] = Free /\ dev[d].st = "free" /\ refs[d] = 0
  BY DEF Init, Free
<1>2. On = {} /\ Probing = {} /\ Named = {}
  BY <1>1 DEF On, Init, Probing, Named
<1>3. TypeInv
  <2>1. 0 \in 0..(CountMod - 1) /\ Unnamed \in Int
    BY BexAssumption DEF Unnamed
  <2>2. dev \in [Devs -> Device \cup {Free}]
    BY DEF Init
  <2>3. probe \in [Devs -> {"idle", "load", "store", "register"}] /\ num \in [Devs -> Int]
    BY <2>1 DEF Init
  <2>4. bex_misc_count \in 0..(CountMod - 1) /\ miscounted \in BOOLEAN
    BY <2>1 DEF Init
  <2>5. /\ refs \in [Devs -> Int] /\ new \in [Adders -> Devs \cup {NoDev}]
        /\ found \in [Deleters -> Devs \cup {NoDev}]
        /\ drv \in {"none", "attaching", "on", "detaching"} /\ files \subseteq Devs
    BY DEF Init
  <2> QED BY <2>2, <2>3, <2>4, <2>5 DEF TypeInv
<1>4. BusInv
  BY <1>2 DEF Init, BusInv, NewInv, PlaceInv, DrvInv, FileInv, BoundInv
<1>5. \A d \in Devs : Finders(d) = {}
  BY BexAssumption DEF Init, Finders
<1>6. RefsInv
  BY <1>1, <1>5 DEF RefsInv
<1>7. NameInv
  BY <1>2 DEF Init, NameInv
<1> QED BY <1>3, <1>4, <1>6, <1>7 DEF BexInv

LEMMA BexInvHolds == Spec => []BexInv
BY InitInv, NextInv, PTL DEF Spec

\* Until two probes have met at bex_misc_count++ or it has wrapped, no two misc
\* devices have or ask for the same name, whatever was added, deleted, probed in
\* vain and unloaded meanwhile.
THEOREM NamesAreApart == Spec => []NamesApart
<1>1. BexInv => NamesApart
  BY DEF BexInv, BusInv, NameInv, PlaceInv, On, Probing, Named, NamesApart
<1> QED BY <1>1, BexInvHolds, PTL

\* A misc device that a process has open stays bound as long as its device is
\* on the bus.
THEOREM OpenStaysBound == Spec => []FilesSafe
<1>1. BexInv => FilesSafe
  BY DEF BexInv, BusInv, FileInv, FilesSafe
<1> QED BY <1>1, BexInvHolds, PTL

\* The driver is bound only to devices that fit it, and has probed each of them,
\* whichever of the two came first: what it misses has failed its last probe, of
\* whatever step of it, or is in it.
THEOREM BoundIsExact == Spec => []BoundExactly
<1>1. BexInv => BoundExactly
  BY DEF BexInv, BusInv, DrvInv, BoundInv, BoundExactly, Fits
<1> QED BY <1>1, BexInvHolds, PTL

\* The reference count of a device is what registration and searches hold of
\* it, until two processes have deleted it at the same time.
THEOREM CountIsExact == Spec => []RefsExact
<1>1. BexInv => RefsExact
  BY DEF BexInv, RefsInv, RefsExact, Finders
<1> QED BY <1>1, BexInvHolds, PTL
=============================================================================
