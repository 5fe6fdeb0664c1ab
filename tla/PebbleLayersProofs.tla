-------------------------- MODULE PebbleLayersProofs --------------------------
(***************************************************************************)
(* Theorems about PebbleLayers for any number of writers, devices and       *)
(* configurations.  PebbleInv is inductive; what the run checks follows.    *)
(***************************************************************************)
EXTENDS PebbleLayers, FiniteSetTheorems, WellFoundedInduction, TLAPS

-----------------------------------------------------------------------------
(* Numbers, names and requests. *)

\* A bounded set of integers has a greatest element, and Max is it.
LEMMA MaxIsGreatest ==
  ASSUME NEW S \in SUBSET Int, S # {}, NEW b \in Int, \A x \in S : x <= b
  PROVE  Max(S) \in S /\ \A x \in S : x <= Max(S)
<1> DEFINE Gaps == {b - x : x \in S}
           Less == OpToRel(<, Nat)
<1>1. Gaps \subseteq Nat /\ Gaps # {}
  <2>1. \A x \in S : x \in Int /\ b - x \in Nat
    OBVIOUS
  <2> QED BY <2>1
<1>2. \E g \in Gaps : \A h \in Gaps : ~ (<<h, g>> \in Less)
  <2> HIDE DEF Gaps, Less
  <2> QED BY <1>1, NatLessThanWellFounded, WFMin DEF Less
<1>3. PICK g \in Gaps : \A h \in Gaps : ~ (h < g)
  BY <1>1, <1>2 DEF OpToRel
<1>4. PICK m \in S : g = b - m
  BY <1>3
<1>5. \A x \in S : m >= x
  <2> TAKE x \in S
  <2>1. b - x \in Gaps /\ x \in Int /\ m \in Int
    OBVIOUS
  <2>2. ~ (b - x < b - m)
    BY <1>3, <1>4, <2>1
  <2> QED BY <2>1, <2>2
<1> QED BY <1>5 DEF Max

\* The layer file and the temporary file of a label and a number.
LEMMA Names ==
  ASSUME NEW p \in Prefix, NEW l \in Label
  PROVE  /\ Yaml(p, l) \in FileName /\ Tmp(p, l) \in FileName
         /\ ~ Yaml(p, l).tmp /\ Tmp(p, l).tmp
         /\ Yaml(p, l).prefix = p /\ Yaml(p, l).label = l
         /\ Tmp(p, l).prefix = p /\ Tmp(p, l).label = l
         /\ \A n \in FileName : n.prefix = p /\ n.label = l /\ ~ n.tmp => n = Yaml(p, l)
BY DEF Yaml, Tmp, FileName

\* A call that has begun has a label, a configuration and file names.
LEMMA WriterNames ==
  ASSUME TypeOK, NEW w \in Writer, Asked(w)
  PROVE  /\ req[w] \in Request /\ req[w].label \in Label /\ req[w].config \in Config
         /\ req[w].config # NoFile
         /\ path[w] \in Prefix /\ path[w] \in Int
         /\ Target(w) \in FileName /\ Scratch(w) \in FileName
         /\ ~ Target(w).tmp /\ Scratch(w).tmp /\ Target(w) # Scratch(w)
         /\ Target(w).prefix = path[w] /\ Target(w).label = req[w].label
         /\ Scratch(w).prefix = path[w] /\ Scratch(w).label = req[w].label
<1>1. req[w] \in Request /\ path[w] \in Prefix
  BY DEF TypeOK, Asked
<1>2. req[w].label \in Label /\ req[w].config \in Config
  BY <1>1 DEF Request
<1>3. path[w] \in Int
  BY <1>1, PrefixesEnough DEF Prefix
<1>4. Target(w) = Yaml(path[w], req[w].label) /\ Scratch(w) = Tmp(path[w], req[w].label)
  BY DEF Target, Scratch
<1>5. req[w].config # NoFile
  BY <1>2, PebbleSentinels
<1> QED BY <1>1, <1>2, <1>3, <1>4, <1>5, Names

\* Files that did not change are the same layers with the same content.
LEMMA SameFiles ==
  ASSUME UNCHANGED body
  PROVE  /\ Existing' = Existing /\ Layers' = Layers
         /\ \A l : LayersOf(l)' = LayersOf(l)
BY DEF Existing, Layers, LayersOf

\* A label has at most one layer.
LEMMA OneLayer ==
  ASSUME LayersLoadable, NEW l, NEW m \in LayersOf(l), NEW n \in LayersOf(l)
  PROVE  m = n
BY DEF LayersLoadable, LayersOf

\* The writers that have spent their number are finitely many, at most all.
LEMMA SpentCounted ==
  /\ IsFiniteSet(Spent) /\ Cardinality(Spent) \in Nat
  /\ Cardinality(Spent) <= Cardinality(Writer) /\ Cardinality(Writer) \in Nat
BY PrefixesEnough, FS_Subset, FS_CardinalityType DEF Spent

\* A writer that spends its number makes room for one more.
LEMMA SpentGrows ==
  ASSUME Spent \subseteq Spent'
  PROVE  /\ Cardinality(Spent') \in Nat /\ Cardinality(Spent) <= Cardinality(Spent')
         /\ Spent # Spent' => Cardinality(Spent) + 1 <= Cardinality(Spent')
<1>1. IsFiniteSet(Spent')
  BY PrefixesEnough, FS_Subset DEF Spent
<1>2. Cardinality(Spent) \in Nat /\ Cardinality(Spent') \in Nat
  BY <1>1, SpentCounted, FS_CardinalityType
<1> QED BY <1>1, <1>2, FS_Subset

-----------------------------------------------------------------------------
(* The invariant, one lemma for each kind of step. *)

LEMMA InitInv == Init => PebbleInv
<1> SUFFICES ASSUME Init PROVE PebbleInv
  OBVIOUS
<1>1. TypeOK
  <2>1. \A w \in Writer : FirstPrefix \in Prefix
    <3> SUFFICES ASSUME NEW w \in Writer PROVE FirstPrefix \in Prefix
      OBVIOUS
    <3>1. Cardinality(Writer) \in Nat /\ Cardinality(Writer) # 0
      BY PrefixesEnough, FS_CardinalityType, FS_EmptySet
    <3> QED BY <3>1, PrefixesEnough DEF Prefix
  <2> QED BY <2>1 DEF Init, TypeOK, Steps
<1>2. Existing = {} /\ Layers = {} /\ \A l \in Label : LayersOf(l) = {}
  BY DEF Init, Existing, Layers, LayersOf
<1>3. LockHeld
  BY PebbleSentinels DEF Init, LockHeld, Inside
<1>4. WholeLayers
  BY <1>2, PebbleSentinels DEF Init, WholeLayers
<1>5. RequestsKnown /\ NumbersLeft /\ LayersLoadable /\ PathFree /\ FilesKnown
  BY <1>2 DEF Init, RequestsKnown, Asked, NumbersLeft, LayersLoadable, PathFree, FilesKnown
<1>6. PlanCurrent /\ ServicesCurrent
  BY <1>2 DEF Init, PlanCurrent, ServicesCurrent
<1> QED BY <1>1, <1>3, <1>4, <1>5, <1>6 DEF PebbleInv

\* A step on which files, plan and services stay as they are: a call that begins,
\* waits, has read its file, fails or is killed.
Calm(w) ==
  \/ pc'[w] = pc[w] /\ sent'[w] = sent[w]
  \/ pc[w] = "idle" /\ pc'[w] = "lock"
  \/ pc[w] = "lock" /\ pc'[w] = "choose"
  \/ pc[w] = "read" /\ pc'[w] = "add" /\ sent'[w] = body[Target(w)]
  \/ pc'[w] = "failed"

LEMMA CalmStep ==
  ASSUME PebbleInv, TypeOK', RequestsKnown', LockHeld',
         UNCHANGED <<body, plan, service, path>>,
         \A w \in Writer : Calm(w) /\ (Asked(w) => req'[w] = req[w])
  PROVE  PebbleInv'
<1>1. /\ Existing' = Existing /\ Layers' = Layers
      /\ \A l : LayersOf(l)' = LayersOf(l)
  BY SameFiles
<1>2. Spent \subseteq Spent'
  BY DEF Spent, Calm
<1>3. \A w \in Writer : Asked(w) =>
        Asked(w)' /\ Target(w)' = Target(w) /\ Scratch(w)' = Scratch(w)
  BY DEF Asked, Target, Scratch
<1>4. NumbersLeft'
  <2>1. /\ Cardinality(Spent) <= Cardinality(Spent')
        /\ Cardinality(Spent) \in Nat /\ Cardinality(Spent') \in Nat
    BY <1>2, SpentCounted, SpentGrows
  <2>2. \A w \in Writer : path[w] \in Int
    BY PrefixesEnough DEF PebbleInv, TypeOK, Prefix
  <2>3. \A name \in Existing : name.prefix \in Int
    BY PrefixesEnough DEF Existing, FileName, Prefix
  <2>4. \A w \in Writer : pc'[w] \in {"open", "write", "replace"} => pc[w] = pc'[w]
    BY DEF Calm
  <2> QED BY <1>1, <2>1, <2>2, <2>3, <2>4, PrefixesEnough DEF PebbleInv, NumbersLeft
<1>5. LayersLoadable' /\ WholeLayers'
  BY <1>1 DEF PebbleInv, LayersLoadable, WholeLayers
<1>6. PathFree'
  <2>1. \A w \in Writer : pc'[w] \in {"open", "write", "replace"} => pc[w] = pc'[w] /\ Asked(w)
    BY DEF Calm, PebbleInv, RequestsKnown
  <2> QED BY <1>1, <1>3, <2>1 DEF PebbleInv, PathFree
<1>7. FilesKnown'
  <2> SUFFICES ASSUME NEW w \in Writer, pc'[w] \in {"replace", "read", "add"}
               PROVE  /\ pc'[w] = "replace" => body[Scratch(w)'] = req'[w].config
                      /\ pc'[w] \in {"read", "add"} => body[Target(w)'] = req'[w].config
                      /\ pc'[w] = "add" => sent'[w] = req'[w].config
    BY DEF FilesKnown
  <2>1. Asked(w)
    BY DEF Calm, PebbleInv, RequestsKnown
  <2>2. req'[w] = req[w] /\ Target(w)' = Target(w) /\ Scratch(w)' = Scratch(w)
    BY <2>1, <1>3
  <2> QED BY <2>2 DEF Calm, PebbleInv, FilesKnown
<1>8. \A w \in Writer, l \in Label : AsksFor(w, l) => AsksFor(w, l)'
  BY <1>3 DEF AsksFor
<1>9. PlanCurrent'
  <2>1. \A w \in Writer : pc[w] \in {"read", "add", "failed"} => pc'[w] \in {"read", "add", "failed"}
    BY DEF Calm
  <2> QED BY <1>1, <1>8, <2>1 DEF PebbleInv, PlanCurrent
<1>10. ServicesCurrent'
  <2>1. \A w \in Writer : pc[w] \in {"replan", "failed"} => pc'[w] \in {"replan", "failed"}
    BY DEF Calm
  <2> QED BY <1>8, <2>1 DEF PebbleInv, ServicesCurrent
<1> QED BY <1>4, <1>5, <1>6, <1>7, <1>9, <1>10 DEF PebbleInv

LEMMA BeginStep ==
  ASSUME PebbleInv, NEW w \in Writer, NEW r \in Request, Begin(w, r)
  PROVE  PebbleInv'
<1>1. TypeOK' /\ RequestsKnown' /\ LockHeld'
  BY PebbleSentinels
     DEF PebbleInv, TypeOK, RequestsKnown, LockHeld, Begin, Moves, Asked, Steps, Inside
<1>2. ~ Asked(w)
  BY DEF PebbleInv, RequestsKnown, Begin, Moves
<1>3. \A v \in Writer : Calm(v) /\ (Asked(v) => req'[v] = req[v])
  BY <1>2 DEF Calm, Begin, Moves, PebbleInv, TypeOK, Asked
<1> QED BY <1>1, <1>3, CalmStep DEF Begin

LEMMA TakeLockStep ==
  ASSUME PebbleInv, NEW w \in Writer, TakeLock(w)
  PROVE  PebbleInv'
<1>1. TypeOK' /\ RequestsKnown'
  BY DEF PebbleInv, TypeOK, RequestsKnown, TakeLock, Moves, Asked, Steps
<1>2. LockHeld'
  <2>1. \A v \in Writer : pc[v] \notin Inside
    BY PebbleSentinels DEF PebbleInv, LockHeld, TakeLock
  <2> QED BY <2>1 DEF PebbleInv, TypeOK, LockHeld, TakeLock, Moves, Inside
<1>3. \A v \in Writer : Calm(v) /\ req'[v] = req[v]
  BY DEF Calm, TakeLock, Moves, PebbleInv, TypeOK
<1> QED BY <1>1, <1>2, <1>3, CalmStep DEF TakeLock

LEMMA ReadLayerStep ==
  ASSUME PebbleInv, NEW w \in Writer, ReadLayer(w)
  PROVE  PebbleInv'
<1>1. Asked(w)
  BY DEF PebbleInv, RequestsKnown, ReadLayer, Moves
<1>2. body[Target(w)] \in Config
  BY <1>1, WriterNames DEF PebbleInv, FilesKnown, ReadLayer, Moves
<1>3. TypeOK' /\ RequestsKnown' /\ LockHeld'
  BY <1>2 DEF PebbleInv, TypeOK, RequestsKnown, LockHeld, ReadLayer, Moves, Asked, Steps, Inside
<1>4. \A v \in Writer : Calm(v) /\ req'[v] = req[v]
  BY DEF Calm, ReadLayer, Moves, PebbleInv, TypeOK
<1> QED BY <1>3, <1>4, CalmStep DEF ReadLayer

\* The lock goes with the process, whatever it was doing.
LEMMA DieStep ==
  ASSUME PebbleInv, NEW w \in Writer, Die(w)
  PROVE  PebbleInv'
<1>1. TypeOK' /\ RequestsKnown' /\ LockHeld'
  BY PebbleSentinels
     DEF PebbleInv, TypeOK, RequestsKnown, LockHeld, Die, Freed, Asked, Steps, Inside
<1>2. \A v \in Writer : Calm(v) /\ req'[v] = req[v]
  BY DEF Calm, Die, PebbleInv, TypeOK
<1> QED BY <1>1, <1>2, CalmStep DEF Die

LEMMA StutterStep ==
  ASSUME PebbleInv, UNCHANGED vars
  PROVE  PebbleInv'
<1>1. TypeOK' /\ RequestsKnown' /\ LockHeld'
  BY DEF PebbleInv, TypeOK, RequestsKnown, LockHeld, Asked, vars
<1>2. \A v \in Writer : Calm(v) /\ req'[v] = req[v]
  BY DEF Calm, vars
<1> QED BY <1>1, <1>2, CalmStep DEF vars

\* A number that _layer_path chooses is one that the run has, and a new one is
\* above every number in use.
LEMMA PrefixChosen ==
  ASSUME PebbleInv, NEW w \in Writer, pc[w] = "choose", NEW p \in LayerPrefix(req[w].label)
  PROVE  /\ p \in Prefix /\ p <= FirstPrefix + Cardinality(Spent)
         /\ \A n \in Layers : n # Yaml(p, req[w].label) =>
              n.prefix # p /\ n.label # req[w].label
<1> DEFINE l == req[w].label
           Used == {name.prefix : name \in Existing} \cup {FirstPrefix - 1}
<1>1. Asked(w) /\ l \in Label
  BY WriterNames DEF PebbleInv, RequestsKnown
<1>2. \A name \in Existing :
        /\ name \in FileName /\ name.prefix \in Prefix /\ name.prefix \in Int
        /\ name.prefix < FirstPrefix + Cardinality(Spent)
  BY PrefixesEnough DEF Existing, FileName, Prefix, PebbleInv, NumbersLeft
<1>3. Cardinality(Spent) \in Nat /\ FirstPrefix + Cardinality(Spent) <= LastPrefix
  <2>1. w \notin Spent /\ Spent \subseteq Writer
    BY DEF Spent
  <2>2. Cardinality(Spent) \in Nat /\ Cardinality(Writer) \in Nat
        /\ Cardinality(Spent) < Cardinality(Writer)
    <3>1. Cardinality(Spent) # Cardinality(Writer)
      BY <2>1, PrefixesEnough, FS_Subset
    <3> QED BY <3>1, SpentCounted
  <2> QED BY <2>2, PrefixesEnough
<1>4. CASE LayersOf(l) # {}
  <2>1. PICK m \in LayersOf(l) : p = m.prefix
    BY <1>4 DEF LayerPrefix
  <2>2. m \in Existing /\ m \in Layers /\ m.label = l /\ ~ m.tmp
    BY DEF LayersOf, Layers
  <2>3. m = Yaml(p, l)
    BY <1>1, <1>2, <2>1, <2>2, Names
  <2> QED BY <1>2, <1>3, <2>1, <2>2, <2>3, PrefixesEnough DEF PebbleInv, LayersLoadable
<1>5. CASE LayersOf(l) = {}
  <2>1. Used \in SUBSET Int /\ Used # {} /\ FirstPrefix + Cardinality(Spent) - 1 \in Int
        /\ \A x \in Used : x <= FirstPrefix + Cardinality(Spent) - 1
    BY <1>2, <1>3, PrefixesEnough
  <2>2. Max(Used) \in Used /\ \A x \in Used : x <= Max(Used)
    <3> HIDE DEF Used
    <3> QED BY <2>1, MaxIsGreatest
  <2>3. PICK top \in Int : /\ p = top + 1
                          /\ top <= FirstPrefix + Cardinality(Spent) - 1
                          /\ \A x \in Used : x <= top
    <3>1. p = Max(Used) + 1
      BY <1>5 DEF LayerPrefix
    <3> HIDE DEF Used
    <3> QED BY <2>1, <2>2, <3>1
  <2>4. p \in Int /\ FirstPrefix - 1 <= top
    BY <2>3
  <2>5. \A n \in Layers : n.prefix < p
    <3> SUFFICES ASSUME NEW n \in Layers PROVE n.prefix < p
      OBVIOUS
    <3>1. n \in Existing /\ n.prefix \in Used /\ n.prefix \in Int
      BY <1>2 DEF Layers
    <3>2. n.prefix <= top
      BY <2>3, <3>1
    <3> HIDE DEF Used
    <3> QED BY <2>3, <3>1, <3>2
  <2>6. \A n \in Layers : n.label # l
    BY <1>5 DEF LayersOf
  <2>7. p \in Prefix /\ p <= FirstPrefix + Cardinality(Spent)
    BY <1>3, <2>3, <2>4, PrefixesEnough DEF Prefix
  <2>8. \A n \in Layers : n.prefix \in Int
    BY <1>2 DEF Layers
  <2> QED BY <2>4, <2>5, <2>6, <2>7, <2>8
<1> QED BY <1>4, <1>5

LEMMA ChoosePathStep ==
  ASSUME PebbleInv, NEW w \in Writer, ChoosePath(w)
  PROVE  PebbleInv'
<1>1. PICK p \in LayerPrefix(req[w].label) : path' = [path EXCEPT ![w] = p]
  BY DEF ChoosePath
<1>2. /\ pc[w] = "choose" /\ pc' = [pc EXCEPT ![w] = "open"]
      /\ UNCHANGED <<body, lock, plan, service, req, sent>>
  BY DEF ChoosePath, Moves
<1>3. /\ p \in Prefix /\ p <= FirstPrefix + Cardinality(Spent)
      /\ \A n \in Layers : n # Yaml(p, req[w].label) => n.prefix # p /\ n.label # req[w].label
  BY <1>2, PrefixChosen
<1>4. /\ pc \in [Writer -> Steps] /\ path \in [Writer -> Prefix]
      /\ pc'[w] = "open" /\ path'[w] = p
      /\ \A v \in Writer \ {w} : pc'[v] = pc[v] /\ path'[v] = path[v]
  BY <1>1, <1>2 DEF PebbleInv, TypeOK
<1>5. /\ Existing' = Existing /\ Layers' = Layers
      /\ \A l : LayersOf(l)' = LayersOf(l)
  BY <1>2, SameFiles
<1>6. TypeOK' /\ RequestsKnown' /\ LockHeld'
  BY <1>1, <1>2, <1>3 DEF PebbleInv, TypeOK, RequestsKnown, LockHeld, Asked, Steps, Inside
<1>7. NumbersLeft'
  <2>1. Spent' = Spent
    BY <1>2, <1>4 DEF Spent
  <2> QED BY <1>2, <1>3, <1>4, <1>5, <2>1 DEF PebbleInv, NumbersLeft
<1>8. LayersLoadable' /\ WholeLayers'
  BY <1>2, <1>5 DEF PebbleInv, LayersLoadable, WholeLayers
<1>9. PathFree'
  <2>1. Target(w)' = Yaml(p, req[w].label) /\ \A v \in Writer \ {w} : Target(v)' = Target(v)
    BY <1>2, <1>4 DEF Target
  <2> QED BY <1>2, <1>3, <1>4, <1>5, <2>1 DEF PebbleInv, PathFree
<1>10. FilesKnown'
  <2>1. \A v \in Writer \ {w} : Target(v)' = Target(v) /\ Scratch(v)' = Scratch(v)
    BY <1>2, <1>4 DEF Target, Scratch
  <2> QED BY <1>2, <1>4, <2>1 DEF PebbleInv, FilesKnown
<1>11. \A v \in Writer, l \in Label : AsksFor(v, l)' <=> AsksFor(v, l)
  BY <1>2 DEF AsksFor, Asked
<1>12. PlanCurrent'
  BY <1>2, <1>4, <1>5, <1>11 DEF PebbleInv, PlanCurrent
<1>13. ServicesCurrent'
  BY <1>2, <1>4, <1>11 DEF PebbleInv, ServicesCurrent
<1> QED BY <1>6, <1>7, <1>8, <1>9, <1>10, <1>12, <1>13 DEF PebbleInv

\* Only one writer is inside.
LEMMA OneInside ==
  ASSUME PebbleInv, NEW v \in Writer, NEW w \in Writer, pc[v] \in Inside, pc[w] \in Inside
  PROVE  v = w
BY DEF PebbleInv, LockHeld

\* open and write touch the temporary file only, which no layer depends on.
LEMMA ScratchStep ==
  ASSUME PebbleInv, NEW w \in Writer,
         \/ pc[w] = "open" /\ pc' = [pc EXCEPT ![w] = "write"]
         \/ pc[w] = "write" /\ pc' = [pc EXCEPT ![w] = "replace"],
         NEW content \in Config \cup {Torn},
         pc[w] = "write" => content = req[w].config,
         body' = [body EXCEPT ![Scratch(w)] = content],
         UNCHANGED <<lock, plan, service, req, path, sent>>
  PROVE  PebbleInv'
<1>1. Asked(w) /\ pc[w] \in Inside /\ lock = w
  BY DEF PebbleInv, RequestsKnown, LockHeld, Inside
<1>2. /\ Scratch(w) \in FileName /\ Scratch(w).tmp /\ Scratch(w).prefix = path[w]
      /\ path[w] \in Int
  BY <1>1, WriterNames DEF PebbleInv
<1>3. /\ pc'[w] \in {"write", "replace"} /\ \A v \in Writer \ {w} : pc'[v] = pc[v]
      /\ pc'[w] = "replace" => pc[w] = "write"
      /\ body'[Scratch(w)] = content
      /\ \A n \in FileName \ {Scratch(w)} : body'[n] = body[n]
  BY <1>2 DEF PebbleInv, TypeOK
<1>4. \A v \in Writer : Target(v)' = Target(v) /\ Scratch(v)' = Scratch(v)
  BY DEF Target, Scratch
<1>5. \A v \in Writer \ {w} : pc[v] \notin Inside /\ pc'[v] \notin Inside
  BY <1>1, <1>3, OneInside
<1>6. Existing' \subseteq Existing \cup {Scratch(w)}
  BY <1>3 DEF Existing
<1>7. /\ Layers' = Layers /\ \A l : LayersOf(l)' = LayersOf(l)
      /\ \A n \in Layers : body'[n] = body[n]
      /\ \A l : \A n \in LayersOf(l) : body'[n] = body[n]
  BY <1>2, <1>3 DEF Existing, Layers, LayersOf
<1>8. TypeOK' /\ RequestsKnown' /\ LockHeld'
  BY <1>2 DEF PebbleInv, TypeOK, RequestsKnown, LockHeld, Asked, Steps, Inside
<1>9. NumbersLeft'
  <2>1. Spent' = Spent \cup {w}
    BY <1>3 DEF Spent
  <2>2. /\ Cardinality(Spent) \in Nat /\ Cardinality(Spent') \in Nat
        /\ Cardinality(Spent) <= Cardinality(Spent')
        /\ pc[w] = "open" => Cardinality(Spent) + 1 <= Cardinality(Spent')
    <3>1. pc[w] = "open" => Spent # Spent'
      BY <2>1 DEF Spent
    <3> QED BY <2>1, <3>1, SpentCounted, SpentGrows
  <2>3. \A name \in Existing : name.prefix \in Int
    BY PrefixesEnough DEF Existing, FileName, Prefix
  <2>4. path[w] < FirstPrefix + Cardinality(Spent')
    BY <1>2, <2>2, PrefixesEnough DEF PebbleInv, NumbersLeft
  <2>5. \A name \in Existing' : name.prefix < FirstPrefix + Cardinality(Spent')
    BY <1>2, <1>6, <2>2, <2>3, <2>4, PrefixesEnough DEF PebbleInv, NumbersLeft
  <2>6. \A v \in Writer : pc'[v] \in {"open", "write", "replace"} => v = w
    BY <1>5 DEF Inside
  <2> QED BY <1>3, <2>4, <2>5, <2>6 DEF NumbersLeft
<1>10. LayersLoadable' /\ WholeLayers'
  BY <1>7 DEF PebbleInv, LayersLoadable, WholeLayers
<1>11. PathFree'
  BY <1>4, <1>5, <1>7 DEF PebbleInv, PathFree, Inside
<1>12. FilesKnown'
  BY <1>3, <1>4, <1>5 DEF FilesKnown, Inside
<1>13. \A v \in Writer, l \in Label : AsksFor(v, l)' <=> AsksFor(v, l)
  BY DEF AsksFor, Asked
<1>14. PlanCurrent'
  BY <1>3, <1>7, <1>13 DEF PebbleInv, PlanCurrent
<1>15. ServicesCurrent'
  BY <1>3, <1>13 DEF PebbleInv, ServicesCurrent
<1> QED BY <1>8, <1>9, <1>10, <1>11, <1>12, <1>14, <1>15 DEF PebbleInv

\* os.replace puts the whole new layer where the writer's path says, and no other
\* layer has its number or its label.
LEMMA ReplaceLayerStep ==
  ASSUME PebbleInv, NEW w \in Writer, ReplaceLayer(w)
  PROVE  /\ PebbleInv' /\ Asked(w) /\ body'[Target(w)] = req[w].config
         /\ LayersOf(req[w].label)' = {Target(w)}
         /\ \A l \in Label \ {req[w].label} :
              LayersOf(l)' = LayersOf(l) /\ \A n \in LayersOf(l) : body'[n] = body[n]
<1> DEFINE own == req[w].label
<1>1. /\ pc[w] = "replace" /\ pc' = [pc EXCEPT ![w] = "read"]
      /\ body' = [body EXCEPT ![Target(w)] = body[Scratch(w)], ![Scratch(w)] = NoFile]
      /\ UNCHANGED <<lock, plan, service, req, path, sent>>
  BY DEF ReplaceLayer, Moves
<1>2. Asked(w) /\ pc[w] \in Inside
  BY <1>1 DEF PebbleInv, RequestsKnown, Inside
<1>3. /\ Target(w) \in FileName /\ Scratch(w) \in FileName /\ Target(w) # Scratch(w)
      /\ ~ Target(w).tmp /\ Scratch(w).tmp
      /\ Target(w).prefix = path[w] /\ Target(w).label = own
      /\ path[w] \in Int /\ own \in Label /\ req[w].config \in Config /\ req[w].config # NoFile
  BY <1>2, WriterNames DEF PebbleInv
<1>4. /\ pc'[w] = "read" /\ \A v \in Writer \ {w} : pc'[v] = pc[v]
      /\ body'[Target(w)] = req[w].config /\ body'[Scratch(w)] = NoFile
      /\ \A n \in FileName \ {Target(w), Scratch(w)} : body'[n] = body[n]
  BY <1>1, <1>3 DEF PebbleInv, TypeOK, FilesKnown
<1>5. \A v \in Writer : Target(v)' = Target(v) /\ Scratch(v)' = Scratch(v)
  BY <1>1 DEF Target, Scratch
<1>6. \A v \in Writer \ {w} : pc[v] \notin Inside /\ pc'[v] \notin Inside
  BY <1>2, <1>4, OneInside
<1>7. Existing' \subseteq Existing \cup {Target(w)}
  BY <1>4 DEF Existing
<1>8. /\ Layers' = Layers \cup {Target(w)}
      /\ \A n \in Layers \ {Target(w)} : body'[n] = body[n]
  BY <1>3, <1>4 DEF Existing, Layers
<1>9. \A n \in Layers \ {Target(w)} : n.prefix # path[w] /\ n.label # own
  BY <1>1 DEF PebbleInv, PathFree
<1>10. LayersOf(own)' = {Target(w)}
  BY <1>1, <1>3, <1>8, <1>9 DEF LayersOf
<1>11. \A l \in Label \ {own} :
         LayersOf(l)' = LayersOf(l) /\ \A n \in LayersOf(l) : body'[n] = body[n]
  BY <1>3, <1>8 DEF LayersOf
<1>12. TypeOK' /\ RequestsKnown' /\ LockHeld'
  <2>1. body' \in [FileName -> Config \cup {NoFile, Torn}]
    BY <1>1, <1>3 DEF PebbleInv, TypeOK
  <2> QED BY <1>1, <2>1
          DEF PebbleInv, TypeOK, RequestsKnown, LockHeld, Asked, Steps, Inside
<1>13. NumbersLeft'
  <2>1. Spent' = Spent
    BY <1>1, <1>4 DEF Spent
  <2>2. path[w] < FirstPrefix + Cardinality(Spent)
    BY <1>1 DEF PebbleInv, NumbersLeft
  <2>3. \A name \in Existing' : name.prefix < FirstPrefix + Cardinality(Spent)
    BY <1>3, <1>7, <2>2 DEF PebbleInv, NumbersLeft
  <2>4. \A v \in Writer : pc'[v] \notin {"open", "write", "replace"}
    BY <1>4, <1>6 DEF Inside
  <2> QED BY <2>1, <2>3, <2>4 DEF NumbersLeft
<1>14. LayersLoadable'
  BY <1>3, <1>8, <1>9 DEF PebbleInv, LayersLoadable
<1>15. WholeLayers'
  BY <1>1, <1>3, <1>4, <1>8 DEF PebbleInv, WholeLayers
<1>16. PathFree'
  BY <1>4, <1>6 DEF PathFree, Inside
<1>17. FilesKnown'
  BY <1>1, <1>4, <1>5, <1>6 DEF FilesKnown, Inside
<1>18. \A v \in Writer, l \in Label : AsksFor(v, l)' <=> AsksFor(v, l)
  BY <1>1 DEF AsksFor, Asked
<1>19. PlanCurrent'
  <2> SUFFICES ASSUME NEW l \in Label,
                      \A v \in Writer : AsksFor(v, l) => pc'[v] \notin {"read", "add", "failed"}
               PROVE  /\ \A name \in LayersOf(l)' : body'[name] = plan[l]
                      /\ LayersOf(l)' = {} => plan[l] = NoConfig
    BY <1>1, <1>18 DEF PlanCurrent
  <2>1. l # own
    BY <1>2, <1>4 DEF AsksFor
  <2>2. \A v \in Writer : AsksFor(v, l) => pc[v] \notin {"read", "add", "failed"}
    BY <1>1, <1>4
  <2> QED BY <1>11, <2>1, <2>2 DEF PebbleInv, PlanCurrent
<1>20. ServicesCurrent'
  BY <1>1, <1>4, <1>18 DEF PebbleInv, ServicesCurrent
<1> QED BY <1>2, <1>4, <1>10, <1>11, <1>12, <1>13, <1>14, <1>15, <1>16, <1>17, <1>19, <1>20
        DEF PebbleInv

\* The daemon gets what the file says, and is then up to date with it.
LEMMA AddLayerStep ==
  ASSUME PebbleInv, NEW w \in Writer, AddLayer(w)
  PROVE  PebbleInv'
<1> DEFINE own == req[w].label
<1>1. PICK next \in {"replan", "failed"} : pc' = [pc EXCEPT ![w] = next]
  BY DEF AddLayer, Moves
<1>2. /\ pc[w] = "add" /\ plan' = [plan EXCEPT ![own] = sent[w]]
      /\ lock' = Freed(w) /\ UNCHANGED <<body, service, req, path, sent>>
  BY DEF AddLayer, Moves
<1>3. Asked(w) /\ pc[w] \in Inside /\ lock = w
  BY <1>2 DEF PebbleInv, RequestsKnown, LockHeld, Inside
<1>4. /\ own \in Label /\ req[w].config \in Config /\ Target(w) \in FileName
      /\ ~ Target(w).tmp /\ Target(w).label = own
  BY <1>3, WriterNames DEF PebbleInv
<1>5. sent[w] = req[w].config /\ body[Target(w)] = req[w].config
  BY <1>2 DEF PebbleInv, FilesKnown
<1>6. /\ plan'[own] = req[w].config /\ \A l \in Label \ {own} : plan'[l] = plan[l]
      /\ pc'[w] = next /\ \A v \in Writer \ {w} : pc'[v] = pc[v]
  BY <1>1, <1>2, <1>4, <1>5 DEF PebbleInv, TypeOK
<1>7. \A v \in Writer \ {w} : pc[v] \notin Inside /\ pc'[v] \notin Inside
  BY <1>3, <1>6, OneInside
<1>8. /\ Existing' = Existing /\ Layers' = Layers
      /\ \A l : LayersOf(l)' = LayersOf(l)
  BY <1>2, SameFiles
<1>9. \A v \in Writer : pc'[v] \notin Inside
  BY <1>6, <1>7 DEF Inside
<1>10. TypeOK' /\ RequestsKnown' /\ LockHeld'
  <2>1. TypeOK'
    BY <1>1, <1>2, <1>3, <1>4, <1>5 DEF PebbleInv, TypeOK, Freed, Steps
  <2>2. RequestsKnown'
    BY <1>2, <1>3, <1>6 DEF PebbleInv, RequestsKnown, Asked
  <2>3. lock' = NoWriter
    BY <1>2, <1>3 DEF Freed
  <2> QED BY <1>9, <2>1, <2>2, <2>3, PebbleSentinels DEF LockHeld
<1>11. NumbersLeft'
  <2>1. Spent' = Spent
    BY <1>2, <1>6 DEF Spent
  <2>2. \A v \in Writer : pc'[v] \notin {"open", "write", "replace"}
    BY <1>9 DEF Inside
  <2> QED BY <1>8, <2>1, <2>2 DEF PebbleInv, NumbersLeft
<1>12. LayersLoadable'
  BY <1>8 DEF PebbleInv, LayersLoadable
<1>13. WholeLayers'
  BY <1>2, <1>4, <1>6, <1>8, PebbleSentinels DEF PebbleInv, WholeLayers
<1>14. PathFree' /\ FilesKnown'
  BY <1>9 DEF PathFree, FilesKnown, Inside
<1>15. \A v \in Writer, l \in Label : AsksFor(v, l)' <=> AsksFor(v, l)
  BY <1>2 DEF AsksFor, Asked
<1>16. LayersOf(own) = {Target(w)}
  <2>1. Target(w) \in LayersOf(own)
    BY <1>4, <1>5, PebbleSentinels DEF LayersOf, Layers, Existing
  <2> QED BY <2>1, OneLayer DEF PebbleInv
<1>17. PlanCurrent'
  <2> SUFFICES ASSUME NEW l \in Label,
                      \A v \in Writer : AsksFor(v, l) => pc'[v] \notin {"read", "add", "failed"}
               PROVE  /\ \A name \in LayersOf(l) : body[name] = plan'[l]
                      /\ LayersOf(l) = {} => plan'[l] = NoConfig
    BY <1>2, <1>8, <1>15 DEF PlanCurrent
  <2>1. CASE l = own
    BY <1>5, <1>6, <1>16, <2>1
  <2>2. CASE l # own
    <3>1. ~ AsksFor(w, l)
      BY <2>2 DEF AsksFor
    <3>2. \A v \in Writer : AsksFor(v, l) => pc[v] \notin {"read", "add", "failed"}
      BY <1>6, <3>1
    <3> QED BY <1>6, <2>2, <3>2 DEF PebbleInv, PlanCurrent
  <2> QED BY <2>1, <2>2
<1>18. ServicesCurrent'
  <2> SUFFICES ASSUME NEW l \in Label,
                      \A v \in Writer : AsksFor(v, l) => pc'[v] \notin {"replan", "failed"}
               PROVE  service[l] = plan'[l]
    BY <1>2, <1>15 DEF ServicesCurrent
  <2>1. l # own
    BY <1>3, <1>6 DEF AsksFor
  <2>2. \A v \in Writer : AsksFor(v, l) => pc[v] \notin {"replan", "failed"}
    BY <1>2, <1>6
  <2> QED BY <1>6, <2>1, <2>2 DEF PebbleInv, ServicesCurrent
<1> QED BY <1>10, <1>11, <1>12, <1>13, <1>14, <1>17, <1>18 DEF PebbleInv

LEMMA ReplanStep ==
  ASSUME PebbleInv, NEW w \in Writer, Replan(w)
  PROVE  PebbleInv'
<1>1. PICK next \in {"ok", "failed"} : pc' = [pc EXCEPT ![w] = next]
  BY DEF Replan, Moves
<1>2. /\ pc[w] = "replan" /\ service' = plan
      /\ UNCHANGED <<body, lock, plan, req, path, sent>>
  BY DEF Replan, Moves
<1>3. pc'[w] = next /\ \A v \in Writer \ {w} : pc'[v] = pc[v]
  BY <1>1 DEF PebbleInv, TypeOK
<1>4. /\ Existing' = Existing /\ Layers' = Layers
      /\ \A l : LayersOf(l)' = LayersOf(l)
  BY <1>2, SameFiles
<1>5. \A v \in Writer : /\ Target(v)' = Target(v) /\ Scratch(v)' = Scratch(v)
                       /\ \A l \in Label : AsksFor(v, l)' <=> AsksFor(v, l)
  BY <1>2 DEF Target, Scratch, AsksFor, Asked
<1>6. TypeOK' /\ RequestsKnown' /\ LockHeld'
  BY <1>1, <1>2 DEF PebbleInv, TypeOK, RequestsKnown, LockHeld, Asked, Steps, Inside
<1>7. NumbersLeft'
  <2>1. Spent' = Spent
    BY <1>2, <1>3 DEF Spent
  <2> QED BY <1>2, <1>3, <1>4, <2>1 DEF PebbleInv, NumbersLeft
<1>8. LayersLoadable' /\ WholeLayers'
  BY <1>2, <1>4 DEF PebbleInv, LayersLoadable, WholeLayers
<1>9. PathFree' /\ FilesKnown'
  BY <1>2, <1>3, <1>4, <1>5 DEF PebbleInv, PathFree, FilesKnown
<1>10. PlanCurrent'
  BY <1>2, <1>3, <1>4, <1>5 DEF PebbleInv, PlanCurrent
<1>11. ServicesCurrent'
  BY <1>2 DEF ServicesCurrent
<1> QED BY <1>6, <1>7, <1>8, <1>9, <1>10, <1>11 DEF PebbleInv

\* A Pebble that starts knows what the files say.
LEMMA RestartStep ==
  ASSUME PebbleInv, PebbleRestart
  PROVE  PebbleInv'
<1>1. PICK load \in [Label -> Config \cup {Torn, NoConfig}] :
        /\ \A l \in Label : IF LayersOf(l) = {} THEN load[l] = NoConfig
                            ELSE \E name \in LayersOf(l) : load[l] = body[name]
        /\ plan' = load /\ service' = load
  BY DEF PebbleRestart
<1>2. UNCHANGED <<body, lock, pc, req, path, sent>>
  BY DEF PebbleRestart
<1>3. /\ Existing' = Existing /\ Layers' = Layers
      /\ \A l : LayersOf(l)' = LayersOf(l)
  BY <1>2, SameFiles
<1>4. \A l \in Label : \A name \in LayersOf(l) : load[l] = body[name]
  BY <1>1, OneLayer DEF PebbleInv
<1>5. TypeOK' /\ RequestsKnown' /\ LockHeld'
  BY <1>1, <1>2 DEF PebbleInv, TypeOK, RequestsKnown, LockHeld, Asked
<1>6. NumbersLeft'
  <2>1. Spent' = Spent
    BY <1>2 DEF Spent
  <2> QED BY <1>2, <1>3, <2>1 DEF PebbleInv, NumbersLeft
<1>7. LayersLoadable'
  BY <1>3 DEF PebbleInv, LayersLoadable
<1>8. PathFree' /\ FilesKnown'
  <2>1. \A v \in Writer : Target(v)' = Target(v) /\ Scratch(v)' = Scratch(v)
    BY <1>2 DEF Target, Scratch
  <2> QED BY <1>2, <1>3, <2>1 DEF PebbleInv, PathFree, FilesKnown
<1>9. WholeLayers'
  <2>1. \A l \in Label : \A name \in LayersOf(l) : body[name] \in Config
    BY DEF PebbleInv, WholeLayers, LayersOf
  <2>2. \A l \in Label : load[l] \in Config \cup {NoConfig}
    BY <1>1, <2>1
  <2> QED BY <1>1, <1>2, <1>3, <2>2, PebbleSentinels DEF PebbleInv, WholeLayers
<1>10. PlanCurrent' /\ ServicesCurrent'
  BY <1>1, <1>2, <1>3, <1>4 DEF PlanCurrent, ServicesCurrent
<1> QED BY <1>5, <1>6, <1>7, <1>8, <1>9, <1>10 DEF PebbleInv

LEMMA NextInv == PebbleInv /\ [Next]_vars => PebbleInv'
<1> SUFFICES ASSUME PebbleInv, [Next]_vars PROVE PebbleInv'
  OBVIOUS
<1>1. ASSUME NEW w \in Writer, NEW r \in Request, Begin(w, r) PROVE PebbleInv'
  BY <1>1, BeginStep
<1>2. ASSUME NEW w \in Writer, TakeLock(w) PROVE PebbleInv'
  BY <1>2, TakeLockStep
<1>3. ASSUME NEW w \in Writer, ChoosePath(w) PROVE PebbleInv'
  BY <1>3, ChoosePathStep
<1>4. ASSUME NEW w \in Writer, OpenScratch(w) PROVE PebbleInv'
  <2>1. pc[w] # "write"
    BY <1>4 DEF OpenScratch, Moves
  <2> QED BY <1>4, <2>1, ScratchStep DEF OpenScratch, Moves
<1>5. ASSUME NEW w \in Writer, WriteScratch(w) PROVE PebbleInv'
  <2>1. req[w].config \in Config
    BY <1>5, WriterNames DEF PebbleInv, RequestsKnown, WriteScratch, Moves
  <2> QED BY <1>5, <2>1, ScratchStep DEF WriteScratch, Moves
<1>6. ASSUME NEW w \in Writer, ReplaceLayer(w) PROVE PebbleInv'
  BY <1>6, ReplaceLayerStep
<1>7. ASSUME NEW w \in Writer, ReadLayer(w) PROVE PebbleInv'
  BY <1>7, ReadLayerStep
<1>8. ASSUME NEW w \in Writer, AddLayer(w) PROVE PebbleInv'
  BY <1>8, AddLayerStep
<1>9. ASSUME NEW w \in Writer, Replan(w) PROVE PebbleInv'
  BY <1>9, ReplanStep
<1>10. ASSUME NEW w \in Writer, Die(w) PROVE PebbleInv'
  BY <1>10, DieStep
<1>11. CASE PebbleRestart
  BY <1>11, RestartStep
<1>12. CASE UNCHANGED vars
  BY <1>12, StutterStep
<1> QED BY <1>1, <1>2, <1>3, <1>4, <1>5, <1>6, <1>7, <1>8, <1>9, <1>10, <1>11, <1>12
        DEF Next, Call

-----------------------------------------------------------------------------

\* What each writer knows while it is inside the lock, and that no kill, failure
\* or restart of Pebble makes it false (pebble_layers.register_boot_unlock).
THEOREM PebbleInvariant == Spec => []PebbleInv
<1>1. Init => PebbleInv
  BY InitInv
<1>2. PebbleInv /\ [Next]_vars => PebbleInv'
  BY NextInv
<1> QED BY <1>1, <1>2, PTL DEF Spec

\* With room for one number for each writer, _next_layer_prefix never needs another
\* one, whatever files killed writers left.
THEOREM NumbersSuffice == Spec => []TypeOK
<1>1. PebbleInv => TypeOK
  BY DEF PebbleInv
<1> QED BY <1>1, PebbleInvariant, PTL

\* No order of writers, kills and restarts leaves two layers with one number or
\* one label, on which Pebble would refuse to start.
THEOREM LayersStayLoadable == Spec => []LayersLoadable
<1>1. PebbleInv => LayersLoadable
  BY DEF PebbleInv
<1> QED BY <1>1, PebbleInvariant, PTL

\* When the writers of a device have all succeeded, its file, the plan and the
\* service agree, although replan runs without the lock.
THEOREM WritersSettle == Spec => []Settled
<1>1. PebbleInv => Settled
  <2> SUFFICES ASSUME PebbleInv, NEW l \in Label,
                      \A w \in Writer : AsksFor(w, l) => pc[w] = "ok"
               PROVE  /\ \A name \in LayersOf(l) : body[name] = plan[l]
                      /\ LayersOf(l) = {} => plan[l] = NoConfig
                      /\ service[l] = plan[l]
    BY DEF Settled, AsksFor, Asked
  <2> QED BY DEF PebbleInv, PlanCurrent, ServicesCurrent
<1> QED BY <1>1, PebbleInvariant, PTL

\* Where the layers of a device stay as they are, so does what boot finds.
LEMMA BootKept ==
  ASSUME NEW l \in Label, LayersOf(l)' = LayersOf(l),
         \A n \in LayersOf(l) : body'[n] = body[n]
  PROVE  AtBoot'[l] = AtBoot[l]
BY DEF AtBoot

LEMMA AllBootKept ==
  ASSUME \A l \in Label :
           LayersOf(l)' = LayersOf(l) /\ \A n \in LayersOf(l) : body'[n] = body[n]
  PROVE  UNCHANGED AtBoot
<1>1. \A l \in Label : AtBoot'[l] = AtBoot[l]
  BY BootKept
<1> QED BY <1>1 DEF AtBoot

\* A call that begins is one more request; no other step changes what was asked.
LEMMA Requests ==
  ASSUME PebbleInv, NEW w \in Writer, NEW r \in Request, Begin(w, r)
  PROVE  Requested' = Requested \cup {<<r.label, r.config>>}
<1>1. /\ ~ Asked(w) /\ req' = [req EXCEPT ![w] = r] /\ r # NoRequest
      /\ req \in [Writer -> Request \cup {NoRequest}]
  BY PebbleSentinels DEF PebbleInv, TypeOK, RequestsKnown, Begin, Moves
<1>2. {x \in Writer : req'[x] # NoRequest} = {x \in Writer : req[x] # NoRequest} \cup {w}
  BY <1>1
<1>3. \A x \in {v \in Writer : req[v] # NoRequest} : req'[x] = req[x]
  BY <1>1 DEF Asked
<1>4. req'[w] = r
  BY <1>1
<1> QED BY <1>2, <1>3, <1>4 DEF Requested

\* Only os.replace changes what the next start of Pebble finds, to the whole of
\* one registration that was asked for.
THEOREM RefinesRegistry == Spec => ImplementsRegistry
<1>1. Init => Registry!Init
  BY DEF Init, Registry!Init, AtBoot, Requested, LayersOf, Layers, Existing
<1>2. PebbleInv /\ [Next]_vars => [Registry!Next]_(Registry!vars)
  <2> SUFFICES ASSUME PebbleInv, [Next]_vars
               PROVE  Registry!Next \/ UNCHANGED <<AtBoot, Requested>>
    BY DEF Registry!vars
  <2>1. ASSUME NEW w \in Writer, NEW r \in Request, Begin(w, r) PROVE Registry!Ask
    <3>1. r.label \in Label /\ r.config \in Config
      BY DEF Request
    <3>2. UNCHANGED AtBoot
      BY <2>1, SameFiles, AllBootKept DEF Begin
    <3> QED BY <2>1, <3>1, <3>2, Requests DEF Registry!Ask
  <2>2. ASSUME NEW w \in Writer, ReplaceLayer(w) PROVE Registry!Take
    <3> DEFINE own == req[w].label
               take == <<own, req[w].config>>
    <3>1. /\ Asked(w) /\ body'[Target(w)] = req[w].config /\ LayersOf(own)' = {Target(w)}
          /\ \A l \in Label \ {own} :
               LayersOf(l)' = LayersOf(l) /\ \A n \in LayersOf(l) : body'[n] = body[n]
      BY <2>2, ReplaceLayerStep
    <3>2. own \in Label
      BY <3>1, WriterNames DEF PebbleInv
    <3>3. UNCHANGED Requested
      BY <2>2 DEF ReplaceLayer, Requested
    <3>4. take \in Requested
      BY <3>1 DEF Requested, Asked
    <3>5. AtBoot'[own] = req[w].config
      <4>1. \A l \in Label : LayersOf(l)' # {} =>
              AtBoot'[l] = body'[CHOOSE name \in LayersOf(l)' : TRUE]
        BY DEF AtBoot
      <4>2. \A l \in Label : l = own => LayersOf(l)' = {Target(w)}
        BY <2>2, <3>1 DEF ReplaceLayer
      <4>3. (CHOOSE name \in {Target(w)} : TRUE) = Target(w)
        OBVIOUS
      <4> QED BY <3>1, <3>2, <4>1, <4>2, <4>3
    <3>6. \A l \in Label \ {own} : AtBoot'[l] = AtBoot[l]
      BY <3>1, BootKept
    <3>7. AtBoot' = [AtBoot EXCEPT ![take[1]] = take[2]]
      BY <3>2, <3>5, <3>6 DEF AtBoot
    <3> QED BY <3>3, <3>4, <3>7 DEF Registry!Take
  <2>3. ASSUME NEW w \in Writer, OpenScratch(w) \/ WriteScratch(w)
        PROVE  UNCHANGED <<AtBoot, Requested>>
    <3>1. Asked(w) /\ UNCHANGED req
      BY <2>3 DEF PebbleInv, RequestsKnown, OpenScratch, WriteScratch, Moves
    <3>2. Scratch(w) \in FileName /\ Scratch(w).tmp
      BY <3>1, WriterNames DEF PebbleInv
    <3>3. /\ body \in [FileName -> Config \cup {NoFile, Torn}]
          /\ \A n \in FileName \ {Scratch(w)} : body'[n] = body[n]
      BY <2>3, <3>2 DEF PebbleInv, TypeOK, OpenScratch, WriteScratch
    <3>4. \A l \in Label :
            LayersOf(l)' = LayersOf(l) /\ \A n \in LayersOf(l) : body'[n] = body[n]
      BY <3>2, <3>3 DEF LayersOf, Layers, Existing
    <3>5. UNCHANGED AtBoot
      BY <3>4, AllBootKept
    <3> QED BY <3>1, <3>5 DEF Requested
  <2>4. ASSUME UNCHANGED <<body, req>> PROVE UNCHANGED <<AtBoot, Requested>>
    BY <2>4, SameFiles, AllBootKept DEF Requested
  <2> QED BY <2>1, <2>2, <2>3, <2>4
          DEF Next, Call, TakeLock, ChoosePath, ReadLayer, AddLayer, Replan, Die,
              PebbleRestart, vars, Registry!Next
<1> QED BY <1>1, <1>2, PebbleInvariant, PTL DEF Spec, ImplementsRegistry, Registry!Spec
=============================================================================
