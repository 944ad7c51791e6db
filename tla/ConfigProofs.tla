---------------------------- MODULE ConfigProofs ----------------------------
(***************************************************************************)
(* Theorems about the two configuration scripts.                           *)
(*                                                                         *)
(* ConfigHeader: a finished build has the header its settings ask for,     *)
(* whatever was cut off or failed before, and an unchanged header is left  *)
(* alone: for every table of settings, every set of lists of them, every   *)
(* set of sources and any number of runs of Make.  Neither property is     *)
(* inductive.  What both need is where the settings are at each point of a *)
(* run (Listing, Passing) and what time stamps tell (Fresh, Remembered):   *)
(* an object newer than the header in use was compiled with it.            *)
(*                                                                         *)
(* RiscvConfig: the script accepts what is possible and nothing else, and  *)
(* what it prints is read back as what it found: for every set of          *)
(* arguments.  What the parser needs is ScriptInv: the symbols it has read *)
(* may begin a well-formed specification, the running section holds what   *)
(* may still follow them, and the set found is what they mean.             *)
(***************************************************************************)
EXTENDS ConfigHeader, RiscvConfig, NaturalsInduction, WellFoundedInduction, TLAPS

-----------------------------------------------------------------------------
(***************************************************************************)
(* The configuration header.                                               *)
(***************************************************************************)
\* The lines come in the order of Make's sort.
Ordered == \A k, l \in DOMAIN obj_lst : k < l => obj_lst[k] < obj_lst[l]

\* The list of a run holds settings of the list in use, and those before every other.
Listing ==
    /\ pc \in {"list", "generate", "fill"} =>
        /\ Ordered
        /\ InList(obj_lst) \subseteq InList(config)
        /\ \A k \in DOMAIN obj_lst : \A i \in Unlisted : obj_lst[k] < i
    /\ pc \in {"generate", "fill"} => Unlisted = {}

Asked(header) == header.whole /\ header.defines = Wanted

\* A run whose script has not failed carries the settings on, from the object
\* header, written later than the header in use, to the header in use.
Passing ==
    ~failed =>
        /\ pc = "check" => obj.time > out.time
        /\ pc \in {"check", "deploy", "copy"} => Asked(obj)
        /\ pc \in {"compile", "built"} => Asked(out)

\* An object that is not older than the header in use was compiled with it.
Fresh ==
    /\ \A s \in Sources : objects[s].time >= out.time => Content(objects[s]) = Content(out)
    /\ pc = "built" => \A s \in Sources : objects[s].time >= out.time

\* The header of the last build is remembered while it is in use and no object is older.
Remembered ==
    last # Missing =>
        /\ last = out /\ pc # "copy"
        /\ \A s \in Sources : objects[s].time >= out.time

Timed ==
    /\ clock \in Nat /\ obj.time \in Nat /\ out.time \in Nat
    /\ DOMAIN objects = Sources /\ \A s \in Sources : objects[s].time \in Nat

IInv == TypeOK /\ Timed /\ Listing /\ Passing /\ Fresh /\ Remembered

-----------------------------------------------------------------------------
Below == {pair \in Nat \X Nat : pair[1] < pair[2]}

\* A nonempty set of naturals has a least element.
LEMMA LeastElement ==
    ASSUME NEW S, S \subseteq Nat, S # {}
    PROVE  \E n \in S : \A m \in S : n <= m
<1>1. IsWellFoundedOn(Below, Nat)
  BY NatLessThanWellFounded DEF OpToRel, Below
<1>2. PICK n \in S : \A m \in S : ~ (<<m, n>> \in Below)
  BY <1>1, WFMin
<1>3. ASSUME NEW m \in S PROVE n <= m
  <2>1. m \in Nat /\ n \in Nat
    OBVIOUS
  <2>2. m < n => <<m, n>> \in Below
    BY <2>1 DEF Below
  <2>3. ~ (m < n)
    BY <1>2, <2>2
  <2> QED BY <2>1, <2>3
<1> QED BY <1>3

\* Settings are numbers of lines of the table.
LEMMA ListType ==
    ASSUME NEW list \in Seq(1 .. Len(Items))
    PROVE  /\ InList(list) \subseteq Nat
           /\ InList(list) \subseteq 1 .. Len(Items)
           /\ \A k \in DOMAIN list : k \in Nat /\ list[k] \in Nat
<1>1. Len(Items) \in Nat
  BY HeaderAssumption
<1>2. \A k \in DOMAIN list : k \in Nat /\ list[k] \in 1 .. Len(Items)
  OBVIOUS
<1>3. \A k \in DOMAIN list : list[k] \in Nat
  BY <1>1, <1>2
<1> QED BY <1>2, <1>3 DEF InList

\* The key of every setting listed has a line that is the first of it: that of
\* the least setting with the key.
LEMMA FirstLine ==
    ASSUME NEW lines \in Seq(1 .. Len(Items)), NEW key,
           \A k, l \in DOMAIN lines : k < l => lines[k] < lines[l],
           \E k \in DOMAIN lines : Items[lines[k]].key = key
    PROVE  \E n \in DOMAIN lines :
             /\ Items[lines[n]].key = key
             /\ \A i \in InList(lines) : Items[i].key = key => lines[n] <= i
             /\ \A k \in DOMAIN lines :
                  (Items[lines[k]].key = key /\ FirstOfKey(lines, k)) <=> (k = n)
<1> DEFINE S == {k \in DOMAIN lines : Items[lines[k]].key = key}
<1>1. S \subseteq Nat /\ S # {}
  BY ListType
<1>2. PICK n \in S : \A m \in S : n <= m
  <2> HIDE DEF S
  <2> QED BY <1>1, LeastElement
<1>3. n \in Nat /\ n \in DOMAIN lines /\ Items[lines[n]].key = key
  BY <1>1
<1>4. DOMAIN lines = 1 .. Len(lines) /\ Len(lines) \in Nat
  OBVIOUS
<1>5. \A i \in InList(lines) : Items[i].key = key => lines[n] <= i
  <2>1. SUFFICES ASSUME NEW k \in DOMAIN lines, Items[lines[k]].key = key PROVE lines[n] <= lines[k]
    BY DEF InList
  <2>2. n <= k /\ k \in Nat
    BY <1>2, <2>1, <1>1
  <2>3. lines[n] \in Nat /\ lines[k] \in Nat
    BY <1>3, ListType
  <2>4. CASE n = k
    BY <2>3, <2>4
  <2>5. CASE n < k
    <3>1. lines[n] < lines[k]
      BY <1>3, <2>5
    <3> QED BY <3>1, <2>3
  <2> QED BY <2>2, <2>4, <2>5, <1>3
<1>6. FirstOfKey(lines, n)
  <2>1. SUFFICES ASSUME NEW j \in 1 .. n - 1, Items[lines[j]].key = Items[lines[n]].key PROVE FALSE
    BY DEF FirstOfKey
  <2>2. j \in DOMAIN lines /\ j < n /\ j \in Nat
    BY <1>3, <1>4
  <2>3. j \in S
    BY <2>1, <2>2, <1>3
  <2> QED BY <1>2, <2>2, <2>3, <1>3
<1>7. ASSUME NEW k \in DOMAIN lines, Items[lines[k]].key = key, FirstOfKey(lines, k) PROVE k = n
  <2>1. n <= k /\ k \in Nat
    BY <1>2, <1>7, <1>1
  <2>2. CASE n < k
    <3>1. n \in 1 .. k - 1
      BY <1>3, <1>4, <2>1, <2>2
    <3>2. Items[lines[n]].key # Items[lines[k]].key
      BY <3>1, <1>7 DEF FirstOfKey
    <3> QED BY <3>2, <1>3, <1>7
  <2> QED BY <2>1, <2>2, <1>3
<1> QED BY <1>3, <1>5, <1>6, <1>7

\* parse_items reads from the sorted list what the settings ask for.
LEMMA ParseIsWanted ==
    ASSUME obj_lst \in Seq(1 .. Len(Items)), Ordered, InList(obj_lst) = InList(config)
    PROVE  ParseItems(obj_lst) = Wanted
<1> DEFINE chosen == {i \in InList(config) :
                        \A j \in InList(config) : j < i => Items[j].key # Items[i].key}
           Keys == {Items[obj_lst[k]].key : k \in DOMAIN obj_lst}
           Value(key) == ValueOf(CHOOSE i \in chosen : Items[i].key = key)
           Parsed(key) == ValueOf(obj_lst[CHOOSE k \in DOMAIN obj_lst :
                            Items[obj_lst[k]].key = key /\ FirstOfKey(obj_lst, k)])
<1>1. ASSUME NEW key \in Keys
      PROVE  Parsed(key) = Value(key) /\ key \in {Items[i].key : i \in chosen}
  <2>1. \E k \in DOMAIN obj_lst : Items[obj_lst[k]].key = key
    OBVIOUS
  <2>2. PICK n \in DOMAIN obj_lst :
             /\ Items[obj_lst[n]].key = key
             /\ \A i \in InList(obj_lst) : Items[i].key = key => obj_lst[n] <= i
             /\ \A k \in DOMAIN obj_lst :
                  (Items[obj_lst[k]].key = key /\ FirstOfKey(obj_lst, k)) <=> (k = n)
    <3> HIDE DEF Keys
    <3> QED BY <2>1, FirstLine DEF Ordered
  <2>3. (CHOOSE k \in DOMAIN obj_lst : Items[obj_lst[k]].key = key /\ FirstOfKey(obj_lst, k)) = n
    BY <2>2
  <2>4. obj_lst[n] \in InList(config) /\ InList(config) \subseteq Nat
    BY <2>2, ListType DEF InList
  <2>5. obj_lst[n] \in chosen
    <3>1. SUFFICES ASSUME NEW j \in InList(config), j < obj_lst[n], Items[j].key = key PROVE FALSE
      BY <2>2, <2>4
    <3>2. obj_lst[n] <= j
      BY <2>2, <3>1
    <3> QED BY <3>1, <3>2, <2>4
  <2>6. ASSUME NEW i \in chosen, Items[i].key = key PROVE i = obj_lst[n]
    <3>1. obj_lst[n] <= i /\ i \in Nat
      BY <2>2, <2>4, <2>6
    <3>2. ~ (obj_lst[n] < i)
      BY <2>2, <2>4, <2>6
    <3> QED BY <3>1, <3>2, <2>4
  <2>7. (CHOOSE i \in chosen : Items[i].key = key) = obj_lst[n]
    BY <2>2, <2>5, <2>6
  <2> QED BY <2>2, <2>3, <2>5, <2>7
<1>2. {Items[i].key : i \in chosen} = Keys
  <2>1. ASSUME NEW i \in chosen PROVE Items[i].key \in Keys
    BY DEF InList
  <2> QED BY <1>1, <2>1
<1>3. ParseItems(obj_lst) = [key \in Keys |-> Parsed(key)]
  BY DEF ParseItems
<1>4. Wanted = [key \in {Items[i].key : i \in chosen} |-> Value(key)]
  BY DEF Wanted
<1> HIDE DEF Keys, Parsed, Value, chosen
<1> QED BY <1>1, <1>2, <1>3, <1>4

-----------------------------------------------------------------------------
\* What is not listed yet has a first setting, and it precedes the others.
LEMMA NextItemFirst ==
    ASSUME TypeOK, Unlisted # {}
    PROVE  /\ NextItem \in Unlisted
           /\ \A j \in Unlisted \ {NextItem} : NextItem < j
           /\ NextItem \in 1 .. Len(Items)
<1>1. config \in Seq(1 .. Len(Items))
  BY HeaderAssumption DEF TypeOK
<1>2. Unlisted \subseteq Nat /\ Unlisted \subseteq 1 .. Len(Items)
  BY <1>1, ListType DEF Unlisted
<1>3. PICK n \in Unlisted : \A m \in Unlisted : n <= m
  BY <1>2, LeastElement
<1>4. n \in Unlisted /\ \A j \in Unlisted \ {n} : Precedes(n, j)
  BY <1>2, <1>3 DEF Precedes
<1>5. NextItem \in Unlisted /\ \A j \in Unlisted \ {NextItem} : Precedes(NextItem, j)
  <2> DEFINE Leads(i) == \A j \in Unlisted \ {i} : Precedes(i, j)
  <2>1. n \in Unlisted /\ Leads(n)
    BY <1>4
  <2>2. NextItem = CHOOSE i \in Unlisted : Leads(i)
    BY DEF NextItem
  <2> HIDE DEF Leads
  <2>3. NextItem \in Unlisted /\ Leads(NextItem)
    BY <2>1, <2>2
  <2> QED BY <2>3 DEF Leads
<1> QED BY <1>2, <1>5 DEF Precedes

\* Appending the next setting keeps the list a sorted beginning of the settings.
LEMMA EchoKeeps ==
    ASSUME IInv, pc = "list", Unlisted # {}, obj_lst' = Append(obj_lst, NextItem),
           config' = config, pc' = pc
    PROVE  Listing' /\ obj_lst' \in Seq(1 .. Len(Items))
<1> DEFINE n == Len(obj_lst)
<1>1. obj_lst \in Seq(1 .. Len(Items)) /\ n \in Nat /\ DOMAIN obj_lst = 1 .. n
  BY DEF IInv, TypeOK
<1>2. /\ NextItem \in Unlisted
      /\ \A j \in Unlisted \ {NextItem} : NextItem < j
      /\ NextItem \in 1 .. Len(Items)
  BY NextItemFirst DEF IInv
<1>3. /\ obj_lst' \in Seq(1 .. Len(Items)) /\ DOMAIN obj_lst' = 1 .. n + 1
      /\ obj_lst'[n + 1] = NextItem
      /\ \A k \in 1 .. n : obj_lst'[k] = obj_lst[k]
  BY <1>1, <1>2
<1>4. \A k \in DOMAIN obj_lst : \A i \in Unlisted : obj_lst[k] < i
  BY DEF IInv, Listing
<1>5. \A k \in 1 .. n + 1 : (k = n + 1) \/ (k \in 1 .. n /\ k < n + 1)
  BY <1>1
<1>6. Ordered'
  <2>1. SUFFICES ASSUME NEW k \in 1 .. n + 1, NEW l \in 1 .. n + 1, k < l
                 PROVE  obj_lst'[k] < obj_lst'[l]
    BY <1>3 DEF Ordered
  <2>2. k \in 1 .. n
    BY <1>1, <2>1
  <2>3. CASE l = n + 1
    BY <1>1, <1>2, <1>3, <1>4, <2>2, <2>3
  <2>4. CASE l \in 1 .. n
    BY <1>1, <1>3, <2>1, <2>2, <2>4 DEF IInv, Listing, Ordered
  <2> QED BY <1>5, <2>3, <2>4
<1>7. InList(obj_lst') = InList(obj_lst) \cup {NextItem}
  <2>1. n + 1 \in 1 .. n + 1 /\ 1 .. n \subseteq 1 .. n + 1
    BY <1>1
  <2>2. \A k \in 1 .. n : obj_lst'[k] \in InList(obj_lst)
    BY <1>1, <1>3 DEF InList
  <2>3. \A k \in 1 .. n + 1 : obj_lst'[k] \in InList(obj_lst) \cup {NextItem}
    BY <1>3, <1>5, <2>2
  <2>4. \A k \in 1 .. n : obj_lst[k] \in InList(obj_lst')
    BY <1>3, <2>1 DEF InList
  <2>5. NextItem \in InList(obj_lst')
    BY <1>3, <2>1 DEF InList
  <2> QED BY <1>1, <1>3, <2>3, <2>4, <2>5 DEF InList
<1>8. Unlisted' = Unlisted \ {NextItem}
  BY <1>7 DEF Unlisted
<1>9. InList(obj_lst)' \subseteq InList(config)'
  <2>1. InList(obj_lst)' = InList(obj_lst') /\ InList(config)' = InList(config)
    BY DEF InList
  <2> QED BY <1>2, <1>7, <2>1 DEF IInv, Listing, Unlisted
<1>10. ASSUME NEW k \in DOMAIN obj_lst', NEW i \in Unlisted' PROVE obj_lst'[k] < i
  BY <1>1, <1>2, <1>3, <1>4, <1>5, <1>8, <1>10
<1> QED BY <1>3, <1>6, <1>9, <1>10 DEF Listing

\* What the settings ask for changes with the settings only.
LEMMA WantedStays ==
    ASSUME config' = config
    PROVE  Wanted' = Wanted
BY DEF Wanted, InList

\* A step that leaves the list and what it is read from alone leaves the listing alone.
LEMMA ListingStays ==
    ASSUME Listing, config' = config, obj_lst' = obj_lst,
           pc' \in {"list", "generate", "fill"} => pc \in {"list", "generate", "fill"},
           pc' \in {"generate", "fill"} => pc \in {"generate", "fill"} \/ Unlisted = {}
    PROVE  Listing'
<1>1. /\ Unlisted' = Unlisted /\ (Ordered' <=> Ordered)
      /\ InList(obj_lst)' = InList(obj_lst) /\ InList(config)' = InList(config)
  BY DEF Unlisted, InList, Ordered
<1> QED BY <1>1 DEF Listing

-----------------------------------------------------------------------------
LEMMA InitIInv == Init => IInv
<1>1. SUFFICES ASSUME Init PROVE IInv
  OBVIOUS
<1>2. obj_lst = <<>> /\ InList(obj_lst) = {}
  BY <1>1 DEF Init, InList
<1>3. \A s \in Sources : objects[s] = Missing
  BY <1>1 DEF Init
<1>4. Missing.time = 0
  BY DEF Missing, Header
<1>5. Timed
  BY <1>1, <1>3, <1>4 DEF Init, Timed
<1>6. TypeOK
  <2>1. obj_lst \in Seq(1 .. Len(Items)) /\ 0 \in 0 .. MaxMakes
    BY <1>2, HeaderAssumption
  <2>2. obj.time <= clock /\ out.time <= clock /\ \A s \in Sources : objects[s].time <= clock
    BY <1>1, <1>3, <1>4 DEF Init
  <2> QED BY <1>1, <2>1, <2>2 DEF Init, TypeOK
<1> QED BY <1>1, <1>3, <1>5, <1>6 DEF Init, IInv, Listing, Passing, Fresh, Remembered

\* Steps outside a run, and its beginning, leave all files but the list alone.
LEMMA ConfigureKeeps == IInv /\ Configure => IInv'
<1>1. SUFFICES ASSUME IInv, Configure PROVE IInv'
  OBVIOUS
<1>2. pc = "idle" /\ pc' = "idle" /\ UNCHANGED <<obj_lst, obj, out, objects, clock, failed, last, makes>>
  BY <1>1 DEF Configure, files
<1>3. TypeOK' /\ Timed'
  BY <1>1, <1>2 DEF Configure, IInv, TypeOK, Timed
<1> QED BY <1>1, <1>2, <1>3 DEF IInv, Listing, Passing, Fresh, Remembered

LEMMA StartMakeKeeps == IInv /\ StartMake => IInv'
<1>1. SUFFICES ASSUME IInv, StartMake PROVE IInv'
  OBVIOUS
<1>2. pc' = "list" /\ obj_lst' = <<>> /\ UNCHANGED <<config, obj, out, objects, clock, last>>
  BY <1>1 DEF StartMake
<1>3. DOMAIN obj_lst' = {} /\ InList(obj_lst') = {} /\ InList(obj_lst)' = {}
  BY <1>2 DEF InList
<1>4. TypeOK' /\ Timed'
  <2>1. makes' \in 0 .. MaxMakes
    BY <1>1, HeaderAssumption DEF StartMake, IInv, TypeOK
  <2>2. obj_lst' \in Seq(1 .. Len(Items))
    BY <1>2, HeaderAssumption
  <2>3. failed' \in BOOLEAN
    BY <1>1 DEF StartMake
  <2> QED BY <1>1, <1>2, <2>1, <2>2, <2>3 DEF IInv, TypeOK, Timed
<1>5. Listing'
  BY <1>2, <1>3 DEF Listing, Ordered
<1> QED BY <1>1, <1>2, <1>4, <1>5 DEF IInv, Passing, Fresh, Remembered

LEMMA EchoItemKeeps == IInv /\ EchoItem => IInv'
<1>1. SUFFICES ASSUME IInv, EchoItem PROVE IInv'
  OBVIOUS
<1>2. pc = "list" /\ UNCHANGED <<config, makes, obj, out, objects, clock, failed, last>>
  BY <1>1 DEF EchoItem
<1>3. Timed' /\ pc' \in {"list", "generate"} /\ Passing' /\ Fresh' /\ Remembered'
  BY <1>1, <1>2 DEF EchoItem, IInv, Timed, Passing, Fresh, Remembered
<1>4. CASE Unlisted # {}
  <2>1. obj_lst' = Append(obj_lst, NextItem) /\ pc' = pc
    BY <1>1, <1>4 DEF EchoItem
  <2>2. Listing' /\ obj_lst' \in Seq(1 .. Len(Items))
    BY <1>1, <1>2, <1>4, <2>1, EchoKeeps
  <2>3. TypeOK'
    BY <1>1, <1>2, <2>1, <2>2 DEF IInv, TypeOK
  <2> QED BY <1>3, <2>2, <2>3 DEF IInv
<1>5. CASE Unlisted = {}
  <2>1. obj_lst' = obj_lst /\ pc' = "generate"
    BY <1>1, <1>5 DEF EchoItem
  <2>2. Listing'
    BY <1>1, <1>2, <1>5, <2>1, ListingStays DEF IInv
  <2>3. TypeOK'
    BY <1>1, <1>2, <2>1 DEF IInv, TypeOK
  <2> QED BY <1>3, <2>2, <2>3 DEF IInv
<1> QED BY <1>4, <1>5

LEMMA OpenObjectKeeps == IInv /\ OpenObject => IInv'
<1>1. SUFFICES ASSUME IInv, OpenObject PROVE IInv'
  OBVIOUS
<1>2. /\ pc = "generate" /\ pc' = "fill" /\ clock' = clock + 1 /\ obj'.time = clock + 1
      /\ UNCHANGED <<config, makes, obj_lst, out, objects, failed, last>>
  BY <1>1 DEF OpenObject, Header
<1>3. TypeOK' /\ Timed'
  BY <1>1, <1>2 DEF IInv, TypeOK, Timed
<1>4. Listing'
  BY <1>1, <1>2, ListingStays DEF IInv
<1> QED BY <1>1, <1>2, <1>3, <1>4 DEF IInv, Passing, Fresh, Remembered

\* The header is generated from a whole, sorted list, and later than the one in use.
LEMMA GenerateKeeps == IInv /\ Generate => IInv'
<1>1. SUFFICES ASSUME IInv, Generate PROVE IInv'
  OBVIOUS
<1>2. /\ pc = "fill" /\ pc' = "check" /\ clock' = clock + 1
      /\ obj'.time = clock + 1 /\ obj'.whole = TRUE /\ obj'.defines = ParseItems(obj_lst)
      /\ UNCHANGED <<config, makes, obj_lst, out, objects, failed, last>>
  BY <1>1 DEF Generate, Header
<1>3. TypeOK' /\ Timed'
  BY <1>1, <1>2 DEF IInv, TypeOK, Timed
<1>4. obj'.time > out'.time
  BY <1>1, <1>2 DEF IInv, TypeOK, Timed
<1>5. Asked(obj)'
  <2>1. obj_lst \in Seq(1 .. Len(Items)) /\ Ordered /\ InList(obj_lst) = InList(config)
    BY <1>1, <1>2 DEF IInv, TypeOK, Listing, Unlisted
  <2>2. ParseItems(obj_lst) = Wanted /\ Wanted' = Wanted
    BY <1>2, <2>1, ParseIsWanted, WantedStays
  <2> QED BY <1>2, <2>2 DEF Asked
<1>6. Passing'
  BY <1>2, <1>4, <1>5 DEF Passing, Asked
<1> QED BY <1>1, <1>2, <1>3, <1>6 DEF IInv, Listing, Fresh, Remembered

LEMMA GenerateFailsKeeps == IInv /\ GenerateFails => IInv'
<1>1. SUFFICES ASSUME IInv, GenerateFails PROVE IInv'
  OBVIOUS
<1>2. /\ pc \in {"generate", "fill"} /\ pc' = "check" /\ failed' = TRUE
      /\ UNCHANGED <<config, makes, obj_lst, obj, out, objects, clock, last>>
  BY <1>1 DEF GenerateFails, files
<1>3. TypeOK' /\ Timed'
  BY <1>1, <1>2 DEF IInv, TypeOK, Timed
<1> QED BY <1>1, <1>2, <1>3 DEF IInv, Listing, Passing, Fresh, Remembered

LEMMA CheckHeaderKeeps == IInv /\ CheckHeader => IInv'
<1>1. SUFFICES ASSUME IInv, CheckHeader PROVE IInv'
  OBVIOUS
<1>2. /\ pc = "check" /\ pc' \in {"idle", "deploy", "compile"}
      /\ UNCHANGED <<config, makes, obj_lst, obj, out, objects, clock, failed, last>>
  BY <1>1 DEF CheckHeader, files
<1>3. TypeOK' /\ Timed'
  BY <1>1, <1>2 DEF IInv, TypeOK, Timed
<1>4. Passing'
  <2>1. SUFFICES ASSUME ~failed PROVE Passing'
    BY <1>2 DEF Passing
  <2>2. obj.time > out.time /\ Asked(obj)
    BY <1>1, <1>2, <2>1 DEF IInv, Passing
  <2>3. out.time < obj.time
    BY <1>1, <2>2 DEF IInv, Timed
  <2>4. pc' \in {"idle", "deploy"}
    BY <1>1, <2>3 DEF CheckHeader
  <2>5. Wanted' = Wanted
    BY <1>2, WantedStays
  <2> QED BY <1>2, <2>2, <2>4, <2>5 DEF Passing, Asked
<1> QED BY <1>1, <1>2, <1>3, <1>4 DEF IInv, Listing, Fresh, Remembered

\* A header left in use has the contents of the object header; one that is opened
\* is newer than every object and no longer remembered.
LEMMA DeployKeeps == IInv /\ Deploy => IInv'
<1>1. SUFFICES ASSUME IInv, Deploy PROVE IInv'
  OBVIOUS
<1>2. pc = "deploy" /\ UNCHANGED <<config, makes, obj_lst, obj, objects, failed>>
  BY <1>1 DEF Deploy
<1>3. Wanted' = Wanted
  BY <1>2, WantedStays
<1>4. CASE out # Missing /\ Content(out) = Content(obj)
  <2>1. pc' = "compile" /\ UNCHANGED <<out, clock, last>>
    BY <1>1, <1>4 DEF Deploy
  <2>2. out.whole = obj.whole /\ out.defines = obj.defines
    BY <1>4 DEF Content
  <2>3. TypeOK' /\ Timed'
    BY <1>1, <1>2, <2>1 DEF IInv, TypeOK, Timed
  <2>4. Passing'
    BY <1>1, <1>2, <1>3, <2>1, <2>2 DEF IInv, Passing, Asked
  <2> QED BY <1>1, <1>2, <2>1, <2>3, <2>4 DEF IInv, Listing, Fresh, Remembered
<1>5. CASE ~ (out # Missing /\ Content(out) = Content(obj))
  <2>1. pc' = "copy" /\ clock' = clock + 1 /\ out'.time = clock + 1 /\ last' = Missing
    BY <1>1, <1>5 DEF Deploy, Header
  <2>2. TypeOK' /\ Timed'
    BY <1>1, <1>2, <2>1 DEF IInv, TypeOK, Timed
  <2>3. \A s \in Sources : ~ (objects'[s].time >= out'.time)
    BY <1>1, <1>2, <2>1 DEF IInv, TypeOK, Timed
  <2>4. Passing'
    BY <1>1, <1>2, <1>3, <2>1 DEF IInv, Passing, Asked
  <2> QED BY <1>1, <1>2, <2>1, <2>2, <2>3, <2>4 DEF IInv, Listing, Fresh, Remembered
<1> QED BY <1>4, <1>5

LEMMA CopyKeeps == IInv /\ Copy => IInv'
<1>1. SUFFICES ASSUME IInv, Copy PROVE IInv'
  OBVIOUS
<1>2. /\ pc = "copy" /\ pc' = "compile" /\ clock' = clock + 1
      /\ out'.time = clock + 1 /\ out'.whole = obj.whole /\ out'.defines = obj.defines
      /\ UNCHANGED <<config, makes, obj_lst, obj, objects, failed, last>>
  BY <1>1 DEF Copy, Header
<1>3. TypeOK' /\ Timed'
  BY <1>1, <1>2 DEF IInv, TypeOK, Timed
<1>4. \A s \in Sources : ~ (objects'[s].time >= out'.time)
  BY <1>1, <1>2 DEF IInv, TypeOK, Timed
<1>5. Wanted' = Wanted
  BY <1>2, WantedStays
<1>6. Passing'
  BY <1>1, <1>2, <1>5 DEF IInv, Passing, Asked
<1>7. last' = Missing
  BY <1>1, <1>2 DEF IInv, Remembered
<1> QED BY <1>1, <1>2, <1>3, <1>4, <1>6, <1>7 DEF IInv, Listing, Fresh, Remembered

LEMMA CompileKeeps == ASSUME NEW s \in Sources PROVE IInv /\ Compile(s) => IInv'
<1>1. SUFFICES ASSUME IInv, Compile(s) PROVE IInv'
  OBVIOUS
<1>2. /\ pc = "compile" /\ objects[s].time < out.time /\ clock' = clock + 1
      /\ UNCHANGED <<config, pc, makes, obj_lst, obj, out, failed, last>>
  BY <1>1 DEF Compile
<1>3. /\ DOMAIN objects' = Sources
      /\ \A r \in Sources \ {s} : objects'[r] = objects[r]
      /\ objects'[s] = Header(clock + 1, out.whole, out.defines)
  BY <1>1 DEF Compile, IInv, Timed
<1>4. objects'[s].time = clock + 1 /\ Content(objects'[s]) = Content(out)
  BY <1>3 DEF Header, Content
<1>5. \A r \in Sources : r = s \/ objects'[r] = objects[r]
  BY <1>3
<1>6. Timed'
  BY <1>1, <1>2, <1>3, <1>4, <1>5 DEF IInv, Timed
<1>7. TypeOK'
  <2>1. \A r \in Sources : objects'[r].time <= clock'
    BY <1>1, <1>2, <1>4, <1>5 DEF IInv, Timed, TypeOK
  <2>2. obj'.time <= clock' /\ out'.time <= clock'
    BY <1>1, <1>2 DEF IInv, Timed, TypeOK
  <2> QED BY <1>1, <1>2, <2>1, <2>2 DEF IInv, TypeOK
<1>8. Passing'
  BY <1>1, <1>2, WantedStays DEF IInv, Passing, Asked
<1>9. Content(out)' = Content(out) /\ \A r \in Sources : Content(objects[r])' = Content(objects'[r])
  BY <1>2 DEF Content
<1>10. Fresh'
  <2>1. ASSUME NEW r \in Sources, objects'[r].time >= out'.time
        PROVE  Content(objects[r])' = Content(out)'
    BY <1>1, <1>2, <1>4, <1>5, <1>9, <2>1 DEF IInv, Fresh
  <2> QED BY <1>2, <2>1 DEF Fresh
<1>11. Remembered'
  <2>1. last = Missing
    BY <1>1, <1>2 DEF IInv, Timed, Remembered
  <2> QED BY <1>2, <2>1 DEF Remembered
<1> QED BY <1>1, <1>2, <1>6, <1>7, <1>8, <1>10, <1>11 DEF IInv, Listing

LEMMA LinkKeeps == IInv /\ Link => IInv'
<1>1. SUFFICES ASSUME IInv, Link PROVE IInv'
  OBVIOUS
<1>2. /\ pc = "compile" /\ pc' = "built" /\ last' = out
      /\ \A s \in Sources : objects[s].time >= out.time
      /\ UNCHANGED <<config, makes, obj_lst, obj, out, objects, clock, failed>>
  BY <1>1 DEF Link, files
<1>3. TypeOK' /\ Timed'
  BY <1>1, <1>2 DEF IInv, TypeOK, Timed
<1>4. Passing'
  BY <1>1, <1>2, WantedStays DEF IInv, Passing, Asked
<1> QED BY <1>1, <1>2, <1>3, <1>4 DEF IInv, Listing, Fresh, Remembered

LEMMA StopKeeps == IInv /\ Stop => IInv'
<1>1. SUFFICES ASSUME IInv, Stop PROVE IInv'
  OBVIOUS
<1>2. pc' = "idle" /\ UNCHANGED <<config, makes, obj_lst, obj, out, objects, clock, failed, last>>
  BY <1>1 DEF Stop, files
<1>3. TypeOK' /\ Timed'
  BY <1>1, <1>2 DEF IInv, TypeOK, Timed
<1> QED BY <1>1, <1>2, <1>3 DEF IInv, Listing, Passing, Fresh, Remembered

LEMMA StepIInv == IInv /\ [Next]_vars => IInv'
<1>1. IInv /\ UNCHANGED vars => IInv'
  <2>1. SUFFICES ASSUME IInv, UNCHANGED vars PROVE IInv'
    OBVIOUS
  <2>2. UNCHANGED <<config, pc, makes, obj_lst, obj, out, objects, clock, failed, last>>
    BY <2>1 DEF vars, files
  <2>3. Listing'
    BY <2>1, <2>2, ListingStays DEF IInv
  <2>4. Passing'
    BY <2>1, <2>2, WantedStays DEF IInv, Passing, Asked
  <2>5. TypeOK' /\ Timed'
    BY <2>1, <2>2 DEF IInv, TypeOK, Timed
  <2> QED BY <2>1, <2>2, <2>3, <2>4, <2>5 DEF IInv, Fresh, Remembered
<1> QED BY <1>1, ConfigureKeeps, StartMakeKeeps, EchoItemKeeps, OpenObjectKeeps,
           GenerateKeeps, GenerateFailsKeeps, CheckHeaderKeeps, DeployKeeps, CopyKeeps,
           CompileKeeps, LinkKeeps, StopKeeps DEF Next

-----------------------------------------------------------------------------
\* The settings, the files and the time stamps fit together in every reachable
\* state: IInv is inductive.
THEOREM Invariance == Spec => []IInv
BY InitIInv, StepIInv, PTL DEF Spec

\* However earlier runs of Make were cut off or failed, a build that ends without
\* a failure of the script has compiled every source with the header that the
\* settings ask for.
THEOREM BuildsCurrent == Spec => []BuildIsCurrent
<1>1. IInv => BuildIsCurrent
  BY DEF IInv, BuildIsCurrent, Passing, Fresh, Asked
<1> QED BY <1>1, Invariance, PTL

\* As long as the settings ask for the header in use, in any order and with any
\* duplicates, Make touches neither that header nor an object.
THEOREM UnchangedIsLeftAlone == Spec => NoNeedlessBuild
<1>1. IInv /\ [Next]_vars =>
        [(last # Missing /\ last.whole /\ last.defines = Wanted /\ ~failed) =>
            (out' = out /\ objects' = objects)]_vars
  <2>1. SUFFICES ASSUME IInv, Next, last # Missing, last.whole, last.defines = Wanted, ~failed
                 PROVE  out' = out /\ objects' = objects
    OBVIOUS
  <2>2. last = out /\ pc # "copy" /\ \A s \in Sources : objects[s].time >= out.time
    BY <2>1 DEF IInv, Remembered
  <2>3. ~ Copy
    BY <2>2 DEF Copy
  <2>4. ASSUME NEW s \in Sources PROVE ~ Compile(s)
    BY <2>1, <2>2 DEF Compile, IInv, Timed
  <2>5. CASE Deploy
    <3>1. obj.whole /\ obj.defines = Wanted
      BY <2>1, <2>5 DEF IInv, Passing, Asked, Deploy
    <3> QED BY <2>1, <2>2, <2>5, <3>1 DEF Deploy, Content
  <2> QED BY <2>1, <2>3, <2>4, <2>5 DEF Next, Configure, StartMake, EchoItem, OpenObject,
                 Generate, GenerateFails, CheckHeader, Link, Stop, files
<1> QED BY <1>1, Invariance, PTL DEF Spec, NoNeedlessBuild

-----------------------------------------------------------------------------
(***************************************************************************)
(* The RISC-V script: ranks and closures.                                  *)
(***************************************************************************)
LEMMA SectionLists ==
    /\ Len(Unprivileged) = 5 /\ Len(Machine) = 2 /\ Unprivileged \in Seq(Ext) /\ Machine \in Seq(Ext)
    /\ \A k \in 1 .. 5 : Unprivileged[k] = Ranked[k]
    /\ \A k \in 1 .. 2 : Machine[k] = Ranked[5 + k]
<1>1. Unprivileged \in Seq(Ext) /\ Machine \in Seq(Ext)
  BY DEF Unprivileged, Machine, Ext
<1>2. Len(Unprivileged) = 5 /\ Len(Machine) = 2
  BY DEF Unprivileged, Machine
<1>3. ASSUME NEW a \in Seq(Ext), NEW b \in Seq(Ext), Len(a) = 5, Len(b) = 2
      PROVE  /\ \A k \in 1 .. 5 : (a \o b)[k] = a[k]
             /\ \A k \in 1 .. 2 : (a \o b)[5 + k] = b[k]
  <2>1. ASSUME NEW k \in 1 .. 5 PROVE (a \o b)[k] = a[k]
    <3>1. k \in 1 .. Len(a) + Len(b) /\ k <= Len(a)
      BY <1>3
    <3> QED BY <3>1
  <2>2. ASSUME NEW k \in 1 .. 2 PROVE (a \o b)[5 + k] = b[k]
    <3>1. 5 + k \in 1 .. Len(a) + Len(b) /\ 5 + k > Len(a) /\ (5 + k) - Len(a) = k
      BY <1>3
    <3> QED BY <3>1
  <2> QED BY <2>1, <2>2
<1>4. /\ \A k \in 1 .. 5 : Ranked[k] = Unprivileged[k]
      /\ \A k \in 1 .. 2 : Ranked[5 + k] = Machine[k]
  BY <1>1, <1>2, <1>3 DEF Ranked
<1> QED BY <1>1, <1>2, <1>4

LEMMA RankedNames ==
    /\ Ranked[1] = "M" /\ Ranked[2] = "A" /\ Ranked[3] = "F" /\ Ranked[4] = "D" /\ Ranked[5] = "C"
    /\ Ranked[6] = "Zicsr" /\ Ranked[7] = "Zifencei"
<1>1. \A k \in 1 .. 5 : Ranked[k] = Unprivileged[k]
  BY SectionLists
<1>2. \A k \in 1 .. 2 : Ranked[5 + k] = Machine[k]
  BY SectionLists
<1>3. Ranked[6] = Machine[1] /\ Ranked[7] = Machine[2]
  BY <1>2
<1> QED BY <1>1, <1>3 DEF Unprivileged, Machine

\* Names other than the base are ranked, those that start with Z last.
LEMMA RankFacts ==
    /\ \A x \in Ext \ {"I"} : Rank(x) \in 1 .. 7 /\ Ranked[Rank(x)] = x
    /\ \A k \in 1 .. 7 : Ranked[k] \in Ext \ {"I"} /\ Rank(Ranked[k]) = k
    /\ \A k \in 1 .. 7 : Ranked[k] \in ZNames <=> k >= 6
<1>1. \A j, k \in 1 .. 7 : Ranked[j] = Ranked[k] => j = k
  BY RankedNames
<1>2. \A k \in 1 .. 7 : Ranked[k] \in Ext \ {"I"} /\ (Ranked[k] \in ZNames <=> k >= 6)
  BY RankedNames DEF Ext, ZNames
<1>3. ASSUME NEW k \in 1 .. 7 PROVE Rank(Ranked[k]) = k
  BY <1>1 DEF Rank
<1>4. ASSUME NEW x \in Ext \ {"I"} PROVE \E k \in 1 .. 7 : Ranked[k] = x
  <2>1. x \in {Ranked[1], Ranked[2], Ranked[3], Ranked[4], Ranked[5], Ranked[6], Ranked[7]}
    BY RankedNames DEF Ext
  <2> QED BY <2>1
<1> QED BY <1>2, <1>3, <1>4

\* What is in a closure.
LEMMA ClosureMembers ==
    ASSUME NEW s
    PROVE  \A e : e \in Closure(s) <=>
              \/ e \in s
              \/ e = "F" /\ "D" \in s
              \/ e = "Zicsr" /\ ("F" \in s \/ "D" \in s)
<1> DEFINE once == s \cup UNION {ImpliedExts(e) : e \in s}
<1>1. \A e : e \in once <=> (e \in s \/ (e = "F" /\ "D" \in s) \/ (e = "Zicsr" /\ "F" \in s))
  BY DEF ImpliedExts
<1>2. Closure(s) = once \cup UNION {ImpliedExts(e) : e \in once}
  BY DEF Closure
<1> HIDE DEF once
<1> QED BY <1>1, <1>2 DEF ImpliedExts

\* The closure is the least closed set that holds s.
LEMMA ClosureIsLeast ==
    ASSUME NEW s, s \subseteq Ext
    PROVE  LeastClosed(s) = Closure(s) /\ Closure(s) \subseteq Ext
<1>1. Closure(s) \subseteq Ext
  BY ClosureMembers DEF Ext
<1>2. Closed(Closure(s)) /\ s \subseteq Closure(s)
  BY ClosureMembers DEF Closed, ImpliedExts
<1>3. ASSUME NEW t \in SUBSET Ext, s \subseteq t, Closed(t) PROVE Closure(s) \subseteq t
  BY <1>3, ClosureMembers DEF Closed, ImpliedExts
<1> QED BY <1>1, <1>2, <1>3 DEF LeastClosed

LEMMA ClosureAdds ==
    ASSUME NEW s, NEW t PROVE Closure(s) \cup Closure(t) = Closure(s \cup t)
BY ClosureMembers

LEMMA BaseFacts ==
    ASSUME NEW b \in {"I", "G"} PROVE BaseExts[b] \subseteq Ext /\ "I" \in BaseExts[b]
BY DEF BaseExts, Ext

-----------------------------------------------------------------------------
(***************************************************************************)
(* The parser.  Pos symbols have been read.  Those that are names are      *)
(* ranked in rising order; the running section still holds the names       *)
(* behind the last one read, and the set found is what the part read       *)
(* means.                                                                  *)
(***************************************************************************)
Pos == Len(input.exts) - Len(spec)

NamesTo(sp, p) == {k \in 2 .. p : sp[k] # "underscore"}

\* The first p symbols may begin a well-formed specification.
GoodTo(sp, p) ==
    /\ sp[1] \in {"I", "G"}
    /\ \A k \in NamesTo(sp, p) : sp[k] \in Ext \ {"I"}
    /\ \A j, k \in NamesTo(sp, p) : j < k => Rank(sp[j]) < Rank(sp[k])
    /\ \A k \in NamesTo(sp, p) : k - 1 \in NamesTo(sp, p) => sp[k - 1] \notin ZNames

MeantTo(sp, p) == Closure(BaseExts[sp[1]] \cup {sp[k] : k \in NamesTo(sp, p)})

Suffix ==
    /\ Len(spec) <= Len(input.exts)
    /\ \A k \in 1 .. Len(spec) : spec[k] = input.exts[Pos + k]

First == IF stage = "unprivileged" THEN 0 ELSE 5
Last == IF stage = "unprivileged" THEN 5 ELSE 7

\* The section holds the names behind rank r, the highest one read.
Passed(r) ==
    /\ r \in First .. Last
    /\ Len(section) = Last - r
    /\ \A k \in 1 .. Last - r : section[k] = Ranked[r + k]
    /\ \A k \in NamesTo(input.exts, Pos) : Rank(input.exts[k]) <= r
    /\ r # First => \E k \in NamesTo(input.exts, Pos) : Rank(input.exts[k]) = r
    /\ stage = "machine" /\ r = First => spec = <<>> \/ Head(spec) \in ZNames

InSectionInv ==
    InSection =>
        /\ Pos >= 1
        /\ GoodTo(input.exts, Pos)
        /\ exts = MeantTo(input.exts, Pos)
        /\ \E r \in 0 .. 7 : Passed(r)
        /\ input.exts[Pos] \in ZNames =>
             /\ stage = "machine" /\ (spec = <<>> \/ Head(spec) = "underscore")

Entry == stage \in {"xlen", "base"} => spec = input.exts

Through ==
    stage \in {"abi", "mmu", "accepted", "reported"} =>
        WellFormed(input.exts) /\ exts = Meant(input.exts)

Checks ==
    /\ stage \notin {"xlen", "refused"} => input.xlen \in {32, 64}
    /\ stage \in {"mmu", "accepted", "reported"} =>
        input.abi \in XlenAbis[input.xlen] /\ AbiExts(input.abi) \subseteq exts
    /\ stage \in {"accepted", "reported"} =>
        input.mmu \in XlenMmus[input.xlen] /\ MmuExts(input.mmu) \subseteq exts

Refused == stage = "refused" => ~Possible(input)

ScriptInv ==
    /\ ScriptTypeOK /\ Suffix /\ InSectionInv /\ Entry /\ Through /\ Checks /\ Refused

-----------------------------------------------------------------------------
\* Without the parser's place, the invariant's parts are what the reference says.
LEMMA WholeIsWellFormed ==
    ASSUME NEW sp \in Seq(Symbols)
    PROVE  WellFormed(sp) <=> sp # <<>> /\ GoodTo(sp, Len(sp))
BY DEF WellFormed, GoodTo, NamesTo

LEMMA MeantIsClosure ==
    ASSUME NEW sp \in Seq(Symbols), WellFormed(sp)
    PROVE  Meant(sp) = MeantTo(sp, Len(sp)) /\ Meant(sp) \subseteq Ext
<1> DEFINE s == BaseExts[sp[1]] \cup {sp[k] : k \in NamesTo(sp, Len(sp))}
<1>1. sp[1] \in {"I", "G"} /\ \A k \in NamesTo(sp, Len(sp)) : sp[k] \in Ext
  BY WholeIsWellFormed DEF GoodTo
<1>2. s \subseteq Ext
  BY <1>1, BaseFacts
<1>3. {sp[k] : k \in 2 .. Len(sp)} \ {"underscore"} = {sp[k] : k \in NamesTo(sp, Len(sp))}
  BY DEF NamesTo
<1>4. Meant(sp) = LeastClosed(s) /\ MeantTo(sp, Len(sp)) = Closure(s)
  BY <1>3 DEF Meant, MeantTo
<1> HIDE DEF s
<1> QED BY <1>2, <1>4, ClosureIsLeast

\* The first symbol not read yet.
LEMMA HeadIsNext ==
    ASSUME ScriptTypeOK, Suffix, spec # <<>>
    PROVE  /\ Len(spec) >= 1 /\ Pos \in Nat /\ Pos + 1 \in 1 .. Len(input.exts)
           /\ Head(spec) = spec[1] /\ Head(spec) = input.exts[Pos + 1] /\ Head(spec) \in Symbols
           /\ Tail(spec) \in Seq(Symbols) /\ Len(Tail(spec)) = Len(spec) - 1
           /\ \A k \in 1 .. Len(Tail(spec)) : Tail(spec)[k] = spec[k + 1]
<1>1. spec \in Seq(Symbols) /\ input.exts \in Seq(Symbols)
  BY ConfigAssumption DEF ScriptTypeOK
<1>2. Len(spec) \in Nat /\ Len(spec) >= 1 /\ Len(input.exts) \in Nat
  BY <1>1
<1>3. Head(spec) = spec[1] /\ Head(spec) \in Symbols
  BY <1>1, <1>2
<1>4. /\ Tail(spec) \in Seq(Symbols) /\ Len(Tail(spec)) = Len(spec) - 1
      /\ \A k \in 1 .. Len(Tail(spec)) : Tail(spec)[k] = spec[k + 1]
  BY <1>1, <1>2
<1>5. spec[1] = input.exts[Pos + 1]
  BY <1>2 DEF Suffix
<1> QED BY <1>2, <1>3, <1>4, <1>5 DEF Suffix, Pos

\* Reading one symbol.
LEMMA ReadsOne ==
    ASSUME ScriptTypeOK, Suffix, spec # <<>>, spec' = Tail(spec), input' = input
    PROVE  Suffix' /\ Pos' = Pos + 1
<1>1. Len(spec') = Len(spec) - 1 /\ Len(spec) \in Nat /\ Len(input.exts) \in Nat
  BY HeadIsNext, ConfigAssumption DEF ScriptTypeOK
<1>2. Pos' = Pos + 1
  BY <1>1 DEF Pos
<1>3. ASSUME NEW k \in 1 .. Len(spec') PROVE spec'[k] = input'.exts[Pos' + k]
  <2>1. k + 1 \in 1 .. Len(spec) /\ spec'[k] = spec[k + 1]
    BY <1>1, HeadIsNext
  <2>2. spec[k + 1] = input.exts[Pos + (k + 1)]
    BY <2>1 DEF Suffix
  <2>3. Pos + (k + 1) = Pos' + k
    BY <1>2, HeadIsNext
  <2> QED BY <2>1, <2>2, <2>3
<1> QED BY <1>1, <1>2, <1>3 DEF Suffix

\* The names among one symbol more.
LEMMA NamesStep ==
    ASSUME NEW sp, NEW p \in Nat, p >= 1
    PROVE  NamesTo(sp, p + 1) = IF sp[p + 1] = "underscore" THEN NamesTo(sp, p)
                                ELSE NamesTo(sp, p) \cup {p + 1}
BY DEF NamesTo

\* What a well-formed specification says of a name that comes next.
LEMMA NextName ==
    ASSUME NEW sp \in Seq(Symbols), WellFormed(sp),
           NEW p \in Nat, p >= 1, p + 1 <= Len(sp), sp[p + 1] # "underscore"
    PROVE  /\ sp[p + 1] \in Ext \ {"I"}
           /\ \A k \in NamesTo(sp, p) : Rank(sp[k]) < Rank(sp[p + 1])
           /\ p + 2 <= Len(sp) /\ sp[p + 1] \in ZNames => sp[p + 2] = "underscore"
<1>1. GoodTo(sp, Len(sp)) /\ Len(sp) \in Nat
  BY WholeIsWellFormed
<1>2. p + 1 \in NamesTo(sp, Len(sp)) /\ \A k \in NamesTo(sp, p) : k \in NamesTo(sp, Len(sp)) /\ k < p + 1
  BY <1>1 DEF NamesTo
<1>3. ASSUME p + 2 <= Len(sp), sp[p + 1] \in ZNames, sp[p + 2] # "underscore" PROVE FALSE
  <2>1. p + 2 \in NamesTo(sp, Len(sp)) /\ (p + 2) - 1 = p + 1
    BY <1>1, <1>3 DEF NamesTo
  <2> QED BY <1>1, <1>2, <1>3, <2>1 DEF GoodTo
<1> QED BY <1>1, <1>2, <1>3 DEF GoodTo

\* Good so far, and the next symbol fits.
LEMMA GoodStep ==
    ASSUME NEW sp, NEW p \in Nat, p >= 1, GoodTo(sp, p),
           \/ sp[p + 1] = "underscore"
           \/ /\ sp[p + 1] \in Ext \ {"I"} /\ sp[p] \notin ZNames
              /\ \A k \in NamesTo(sp, p) : Rank(sp[k]) < Rank(sp[p + 1])
    PROVE  GoodTo(sp, p + 1)
<1>1. CASE sp[p + 1] = "underscore"
  BY <1>1, NamesStep DEF GoodTo
<1>2. CASE sp[p + 1] # "underscore"
  <2>1. NamesTo(sp, p + 1) = NamesTo(sp, p) \cup {p + 1}
    BY <1>2, NamesStep
  <2>2. \A k \in NamesTo(sp, p) : k \in Nat /\ k < p + 1 /\ k # p + 2
    BY DEF NamesTo
  <2>3. \A k \in NamesTo(sp, p) : Rank(sp[k]) \in 1 .. 7
    BY RankFacts DEF GoodTo
  <2>4. \A j, k \in NamesTo(sp, p + 1) : j < k => Rank(sp[j]) < Rank(sp[k])
    BY <1>2, <2>1, <2>2 DEF GoodTo
  <2>5. \A k \in NamesTo(sp, p + 1) : k - 1 \in NamesTo(sp, p + 1) => sp[k - 1] \notin ZNames
    BY <1>2, <2>1, <2>2 DEF GoodTo
  <2> QED BY <1>2, <2>1, <2>4, <2>5 DEF GoodTo
<1> QED BY <1>1, <1>2

LEMMA MeantStep ==
    ASSUME NEW sp, NEW p \in Nat, p >= 1
    PROVE  MeantTo(sp, p + 1) = IF sp[p + 1] = "underscore" THEN MeantTo(sp, p)
                                ELSE MeantTo(sp, p) \cup Closure({sp[p + 1]})
<1> DEFINE s == BaseExts[sp[1]] \cup {sp[k] : k \in NamesTo(sp, p)}
<1>1. CASE sp[p + 1] = "underscore"
  BY <1>1, NamesStep DEF MeantTo
<1>2. CASE sp[p + 1] # "underscore"
  <2>1. NamesTo(sp, p + 1) = NamesTo(sp, p) \cup {p + 1}
    BY <1>2, NamesStep
  <2>2. BaseExts[sp[1]] \cup {sp[k] : k \in NamesTo(sp, p + 1)} = s \cup {sp[p + 1]}
    BY <2>1
  <2> QED BY <1>2, <2>2, ClosureAdds DEF MeantTo
<1> QED BY <1>1, <1>2

-----------------------------------------------------------------------------
(***************************************************************************)
(* Every step keeps the invariant.                                         *)
(***************************************************************************)
LEMMA InitScriptInv == ScriptInit => ScriptInv
<1> SUFFICES ASSUME ScriptInit PROVE ScriptInv
  OBVIOUS
<1>1. input.exts \in Seq(Symbols) /\ spec = input.exts
  BY ConfigAssumption DEF ScriptInit
<1>2. ScriptTypeOK
  BY <1>1 DEF ScriptInit, ScriptTypeOK
<1>3. Suffix
  <2>1. Pos = 0 /\ Len(spec) \in Nat
    BY <1>1 DEF Pos
  <2> QED BY <1>1, <2>1 DEF Suffix
<1> QED BY <1>1, <1>2, <1>3
        DEF ScriptInit, ScriptInv, InSectionInv, InSection, Entry, Through, Checks, Refused

\* A refusal, of what is not possible.
LEMMA RefuseKeeps ==
    ASSUME ScriptInv, Refuse, ~ Possible(input) PROVE ScriptInv'
<1>1. stage' = "refused" /\ UNCHANGED <<input, spec, section, exts, report>>
  BY DEF Refuse
<1>2. ScriptTypeOK'
  BY <1>1 DEF ScriptInv, ScriptTypeOK
<1>3. Suffix'
  <2>1. Pos' = Pos
    BY <1>1 DEF Pos
  <2> QED BY <1>1, <2>1 DEF ScriptInv, Suffix
<1>4. ~ Possible(input')
  BY <1>1
<1> QED BY <1>1, <1>2, <1>3, <1>4
        DEF ScriptInv, InSectionInv, InSection, Entry, Through, Checks, Refused

LEMMA ParseXlenKeeps == ScriptInv /\ ParseXlen => ScriptInv'
<1> SUFFICES ASSUME ScriptInv, ParseXlen PROVE ScriptInv'
  OBVIOUS
<1>1. CASE input.xlen \in {32, 64}
  <2>1. stage = "xlen" /\ stage' = "base" /\ UNCHANGED <<input, spec, section, exts, report>>
    BY <1>1 DEF ParseXlen
  <2>2. Pos' = Pos
    BY <2>1 DEF Pos
  <2>3. Suffix'
    BY <2>1, <2>2 DEF ScriptInv, Suffix
  <2>4. ScriptTypeOK'
    BY <2>1 DEF ScriptInv, ScriptTypeOK
  <2> QED BY <1>1, <2>1, <2>3, <2>4
          DEF ScriptInv, InSectionInv, InSection, Entry, Through, Checks, Refused
<1>2. CASE input.xlen \notin {32, 64}
  BY <1>2, RefuseKeeps DEF ParseXlen, Possible
<1> QED BY <1>1, <1>2

LEMMA ParseBaseKeeps == ScriptInv /\ ParseBase => ScriptInv'
<1> SUFFICES ASSUME ScriptInv, ParseBase PROVE ScriptInv'
  OBVIOUS
<1>1. stage = "base" /\ spec = input.exts /\ input.xlen \in {32, 64} /\ spec \in Seq(Symbols)
      /\ ScriptTypeOK /\ Suffix
  BY DEF ParseBase, ScriptInv, Entry, Checks, ScriptTypeOK
<1>2. CASE spec = <<>> \/ Head(spec) \notin {"I", "G"}
  <2>1. ~ WellFormed(input.exts)
    BY <1>1, <1>2 DEF WellFormed
  <2> QED BY <1>2, <2>1, RefuseKeeps DEF ParseBase, Possible
<1>3. CASE ~ (spec = <<>> \/ Head(spec) \notin {"I", "G"})
  <2>1. /\ exts' = Closure(BaseExts[Head(spec)]) /\ spec' = Tail(spec) /\ section' = Unprivileged
        /\ stage' = "unprivileged" /\ UNCHANGED <<input, report>>
    BY <1>3 DEF ParseBase
  <2>2. Suffix' /\ Pos' = Pos + 1
    BY <1>1, <1>3, <2>1, ReadsOne
  <2>3. Pos = 0 /\ Pos' = 1
    BY <1>1, <2>2 DEF Pos
  <2>4. Head(spec) = input.exts[1] /\ Head(spec) \in {"I", "G"} /\ Tail(spec) \in Seq(Symbols)
    BY <1>1, <1>3, <2>3, HeadIsNext
  <2>5. NamesTo(input.exts, 1) = {}
    BY DEF NamesTo
  <2>6. GoodTo(input.exts, 1) /\ MeantTo(input.exts, 1) = Closure(BaseExts[Head(spec)])
    <3>1. BaseExts[input.exts[1]] \cup {input.exts[k] : k \in {}} = BaseExts[input.exts[1]]
      OBVIOUS
    <3> QED BY <2>4, <2>5, <3>1 DEF GoodTo, MeantTo
  <2>7. Passed(0)'
    <3>1. stage' = "unprivileged" /\ section' = Unprivileged /\ NamesTo(input'.exts, Pos') = {}
          /\ input' = input /\ First' = 0 /\ Last' = 5
      BY <2>1, <2>3, <2>5 DEF First, Last
    <3>2. \A k \in 1 .. 5 : section'[k] = Ranked[0 + k]
      BY <3>1, SectionLists
    <3> QED BY <2>3, <2>5, <3>1, <3>2, SectionLists DEF Passed
  <2>8. input.exts[1] \notin ZNames
    BY <2>4 DEF ZNames
  <2>9. InSectionInv'
    <3>1. exts' = MeantTo(input'.exts, Pos') /\ GoodTo(input'.exts, Pos') /\ Pos' >= 1
      BY <2>1, <2>3, <2>6
    <3> QED BY <2>1, <2>3, <2>6, <2>7, <2>8 DEF InSectionInv
  <2>10. ScriptTypeOK'
    <3>1. Closure(BaseExts[Head(spec)]) \subseteq Ext
      BY <2>4, BaseFacts, ClosureIsLeast
    <3> QED BY <1>1, <2>1, <2>4, <3>1, SectionLists DEF ScriptTypeOK
  <2> QED BY <1>1, <2>1, <2>2, <2>9, <2>10 DEF ScriptInv, Entry, Through, Checks, Refused
<1> QED BY <1>2, <1>3

\* What a step that reads one symbol within a section must show.
LEMMA SkipUnderscoreKeeps == ScriptInv /\ SkipUnderscore => ScriptInv'
<1> SUFFICES ASSUME ScriptInv, SkipUnderscore PROVE ScriptInv'
  OBVIOUS
<1>1. /\ InSection /\ spec # <<>> /\ Head(spec) = "underscore" /\ spec' = Tail(spec)
      /\ UNCHANGED <<input, stage, section, exts, report>>
      /\ ScriptTypeOK /\ Suffix
  BY DEF SkipUnderscore, ScriptInv
<1>2. Suffix' /\ Pos' = Pos + 1 /\ Pos \in Nat
  BY <1>1, ReadsOne, HeadIsNext
<1>3. /\ Pos >= 1 /\ GoodTo(input.exts, Pos) /\ exts = MeantTo(input.exts, Pos)
      /\ input.exts[Pos + 1] = "underscore"
  BY <1>1, HeadIsNext DEF ScriptInv, InSectionInv
<1>4. /\ NamesTo(input.exts, Pos + 1) = NamesTo(input.exts, Pos)
      /\ GoodTo(input.exts, Pos + 1) /\ MeantTo(input.exts, Pos + 1) = MeantTo(input.exts, Pos)
  BY <1>2, <1>3, NamesStep, GoodStep, MeantStep
<1>5. PICK r \in 0 .. 7 : Passed(r)
  BY <1>1 DEF ScriptInv, InSectionInv
<1>6. Passed(r)'
  <2>1. First' = First /\ Last' = Last /\ NamesTo(input'.exts, Pos') = NamesTo(input.exts, Pos)
    BY <1>1, <1>2, <1>4 DEF First, Last
  <2>2. ~ (stage = "machine" /\ r = First)
    BY <1>1, <1>5 DEF Passed, ZNames
  <2> QED BY <1>1, <1>5, <2>1, <2>2 DEF Passed
<1>7. InSectionInv'
  <2>1. input'.exts[Pos'] \notin ZNames
    BY <1>1, <1>2, <1>3 DEF ZNames
  <2>2. Pos' >= 1 /\ GoodTo(input'.exts, Pos') /\ exts' = MeantTo(input'.exts, Pos')
    BY <1>1, <1>2, <1>3, <1>4
  <2> QED BY <1>6, <2>1, <2>2 DEF InSectionInv
<1>8. ScriptTypeOK'
  BY <1>1, HeadIsNext DEF ScriptTypeOK
<1> QED BY <1>1, <1>2, <1>7, <1>8
        DEF ScriptInv, InSection, Entry, Through, Checks, Refused

\* A name that a well-formed specification would have next is in the section.
LEMMA NameIsAhead ==
    ASSUME ScriptInv, InSection, ~ SectionEnds, Head(spec) # "underscore", Possible(input)
    PROVE  /\ \E i \in DOMAIN section : section[i] = Head(spec)
           /\ Head(spec) \in ZNames /\ Len(spec) > 1 => spec[2] = "underscore"
           /\ Head(spec) \in ZNames <=> stage = "machine"
<1>1. /\ spec # <<>> /\ ScriptTypeOK /\ Suffix /\ Pos \in Nat /\ Pos >= 1
      /\ input.exts \in Seq(Symbols) /\ WellFormed(input.exts)
  BY HeadIsNext, ConfigAssumption DEF SectionEnds, ScriptInv, InSectionInv, ScriptTypeOK, Possible
<1>2. PICK r \in 0 .. 7 : Passed(r)
  BY DEF ScriptInv, InSectionInv
<1>3. PICK x : x = Head(spec)
  OBVIOUS
<1>4. /\ Pos + 1 <= Len(input.exts) /\ x = input.exts[Pos + 1] /\ x = spec[1]
      /\ x # "underscore" /\ x \in Symbols
  BY <1>1, <1>3, HeadIsNext
<1>5. /\ x \in Ext \ {"I"} /\ \A k \in NamesTo(input.exts, Pos) : Rank(input.exts[k]) < Rank(x)
      /\ Pos + 2 <= Len(input.exts) /\ x \in ZNames => input.exts[Pos + 2] = "underscore"
  BY <1>1, <1>4, NextName
<1>6. PICK q \in 1 .. 7 : q = Rank(x) /\ Ranked[q] = x /\ (x \in ZNames <=> q >= 6)
  BY <1>5, RankFacts
<1>7. x \in ZNames <=> stage = "machine"
  BY <1>1, <1>3, <1>4 DEF SectionEnds, InSection
<1>8. q \in First + 1 .. Last
  BY <1>6, <1>7 DEF InSection, First, Last
<1>9. q > r
  <2>1. CASE r = First
    BY <1>8, <2>1
  <2>2. CASE r # First
    <3>1. PICK k \in NamesTo(input.exts, Pos) : Rank(input.exts[k]) = r
      BY <1>2, <2>2 DEF Passed
    <3> QED BY <1>5, <1>6, <3>1
  <2> QED BY <2>1, <2>2
<1>10. q - r \in 1 .. Last - r /\ r + (q - r) = q /\ Len(section) = Last - r
  BY <1>2, <1>8, <1>9 DEF Passed, Last, First
<1>11. section[q - r] = x
  BY <1>2, <1>6, <1>10 DEF Passed
<1>12. q - r \in DOMAIN section
  BY <1>1, <1>10 DEF ScriptTypeOK
<1>13. ASSUME x \in ZNames, Len(spec) > 1 PROVE spec[2] = "underscore"
  <2>1. Len(spec) \in Nat /\ Len(input.exts) \in Nat /\ Pos = Len(input.exts) - Len(spec)
    BY <1>1 DEF ScriptTypeOK, Pos
  <2>2. spec[2] = input.exts[Pos + 2] /\ Pos + 2 <= Len(input.exts)
    BY <1>1, <1>13, <2>1 DEF Suffix
  <2> QED BY <1>5, <1>13, <2>2
<1> QED BY <1>3, <1>7, <1>11, <1>12, <1>13

LEMMA LeaveSectionKeeps == ScriptInv /\ LeaveSection => ScriptInv'
<1> SUFFICES ASSUME ScriptInv, LeaveSection PROVE ScriptInv'
  OBVIOUS
<1>1. /\ InSection /\ SectionEnds /\ ScriptTypeOK /\ Suffix /\ input.exts \in Seq(Symbols)
      /\ Pos >= 1 /\ GoodTo(input.exts, Pos) /\ exts = MeantTo(input.exts, Pos)
  BY ConfigAssumption DEF LeaveSection, ScriptInv, InSectionInv, ScriptTypeOK
<1>2. PICK r \in 0 .. 7 : Passed(r)
  BY <1>1 DEF ScriptInv, InSectionInv
<1>3. CASE stage = "machine" /\ spec # <<>>
  <2>1. SUFFICES ASSUME Possible(input) PROVE FALSE
    BY <1>3, RefuseKeeps DEF LeaveSection
  <2>2. PICK x : x = Head(spec)
    OBVIOUS
  <2>3. x \in Symbols \ (ZNames \cup {"underscore"}) /\ Pos \in Nat
        /\ Pos + 1 <= Len(input.exts) /\ x = input.exts[Pos + 1]
    BY <1>1, <1>3, <2>2, HeadIsNext DEF SectionEnds
  <2>4. x \in Ext \ {"I"} /\ \A k \in NamesTo(input.exts, Pos) : Rank(input.exts[k]) < Rank(x)
    BY <1>1, <2>1, <2>3, NextName DEF Possible
  <2>5. Rank(x) \in 1 .. 5
    BY <2>3, <2>4, RankFacts
  <2>6. r # First /\ r >= 5
    BY <1>2, <1>3, <2>2, <2>3 DEF Passed, First
  <2>7. PICK k \in NamesTo(input.exts, Pos) : Rank(input.exts[k]) = r
    BY <1>2, <2>6 DEF Passed
  <2> QED BY <2>4, <2>5, <2>6, <2>7
<1>4. CASE stage = "machine" /\ spec = <<>>
  <2>1. /\ stage' = "abi" /\ section' = Machine /\ UNCHANGED <<input, spec, exts, report>>
    BY <1>4 DEF LeaveSection
  <2>2. Pos = Len(input.exts) /\ Pos' = Pos
    BY <1>1, <1>4, <2>1 DEF Pos
  <2>3. WellFormed(input.exts)
    BY <1>1, <2>2, WholeIsWellFormed
  <2>4. exts = Meant(input.exts)
    BY <1>1, <2>2, <2>3, MeantIsClosure
  <2>5. Suffix'
    BY <1>1, <2>1, <2>2 DEF Suffix
  <2>6. ScriptTypeOK'
    BY <1>1, <2>1, SectionLists DEF ScriptTypeOK
  <2>7. Through' /\ Checks'
    BY <1>4, <2>1, <2>3, <2>4 DEF Through, ScriptInv, Checks
  <2> QED BY <2>1, <2>5, <2>6, <2>7 DEF ScriptInv, InSectionInv, InSection, Entry, Refused
<1>5. CASE stage = "unprivileged"
  <2>1. /\ stage' = "machine" /\ section' = Machine /\ UNCHANGED <<input, spec, exts, report>>
    BY <1>5 DEF LeaveSection
  <2>2. Pos' = Pos
    BY <2>1 DEF Pos
  <2>3. Suffix'
    BY <1>1, <2>1, <2>2 DEF Suffix
  <2>4. ScriptTypeOK'
    BY <1>1, <2>1, SectionLists DEF ScriptTypeOK
  <2>5. Passed(5)'
    <3>1. /\ First = 0 /\ Last = 5 /\ First' = 5 /\ Last' = 7 /\ input' = input /\ section' = Machine
          /\ spec' = spec
      BY <1>5, <2>1 DEF First, Last
    <3>2. \A k \in NamesTo(input.exts, Pos) : Rank(input.exts[k]) <= 5
      <4>1. r <= 5 /\ \A k \in NamesTo(input.exts, Pos) : Rank(input.exts[k]) <= r
        BY <1>2, <3>1 DEF Passed
      <4>2. \A k \in NamesTo(input.exts, Pos) : Rank(input.exts[k]) \in 1 .. 7
        BY <1>1, RankFacts DEF GoodTo
      <4> QED BY <4>1, <4>2
    <3>3. spec = <<>> \/ Head(spec) \in ZNames
      BY <1>1, <1>5 DEF SectionEnds
    <3> QED BY <2>2, <3>1, <3>2, <3>3, SectionLists DEF Passed
  <2>6. input.exts[Pos] \notin ZNames
    BY <1>1, <1>5 DEF ScriptInv, InSectionInv
  <2>7. InSectionInv'
    BY <1>1, <2>1, <2>2, <2>5, <2>6 DEF InSectionInv
  <2>8. Checks'
    BY <1>5, <2>1 DEF ScriptInv, Checks
  <2> QED BY <2>1, <2>3, <2>4, <2>7, <2>8 DEF ScriptInv, InSection, Entry, Through, Refused
<1> QED BY <1>1, <1>3, <1>4, <1>5 DEF InSection

LEMMA HeadOf ==
    ASSUME NEW t \in Seq(Symbols), Len(t) \in Nat \ {0} PROVE Head(t) = t[1]
OBVIOUS

LEMMA TailOfOne ==
    ASSUME NEW t \in Seq(Symbols), t # <<>>, ~ (1 < Len(t)) PROVE Tail(t) = <<>>
<1>1. Len(t) = 1
  <2>1. Len(t) \in Nat /\ Len(t) # 0
    OBVIOUS
  <2>2. \A n \in Nat : n # 0 /\ ~ (1 < n) => n = 1
    OBVIOUS
  <2> QED BY <2>1, <2>2
<1>2. Tail(t) \in Seq(Symbols) /\ Len(Tail(t)) = 0
  BY <1>1
<1> QED BY <1>2

\* A name of the section is read; what is before it in the section is passed.
LEMMA ParsedExt ==
    ASSUME ScriptInv, InSection, ~ SectionEnds, Head(spec) # "underscore", TokenEnds(1),
           NEW i \in DOMAIN section, section[i] = Head(spec),
           section' = SubSeq(section, i + 1, Len(section)),
           exts' = exts \cup Closure({Head(spec)}), spec' = Tail(spec),
           UNCHANGED <<input, stage, report>>
    PROVE  ScriptInv'
<1>1. /\ spec # <<>> /\ ScriptTypeOK /\ Suffix /\ Pos \in Nat /\ Pos >= 1
      /\ GoodTo(input.exts, Pos) /\ exts = MeantTo(input.exts, Pos) /\ input.exts[Pos] \notin ZNames
  BY HeadIsNext DEF SectionEnds, ScriptInv, InSectionInv
<1>2. PICK r \in 0 .. 7 : Passed(r)
  BY DEF ScriptInv, InSectionInv
<1>3. PICK x : x = Head(spec)
  OBVIOUS
<1>4. Suffix' /\ Pos' = Pos + 1 /\ input.exts[Pos + 1] = x /\ x # "underscore" /\ x \in Symbols
  BY <1>1, <1>3, ReadsOne, HeadIsNext
<1>5. /\ section \in Seq(Ext) /\ Len(section) = Last - r /\ r \in First .. Last /\ i \in 1 .. Last - r
      /\ Last \in {5, 7} /\ First \in {0, 5}
  BY <1>1, <1>2 DEF Passed, ScriptTypeOK, First, Last
<1>6. r + i \in 1 .. 7 /\ x = Ranked[r + i] /\ Rank(x) = r + i /\ x \in Ext \ {"I"}
      /\ (x \in ZNames <=> r + i >= 6)
  <2>1. r + i \in 1 .. 7
    <3>1. \A n, m, a, b \in Int : m \in {5, 7} /\ a \in {0, 5} /\ n \in a .. m /\ b \in 1 .. m - n => n + b \in 1 .. 7
      OBVIOUS
    <3>2. Last \in Int /\ First \in Int /\ r \in Int /\ i \in Int
      BY <1>5
    <3> QED BY <1>5, <3>1, <3>2
  <2>2. x = Ranked[r + i]
    BY <1>2, <1>3, <1>5 DEF Passed
  <2> QED BY <2>1, <2>2, RankFacts
<1>7. \A k \in NamesTo(input.exts, Pos) : Rank(input.exts[k]) <= r /\ Rank(input.exts[k]) \in 1 .. 7
  BY <1>1, <1>2, RankFacts DEF Passed, GoodTo
<1>8. /\ NamesTo(input.exts, Pos + 1) = NamesTo(input.exts, Pos) \cup {Pos + 1}
      /\ GoodTo(input.exts, Pos + 1)
      /\ MeantTo(input.exts, Pos + 1) = MeantTo(input.exts, Pos) \cup Closure({x})
  <2>1. ASSUME NEW k \in NamesTo(input.exts, Pos) PROVE Rank(input.exts[k]) < Rank(x)
    <3>1. i >= 1 /\ i \in Int
      BY <1>5
    <3>2. Rank(input.exts[k]) <= r /\ Rank(input.exts[k]) \in 1 .. 7
      BY <1>7
    <3> QED BY <1>6, <3>1, <3>2
  <2> QED BY <1>1, <1>4, <1>6, <2>1, NamesStep, GoodStep, MeantStep
<1>9. /\ section' \in Seq(Ext) /\ Len(section') = Last - (r + i)
      /\ \A k \in 1 .. Last - (r + i) : section'[k] = section[i + k]
  <2>1. i + 1 \in 1 .. Len(section) + 1 /\ Len(section) \in Nat
    BY <1>5
  <2>2. section' \in Seq(Ext)
    BY <1>5, <2>1
  <2>3. Len(section') = Len(section) - i
    BY <1>5, <2>1
  <2>4. \A k \in 1 .. Len(section) - i : section'[k] = section[i + k]
    BY <1>5, <2>1
  <2> QED BY <1>5, <2>2, <2>3, <2>4
<1>10. Passed(r + i)'
  <2>1. First' = First /\ Last' = Last /\ input'.exts = input.exts
    BY DEF First, Last
  <2>2. ASSUME NEW k \in 1 .. Last - (r + i) PROVE section'[k] = Ranked[(r + i) + k]
    <3>1. Last \in Int /\ r \in Int /\ i \in Int /\ i >= 1 /\ k \in Int
      BY <1>5
    <3>2. i + k \in 1 .. Last - r /\ r + (i + k) = (r + i) + k
      BY <3>1
    <3> QED BY <1>2, <1>9, <3>2 DEF Passed
  <2>3. ASSUME NEW k \in NamesTo(input.exts, Pos + 1) PROVE Rank(input.exts[k]) <= r + i
    <3>1. CASE k = Pos + 1
      BY <1>4, <1>6, <3>1
    <3>2. CASE k \in NamesTo(input.exts, Pos)
      <4>1. Rank(input.exts[k]) <= r /\ Rank(input.exts[k]) \in 1 .. 7
        BY <1>7, <3>2
      <4>2. i >= 1 /\ i \in Int
        BY <1>5
      <4> QED BY <4>1, <4>2
    <3> QED BY <1>8, <3>1, <3>2
  <2>4. \E k \in NamesTo(input.exts, Pos + 1) : Rank(input.exts[k]) = r + i
    BY <1>4, <1>6, <1>8
  <2>5. r + i \in First .. Last /\ r + i # First
    BY <1>5
  <2> QED BY <1>4, <1>9, <2>1, <2>2, <2>3, <2>4, <2>5 DEF Passed
<1>11. x \in ZNames => stage = "machine" /\ (spec' = <<>> \/ Head(spec') = "underscore")
  <2>1. SUFFICES ASSUME x \in ZNames PROVE stage = "machine" /\ (spec' = <<>> \/ Head(spec') = "underscore")
    OBVIOUS
  <2>2. stage = "machine"
    BY <1>1, <1>3, <2>1 DEF SectionEnds, InSection
  <2>3. CASE 1 < Len(spec)
    <3>1. spec[2] = "underscore"
      BY <2>2, <2>3 DEF TokenEnds
    <3>2. Len(Tail(spec)) \in Nat \ {0} /\ Tail(spec)[1] = spec[2] /\ Tail(spec) \in Seq(Symbols)
      BY <1>1, <2>3, HeadIsNext
    <3>3. Head(Tail(spec)) = Tail(spec)[1]
      BY <3>2, HeadOf
    <3> QED BY <2>2, <3>1, <3>2, <3>3
  <2>4. CASE ~ (1 < Len(spec))
    <3>1. Tail(spec) = <<>>
      BY <1>1, <2>4, TailOfOne DEF ScriptTypeOK
    <3> QED BY <2>2, <3>1
  <2> QED BY <2>3, <2>4
<1>12. InSectionInv'
  <2>1. r + i \in 0 .. 7
    BY <1>6
  <2>2. input' = input
    OBVIOUS
  <2>3. Pos' >= 1 /\ Pos' = Pos + 1
    BY <1>1, <1>4
  <2>4. GoodTo(input.exts, Pos + 1)
    BY <1>8
  <2>5. exts' = MeantTo(input.exts, Pos + 1)
    BY <1>1, <1>3, <1>8
  <2>6. GoodTo(input'.exts, Pos') /\ exts' = MeantTo(input'.exts, Pos')
    BY <2>2, <2>3, <2>4, <2>5
  <2>7. input'.exts[Pos'] \in ZNames => stage' = "machine" /\ (spec' = <<>> \/ Head(spec') = "underscore")
    BY <1>4, <1>11, <2>2, <2>3
  <2> QED BY <1>10, <2>1, <2>3, <2>6, <2>7 DEF InSectionInv
<1>13. ScriptTypeOK'
  <2>1. Closure({x}) \subseteq Ext
    BY <1>6, ClosureIsLeast
  <2> QED BY <1>1, <1>3, <1>9, <2>1, HeadIsNext DEF ScriptTypeOK
<1> QED BY <1>4, <1>12, <1>13 DEF ScriptInv, InSection, Entry, Through, Checks, Refused

LEMMA ParseExtKeeps == ScriptInv /\ ParseExt => ScriptInv'
<1> SUFFICES ASSUME ScriptInv, ParseExt PROVE ScriptInv'
  OBVIOUS
<1>1. /\ InSection /\ ~ SectionEnds /\ Head(spec) # "underscore" /\ spec # <<>>
  BY DEF ParseExt, SectionEnds
<1>2. PICK k \in 1 .. Len(spec) :
        /\ TokenEnds(k)
        /\ \/ /\ k = 1
              /\ \E i \in DOMAIN section :
                  /\ section[i] = Head(spec)
                  /\ section' = SubSeq(section, i + 1, Len(section))
              /\ exts' = exts \cup Closure({Head(spec)})
              /\ spec' = Tail(spec)
              /\ UNCHANGED <<input, stage, report>>
           \/ /\ k > 1 \/ \A i \in DOMAIN section : section[i] # Head(spec)
              /\ Refuse
  BY DEF ParseExt
<1>3. CASE /\ k = 1
           /\ \E i \in DOMAIN section :
               /\ section[i] = Head(spec)
               /\ section' = SubSeq(section, i + 1, Len(section))
           /\ exts' = exts \cup Closure({Head(spec)})
           /\ spec' = Tail(spec)
           /\ UNCHANGED <<input, stage, report>>
  <2>1. PICK i \in DOMAIN section :
          section[i] = Head(spec) /\ section' = SubSeq(section, i + 1, Len(section))
    BY <1>3
  <2> QED BY <1>1, <1>2, <1>3, <2>1, ParsedExt
<1>4. CASE (k > 1 \/ \A i \in DOMAIN section : section[i] # Head(spec)) /\ Refuse
  <2>1. SUFFICES ASSUME Possible(input) PROVE FALSE
    BY <1>4, RefuseKeeps
  <2>2. /\ \E i \in DOMAIN section : section[i] = Head(spec)
        /\ Head(spec) \in ZNames /\ Len(spec) > 1 => spec[2] = "underscore"
        /\ Head(spec) \in ZNames <=> stage = "machine"
    BY <1>1, <2>1, NameIsAhead
  <2>3. k > 1 /\ stage # "unprivileged" /\ Head(spec) \in ZNames
    BY <1>1, <1>2, <1>4, <2>2 DEF TokenEnds, InSection
  <2>4. 2 \in 1 .. k /\ Len(spec) > 1
    <3>1. Len(spec) \in Nat
      BY DEF ScriptInv, ScriptTypeOK
    <3> QED BY <2>3, <3>1
  <2> QED BY <1>2, <2>2, <2>3, <2>4 DEF TokenEnds
<1> QED BY <1>2, <1>3, <1>4

LEMMA CheckAbiKeeps == ScriptInv /\ CheckAbi => ScriptInv'
<1> SUFFICES ASSUME ScriptInv, CheckAbi PROVE ScriptInv'
  OBVIOUS
<1>1. stage = "abi" /\ input.xlen \in {32, 64} /\ WellFormed(input.exts) /\ exts = Meant(input.exts)
  BY DEF CheckAbi, ScriptInv, Through, Checks
<1>2. CASE input.abi \in {a \in XlenAbis[input.xlen] : AbiExts(a) \subseteq exts}
  <2>1. stage' = "mmu" /\ UNCHANGED <<input, spec, section, exts, report>>
    BY <1>2 DEF CheckAbi
  <2>2. Pos' = Pos
    BY <2>1 DEF Pos
  <2>3. ScriptTypeOK' /\ Suffix'
    BY <2>1, <2>2 DEF ScriptInv, ScriptTypeOK, Suffix
  <2>4. Through' /\ Checks'
    BY <1>1, <1>2, <2>1 DEF Through, Checks
  <2> QED BY <2>1, <2>3, <2>4 DEF ScriptInv, InSectionInv, InSection, Entry, Refused
<1>3. CASE input.abi \notin {a \in XlenAbis[input.xlen] : AbiExts(a) \subseteq exts}
  BY <1>1, <1>3, RefuseKeeps DEF CheckAbi, Possible
<1> QED BY <1>2, <1>3

LEMMA CheckMmuKeeps == ScriptInv /\ CheckMmu => ScriptInv'
<1> SUFFICES ASSUME ScriptInv, CheckMmu PROVE ScriptInv'
  OBVIOUS
<1>1. stage = "mmu" /\ WellFormed(input.exts) /\ exts = Meant(input.exts)
      /\ input.xlen \in {32, 64} /\ input.abi \in XlenAbis[input.xlen] /\ AbiExts(input.abi) \subseteq exts
  BY DEF CheckMmu, ScriptInv, Through, Checks
<1>2. CASE input.mmu \in XlenMmus[input.xlen] /\ MmuExts(input.mmu) \subseteq exts
  <2>1. stage' = "accepted" /\ UNCHANGED <<input, spec, section, exts, report>>
    BY <1>2 DEF CheckMmu
  <2>2. Pos' = Pos
    BY <2>1 DEF Pos
  <2>3. ScriptTypeOK' /\ Suffix'
    BY <2>1, <2>2 DEF ScriptInv, ScriptTypeOK, Suffix
  <2>4. Through' /\ Checks'
    BY <1>1, <1>2, <2>1 DEF Through, Checks
  <2> QED BY <2>1, <2>3, <2>4 DEF ScriptInv, InSectionInv, InSection, Entry, Refused
<1>3. CASE ~ (input.mmu \in XlenMmus[input.xlen] /\ MmuExts(input.mmu) \subseteq exts)
  BY <1>1, <1>3, RefuseKeeps DEF CheckMmu, Possible
<1> QED BY <1>2, <1>3

-----------------------------------------------------------------------------
(***************************************************************************)
(* Recursive functions.                                                    *)
(***************************************************************************)
\* Induction, for a set.
LEMMA Induction ==
    ASSUME NEW S, 0 \in S, \A n \in Nat : n \in S => n + 1 \in S
    PROVE  Nat \subseteq S
<1>1. SUFFICES ASSUME NEW k \in Nat, k \notin S PROVE FALSE
  OBVIOUS
<1>2. PICK n \in Nat \ S : \A m \in Nat \ S : n <= m
  <2>1. Nat \ S \subseteq Nat /\ Nat \ S # {}
    BY <1>1
  <2> QED BY <2>1, LeastElement
<1>3. n # 0 /\ n - 1 \in Nat
  BY <1>2
<1>4. n - 1 \in S
  BY <1>2, <1>3
<1> QED BY <1>2, <1>3, <1>4

Follows(f, V, first, m, step) ==
    /\ f \in [0 .. m -> V]
    /\ f[0] = first
    /\ \A n \in 1 .. m : f[n] = step[n][f[n - 1]]

\* A recursion over 0 .. N, a step per number, is well defined.
LEMMA Recursion ==
    ASSUME NEW V, NEW first \in V, NEW N \in Nat, NEW step,
           \A n \in 1 .. N, v \in V : step[n][v] \in V
    PROVE  \E f : Follows(f, V, first, N, step)
<1> DEFINE S == {m \in Nat : m <= N => \E f : Follows(f, V, first, m, step)}
<1>1. 0 \in S
  <2> DEFINE f == [n \in 0 .. 0 |-> first]
  <2>1. Follows(f, V, first, 0, step)
    BY DEF Follows
  <2> QED BY <2>1
<1>2. ASSUME NEW m \in Nat, m \in S PROVE m + 1 \in S
  <2>1. SUFFICES ASSUME m + 1 <= N PROVE \E f : Follows(f, V, first, m + 1, step)
    OBVIOUS
  <2>2. PICK f : Follows(f, V, first, m, step)
    BY <1>2, <2>1
  <2>3. f[m] \in V /\ m + 1 \in 1 .. N
    BY <2>1, <2>2 DEF Follows
  <2>4. step[m + 1][f[m]] \in V
    BY <2>3
  <2> DEFINE g == [n \in 0 .. m + 1 |-> IF n = m + 1 THEN step[m + 1][f[m]] ELSE f[n]]
  <2>5. g \in [0 .. m + 1 -> V]
    BY <2>2, <2>4 DEF Follows
  <2>6. g[0] = first
    BY <2>2 DEF Follows
  <2>7. ASSUME NEW n \in 1 .. m + 1 PROVE g[n] = step[n][g[n - 1]]
    <3>1. CASE n = m + 1
      BY <3>1
    <3>2. CASE n # m + 1
      <4>1. n \in 1 .. m /\ n - 1 \in 0 .. m
        BY <3>2
      <4> QED BY <2>2, <4>1 DEF Follows
    <3> QED BY <3>1, <3>2
  <2> QED BY <2>5, <2>6, <2>7 DEF Follows
<1>3. N \in S
  <2> HIDE DEF S
  <2> QED BY <1>1, <1>2, Induction
<1> QED BY <1>3

\* A choice of names grows name by name.
Choosing(f, names, s) ==
    /\ f[0] = <<>>
    /\ \A n \in 1 .. Len(names) :
         f[n] = IF names[n] \in s THEN Append(f[n - 1], names[n]) ELSE f[n - 1]
    /\ Chosen(names, s) = f[Len(names)]

LEMMA ChosenUnfolds ==
    ASSUME NEW names \in Seq(Ext), NEW s PROVE \E f : Choosing(f, names, s)
<1> DEFINE N == Len(names)
           V == Seq(Ext)
           first == <<>>
           Body(g) == [k \in 0 .. N |->
                         IF k = 0 THEN <<>>
                         ELSE IF names[k] \in s THEN Append(g[k - 1], names[k]) ELSE g[k - 1]]
           step == [n \in 1 .. N |-> [v \in V |-> IF names[n] \in s THEN Append(v, names[n]) ELSE v]]
           upTo == CHOOSE g : g = Body(g)
<1>1. N \in Nat /\ first \in V
  OBVIOUS
<1>2. ASSUME NEW n \in 1 .. N, NEW v \in V PROVE step[n][v] \in V
  <2>1. names[n] \in Ext
    OBVIOUS
  <2>2. Append(v, names[n]) \in V
    BY <2>1
  <2> QED BY <2>2
<1>3. PICK f : Follows(f, V, first, N, step)
  <2> HIDE DEF step, V, N, first, upTo, Body
  <2> QED BY <1>1, <1>2, Recursion
<1>4. ASSUME NEW n \in 1 .. N
      PROVE  f[n] = IF names[n] \in s THEN Append(f[n - 1], names[n]) ELSE f[n - 1]
  <2>1. n - 1 \in 0 .. N
    BY <1>1
  <2>2. f[n - 1] \in V
    BY <1>3, <2>1 DEF Follows
  <2>3. f[n] = step[n][f[n - 1]]
    BY <1>3 DEF Follows
  <2> QED BY <2>2, <2>3
<1>5. f = Body(f)
  <2>1. ASSUME NEW n \in 0 .. N PROVE f[n] = Body(f)[n]
    <3>1. n = 0 \/ n \in 1 .. N
      BY <1>1
    <3>2. f[0] = <<>>
      BY <1>3 DEF Follows
    <3> QED BY <1>4, <3>1, <3>2
  <2>2. f \in [0 .. N -> V]
    BY <1>3 DEF Follows
  <2> HIDE DEF V
  <2> QED BY <2>1, <2>2
<1>6. upTo = Body(upTo)
  BY <1>5
<1>7. Chosen(names, s) = upTo[N]
  BY DEF Chosen
<1> HIDE DEF upTo
<1>8. ASSUME NEW n \in 1 .. N
      PROVE  upTo[n] = IF names[n] \in s THEN Append(upTo[n - 1], names[n]) ELSE upTo[n - 1]
  <2>1. n \in 0 .. N /\ n # 0
    BY <1>1
  <2>2. upTo[n] = Body(upTo)[n]
    BY <1>6
  <2>3. Body(upTo)[n] = IF names[n] \in s THEN Append(upTo[n - 1], names[n]) ELSE upTo[n - 1]
    BY <2>1
  <2> HIDE DEF Body
  <2> QED BY <2>2, <2>3
<1>9. upTo[0] = <<>>
  BY <1>1, <1>6
<1>10. Choosing(upTo, names, s)
  BY <1>7, <1>8, <1>9 DEF Choosing
<1> QED BY <1>10

-----------------------------------------------------------------------------
(***************************************************************************)
(* The report.  It is built up from the base, a ranked name at a time.     *)
(***************************************************************************)
UpToRank(t, r) == {x \in Ext \ {"I"} : x \in t /\ Rank(x) <= r}

\* sp means base b and the names of t up to rank r.
Built(sp, b, t, r) ==
    /\ sp \in Seq(Symbols) /\ Len(sp) >= 1 /\ sp[1] = b
    /\ GoodTo(sp, Len(sp))
    /\ \A k \in NamesTo(sp, Len(sp)) : Rank(sp[k]) <= r
    /\ MeantTo(sp, Len(sp)) = Closure(BaseExts[b] \cup UpToRank(t, r))

\* What is appended does not change what is before it.
Appended(q, sp, x) ==
    /\ q \in Seq(Symbols) /\ Len(q) = Len(sp) + 1 /\ Len(sp) \in Nat /\ q[Len(sp) + 1] = x
    /\ \A k \in 1 .. Len(sp) : q[k] = sp[k]
    /\ NamesTo(q, Len(sp)) = NamesTo(sp, Len(sp))
    /\ GoodTo(sp, Len(sp)) => GoodTo(q, Len(sp))
    /\ MeantTo(q, Len(sp)) = MeantTo(sp, Len(sp))

LEMMA AppendedSymbol ==
    ASSUME NEW sp \in Seq(Symbols), Len(sp) >= 1, NEW x \in Symbols, NEW q, q = Append(sp, x)
    PROVE  Appended(q, sp, x)
<1>1. q \in Seq(Symbols) /\ Len(q) = Len(sp) + 1 /\ Len(sp) \in Nat /\ q[Len(sp) + 1] = x
  OBVIOUS
<1>2. \A k \in 1 .. Len(sp) : q[k] = sp[k]
  OBVIOUS
<1>3. q[1] = sp[1] /\ \A k \in 2 .. Len(sp) : q[k] = sp[k]
  BY <1>1, <1>2
<1>4. NamesTo(q, Len(sp)) = NamesTo(sp, Len(sp))
  BY <1>3 DEF NamesTo
<1>5. \A k \in NamesTo(sp, Len(sp)) : q[k] = sp[k]
  BY <1>3 DEF NamesTo
<1>6. GoodTo(sp, Len(sp)) => GoodTo(q, Len(sp))
  BY <1>3, <1>4, <1>5 DEF GoodTo
<1>7. {q[k] : k \in NamesTo(q, Len(sp))} = {sp[k] : k \in NamesTo(sp, Len(sp))}
  BY <1>4, <1>5
<1>8. MeantTo(q, Len(sp)) = MeantTo(sp, Len(sp))
  BY <1>3, <1>7 DEF MeantTo
<1> QED BY <1>1, <1>2, <1>4, <1>6, <1>8 DEF Appended

LEMMA BuiltUnderscore ==
    ASSUME NEW sp, NEW b, NEW t, NEW r \in 0 .. 7, Built(sp, b, t, r), NEW q, q = Append(sp, "underscore")
    PROVE  Built(q, b, t, r) /\ q[Len(q)] = "underscore"
<1>1. "underscore" \in Symbols /\ sp \in Seq(Symbols) /\ Len(sp) >= 1 /\ sp[1] = b /\ GoodTo(sp, Len(sp))
  BY DEF Symbols, Built
<1>2. /\ q \in Seq(Symbols) /\ Len(q) = Len(sp) + 1 /\ Len(sp) \in Nat /\ q[Len(sp) + 1] = "underscore"
      /\ \A k \in 1 .. Len(sp) : q[k] = sp[k]
      /\ NamesTo(q, Len(sp)) = NamesTo(sp, Len(sp))
      /\ GoodTo(q, Len(sp))
      /\ MeantTo(q, Len(sp)) = MeantTo(sp, Len(sp))
  <2>1. Appended(q, sp, "underscore")
    BY <1>1, AppendedSymbol
  <2> QED BY <1>1, <2>1 DEF Appended
<1>3. /\ NamesTo(q, Len(q)) = NamesTo(sp, Len(sp)) /\ GoodTo(q, Len(q))
      /\ MeantTo(q, Len(q)) = MeantTo(sp, Len(sp))
  BY <1>1, <1>2, NamesStep, GoodStep, MeantStep
<1>4. q[1] = b /\ Len(q) >= 1
  BY <1>1, <1>2
<1>5. \A k \in NamesTo(q, Len(q)) : Rank(q[k]) <= r
  <2>1. \A k \in NamesTo(sp, Len(sp)) : q[k] = sp[k]
    BY <1>2 DEF NamesTo
  <2> QED BY <1>3, <2>1 DEF Built
<1> QED BY <1>2, <1>3, <1>4, <1>5 DEF Built

\* The next rank.
LEMMA NextRank ==
    ASSUME NEW t, NEW r \in 0 .. 6, NEW x, x = Ranked[r + 1]
    PROVE  /\ x \in Ext \ {"I"} /\ Rank(x) = r + 1 /\ x \in Symbols /\ x # "underscore"
           /\ x \notin t => UpToRank(t, r + 1) = UpToRank(t, r)
           /\ x \in t => UpToRank(t, r + 1) = UpToRank(t, r) \cup {x}
<1>1. x \in Ext \ {"I"} /\ Rank(x) = r + 1 /\ x \in Symbols /\ x # "underscore"
  BY RankFacts DEF Symbols, Ext
<1>2. \A y \in Ext \ {"I"} : Rank(y) \in 1 .. 7 /\ (Rank(y) = r + 1 => y = x)
  BY <1>1, RankFacts
<1>3. \A y \in Ext \ {"I"} : (Rank(y) <= r + 1) <=> (Rank(y) <= r \/ y = x)
  BY <1>1, <1>2
<1> QED BY <1>1, <1>3 DEF UpToRank

LEMMA BuiltNoName ==
    ASSUME NEW sp, NEW b, NEW t, NEW r \in 0 .. 6, Built(sp, b, t, r), Ranked[r + 1] \notin t
    PROVE  Built(sp, b, t, r + 1)
<1>1. \A k \in NamesTo(sp, Len(sp)) : Rank(sp[k]) <= r + 1
  BY RankFacts DEF Built, GoodTo
<1> QED BY <1>1, NextRank DEF Built

\* sp, and the name of rank r + 1 behind it.
NameBehind(sp, b, t, r, x, q) ==
    /\ Built(sp, b, t, r) /\ sp[Len(sp)] \notin ZNames
    /\ x = Ranked[r + 1] /\ x \in t /\ q = Append(sp, x)

LEMMA BuiltName ==
    \A sp, b, t, x, q : \A r \in 0 .. 6 :
        NameBehind(sp, b, t, r, x, q) => Built(q, b, t, r + 1) /\ q[Len(q)] = x
<1> SUFFICES ASSUME NEW sp, NEW b, NEW t, NEW x, NEW q, NEW r \in 0 .. 6,
                    NameBehind(sp, b, t, r, x, q)
             PROVE  Built(q, b, t, r + 1) /\ q[Len(q)] = x
  OBVIOUS
<1>1. Built(sp, b, t, r) /\ sp[Len(sp)] \notin ZNames
  BY DEF NameBehind
<1>2. x = Ranked[r + 1] /\ x \in t
  BY DEF NameBehind
<1>3. q = Append(sp, x)
  BY DEF NameBehind
<1> USE <1>1, <1>2, <1>3
<1>4. /\ x \in Ext \ {"I"} /\ Rank(x) = r + 1 /\ x \in Symbols /\ x # "underscore"
      /\ UpToRank(t, r + 1) = UpToRank(t, r) \cup {x}
  BY NextRank
<1>5. sp \in Seq(Symbols) /\ Len(sp) >= 1 /\ sp[1] = b /\ GoodTo(sp, Len(sp))
  BY DEF Built
<1>6. /\ q \in Seq(Symbols) /\ Len(q) = Len(sp) + 1 /\ Len(sp) \in Nat /\ q[Len(sp) + 1] = x
      /\ \A k \in 1 .. Len(sp) : q[k] = sp[k]
      /\ NamesTo(q, Len(sp)) = NamesTo(sp, Len(sp))
      /\ GoodTo(q, Len(sp))
      /\ MeantTo(q, Len(sp)) = MeantTo(sp, Len(sp))
  <2>1. Appended(q, sp, x)
    BY <1>4, <1>5, AppendedSymbol
  <2> QED BY <1>5, <2>1 DEF Appended
<1>7. \A k \in NamesTo(sp, Len(sp)) : q[k] = sp[k] /\ Rank(sp[k]) <= r + 1 /\ Rank(sp[k]) < r + 1
  <2>1. \A k \in NamesTo(sp, Len(sp)) : q[k] = sp[k]
    BY <1>6 DEF NamesTo
  <2>2. ASSUME NEW k \in NamesTo(sp, Len(sp)) PROVE Rank(sp[k]) <= r + 1 /\ Rank(sp[k]) < r + 1
    <3>1. Rank(sp[k]) \in 1 .. 7 /\ Rank(sp[k]) <= r
      BY RankFacts DEF Built, GoodTo
    <3> QED BY <3>1
  <2> QED BY <2>1, <2>2
<1>8. NamesTo(q, Len(q)) = NamesTo(sp, Len(sp)) \cup {Len(sp) + 1}
  <2>1. q[Len(sp) + 1] # "underscore" /\ Len(q) = Len(sp) + 1 /\ NamesTo(q, Len(sp)) = NamesTo(sp, Len(sp))
    BY <1>4, <1>6
  <2>2. NamesTo(q, Len(sp) + 1) = NamesTo(q, Len(sp)) \cup {Len(sp) + 1}
    BY <1>5, <1>6, <2>1, NamesStep
  <2> QED BY <2>1, <2>2
<1>9. GoodTo(q, Len(q))
  <2>1. \A k \in NamesTo(q, Len(sp)) : Rank(q[k]) < Rank(q[Len(sp) + 1])
    BY <1>4, <1>6, <1>7
  <2>2. q[Len(sp)] = sp[Len(sp)]
    BY <1>5, <1>6
  <2> QED BY <1>4, <1>5, <1>6, <2>1, <2>2, GoodStep
<1>10. MeantTo(q, Len(q)) = Closure(BaseExts[b] \cup UpToRank(t, r + 1))
  <2>1. MeantTo(q, Len(q)) = MeantTo(sp, Len(sp)) \cup Closure({x})
    <3>1. q[Len(sp) + 1] # "underscore" /\ q[Len(sp) + 1] = x /\ Len(q) = Len(sp) + 1
      BY <1>4, <1>6
    <3>2. MeantTo(q, Len(sp) + 1) = MeantTo(q, Len(sp)) \cup Closure({q[Len(sp) + 1]})
      BY <1>5, <1>6, <3>1, MeantStep
    <3>3. MeantTo(q, Len(sp)) = MeantTo(sp, Len(sp))
      BY <1>6
    <3> QED BY <3>1, <3>2, <3>3
  <2>2. MeantTo(sp, Len(sp)) = Closure(BaseExts[b] \cup UpToRank(t, r))
    BY DEF Built
  <2>3. (BaseExts[b] \cup UpToRank(t, r)) \cup {x} = BaseExts[b] \cup UpToRank(t, r + 1)
    BY <1>4
  <2> QED BY <2>1, <2>2, <2>3, ClosureAdds
<1>11. \A k \in NamesTo(q, Len(q)) : Rank(q[k]) <= r + 1
  <2>1. \A k \in NamesTo(sp, Len(sp)) : Rank(q[k]) <= r + 1
    BY <1>7
  <2>2. Rank(q[Len(sp) + 1]) = r + 1 /\ r + 1 <= r + 1
    BY <1>4, <1>6
  <2> QED BY <1>8, <2>1, <2>2
<1>12. q[1] = b /\ Len(q) >= 1
  BY <1>5, <1>6
<1> QED BY <1>6, <1>9, <1>10, <1>11, <1>12 DEF Built

\* Appending at the end of a concatenation.
LEMMA AppendLast ==
    ASSUME NEW S, NEW u \in Seq(S), NEW v \in Seq(S), NEW x \in S
    PROVE  u \o Append(v, x) = Append(u \o v, x)
OBVIOUS

LEMMA SameSequence ==
    ASSUME NEW S, NEW u \in Seq(S), NEW v \in Seq(S), Len(u) = Len(v), \A k \in 1 .. Len(u) : u[k] = v[k]
    PROVE  u = v
OBVIOUS

LEMMA AppendToShort ==
    ASSUME NEW S, NEW x \in S, NEW y \in S PROVE Append(<<>>, x) = <<x>> /\ Append(<<x>>, y) = <<x, y>>
<1>1. Append(<<>>, x) = <<x>>
  <2>1. <<>> \in Seq(S) /\ <<x>> \in Seq(S) /\ Append(<<>>, x) \in Seq(S)
    OBVIOUS
  <2>2. Len(Append(<<>>, x)) = 1 /\ Append(<<>>, x)[1] = x
    OBVIOUS
  <2> QED BY <2>1, <2>2
<1>2. Append(<<x>>, y) = <<x, y>>
  <2>1. <<x>> \in Seq(S) /\ <<x, y>> \in Seq(S) /\ Append(<<x>>, y) \in Seq(S)
    OBVIOUS
  <2>2. Len(Append(<<x>>, y)) = 2 /\ Append(<<x>>, y)[1] = x /\ Append(<<x>>, y)[2] = y
    OBVIOUS
  <2>3. Len(<<x, y>>) = 2 /\ \A k \in 1 .. 2 : Append(<<x>>, y)[k] = <<x, y>>[k]
    BY <2>2
  <2> QED BY <2>1, <2>2, <2>3, SameSequence
<1> QED BY <1>1, <1>2

LEMMA AppendToPair ==
    ASSUME NEW S, NEW x \in S, NEW y \in S, NEW z \in S PROVE Append(<<x, y>>, z) = <<x, y, z>>
<1>1. <<x, y>> \in Seq(S) /\ <<x, y, z>> \in Seq(S) /\ Append(<<x, y>>, z) \in Seq(S)
  OBVIOUS
<1>2. /\ Len(Append(<<x, y>>, z)) = 3 /\ Append(<<x, y>>, z)[1] = x /\ Append(<<x, y>>, z)[2] = y
      /\ Append(<<x, y>>, z)[3] = z
  OBVIOUS
<1>3. Len(<<x, y, z>>) = 3 /\ \A k \in 1 .. 3 : Append(<<x, y>>, z)[k] = <<x, y, z>>[k]
  BY <1>2
<1> QED BY <1>1, <1>2, <1>3, SameSequence

\* The base and the letters of t.
LEMMA LettersAreBuilt ==
    ASSUME NEW b \in {"I", "G"}, NEW t, NEW sp, sp = <<b>> \o Chosen(Unprivileged, t)
    PROVE  Built(sp, b, t, 5) /\ sp[Len(sp)] \notin ZNames
<1>1. PICK f : Choosing(f, Unprivileged, t)
  BY SectionLists, ChosenUnfolds
<1> DEFINE B(k) == /\ f[k] \in Seq(Ext) /\ Built(<<b>> \o f[k], b, t, k)
                   /\ (<<b>> \o f[k])[Len(<<b>> \o f[k])] \notin ZNames
<1>2. B(0)
  <2>1. <<b>> \o f[0] = <<b>> /\ f[0] \in Seq(Ext)
    BY <1>1 DEF Choosing
  <2>2. <<b>> \in Seq(Symbols) /\ Len(<<b>>) = 1 /\ <<b>>[1] = b /\ b \notin ZNames
    BY DEF Symbols, Ext, ZNames
  <2>3. NamesTo(<<b>>, 1) = {} /\ UpToRank(t, 0) = {}
    BY RankFacts DEF NamesTo, UpToRank
  <2>4. GoodTo(<<b>>, 1)
    BY <2>2, <2>3 DEF GoodTo
  <2>5. MeantTo(<<b>>, 1) = Closure(BaseExts[b] \cup UpToRank(t, 0))
    <3>1. BaseExts[b] \cup {<<b>>[k] : k \in {}} = BaseExts[b] \cup UpToRank(t, 0)
      BY <2>3
    <3> QED BY <2>2, <2>3, <3>1 DEF MeantTo
  <2>6. Built(<<b>>, b, t, 0)
    BY <2>2, <2>3, <2>4, <2>5 DEF Built
  <2> QED BY <2>1, <2>2, <2>6
<1>3. ASSUME NEW k \in 0 .. 4, B(k) PROVE B(k + 1)
  <2>1. /\ k + 1 \in 1 .. Len(Unprivileged) /\ (k + 1) - 1 = k /\ Unprivileged[k + 1] = Ranked[k + 1]
        /\ k \in 0 .. 6
    BY SectionLists
  <2>2. f[k + 1] = IF Ranked[k + 1] \in t THEN Append(f[k], Ranked[k + 1]) ELSE f[k]
    BY <1>1, <2>1 DEF Choosing
  <2>3. Ranked[k + 1] \in Ext /\ Ranked[k + 1] \notin ZNames
    BY RankFacts
  <2>4. CASE Ranked[k + 1] \notin t
    <3>1. f[k + 1] = f[k]
      BY <2>2, <2>4
    <3>2. Built(<<b>> \o f[k], b, t, k + 1)
      BY <1>3, <2>1, <2>4, BuiltNoName
    <3> QED BY <1>3, <3>1, <3>2
  <2>5. CASE Ranked[k + 1] \in t
    <3>1. f[k + 1] = Append(f[k], Ranked[k + 1]) /\ f[k] \in Seq(Ext)
      BY <1>3, <2>2, <2>5
    <3>2. f[k + 1] \in Seq(Ext)
      BY <2>3, <3>1
    <3>3. <<b>> \o f[k + 1] = Append(<<b>> \o f[k], Ranked[k + 1])
      BY <2>3, <3>1, AppendLast
    <3>4. PICK q, x : x = Ranked[k + 1] /\ q = Append(<<b>> \o f[k], x)
      OBVIOUS
    <3>5. Built(q, b, t, k + 1) /\ q[Len(q)] = Ranked[k + 1]
      <4>1. Built(<<b>> \o f[k], b, t, k) /\ (<<b>> \o f[k])[Len(<<b>> \o f[k])] \notin ZNames
        BY <1>3
      <4>2. PICK p : p = <<b>> \o f[k]
        OBVIOUS
      <4>3. Built(p, b, t, k) /\ p[Len(p)] \notin ZNames /\ q = Append(p, x) /\ x \in t
        BY <2>5, <3>4, <4>1, <4>2
      <4> HIDE DEF B
      <4>4. k \in 0 .. 6 /\ x = Ranked[k + 1]
        BY <2>1, <3>4
      <4>5. Built(q, b, t, k + 1) /\ q[Len(q)] = x
        <5>1. NameBehind(p, b, t, k, x, q)
          BY <4>3, <4>4 DEF NameBehind
        <5> QED BY <4>4, <5>1, BuiltName
      <4> QED BY <4>4, <4>5
    <3> QED BY <2>3, <3>2, <3>3, <3>4, <3>5
  <2> QED BY <2>4, <2>5
<1>4. B(5)
  <2> HIDE DEF B
  <2>1. 0 + 1 = 1 /\ 1 + 1 = 2 /\ 2 + 1 = 3 /\ 3 + 1 = 4 /\ 4 + 1 = 5
    OBVIOUS
  <2>2. B(1) /\ 1 \in 0 .. 4
    BY <1>2, <1>3, <2>1
  <2>3. B(2) /\ 2 \in 0 .. 4
    BY <1>3, <2>1, <2>2
  <2>4. B(3) /\ 3 \in 0 .. 4
    BY <1>3, <2>1, <2>3
  <2>5. B(4) /\ 4 \in 0 .. 4
    BY <1>3, <2>1, <2>4
  <2> QED BY <1>3, <2>1, <2>5
<1>5. Chosen(Unprivileged, t) = f[5]
  BY <1>1, SectionLists DEF Choosing
<1> QED BY <1>4, <1>5

\* The names that start with Z.
LEMMA MachineNames ==
    ASSUME NEW t
    PROVE  Chosen(Machine, t) =
             IF "Zicsr" \in t
             THEN IF "Zifencei" \in t THEN <<"Zicsr", "Zifencei">> ELSE <<"Zicsr">>
             ELSE IF "Zifencei" \in t THEN <<"Zifencei">> ELSE <<>>
<1>1. PICK f : Choosing(f, Machine, t)
  BY SectionLists, ChosenUnfolds
<1>2. Machine[1] = "Zicsr" /\ Machine[2] = "Zifencei" /\ Len(Machine) = 2
  BY DEF Machine
<1>3. f[1] = IF "Zicsr" \in t THEN Append(f[0], "Zicsr") ELSE f[0]
  <2>1. 1 \in 1 .. Len(Machine) /\ 1 - 1 = 0
    BY <1>2
  <2> QED BY <1>1, <1>2, <2>1 DEF Choosing
<1>4. f[2] = IF "Zifencei" \in t THEN Append(f[1], "Zifencei") ELSE f[1]
  <2>1. 2 \in 1 .. Len(Machine) /\ 2 - 1 = 1
    BY <1>2
  <2> QED BY <1>1, <1>2, <2>1 DEF Choosing
<1>5. /\ Append(<<>>, "Zicsr") = <<"Zicsr">> /\ Append(<<>>, "Zifencei") = <<"Zifencei">>
      /\ Append(<<"Zicsr">>, "Zifencei") = <<"Zicsr", "Zifencei">>
  <2>1. "Zicsr" \in Ext /\ "Zifencei" \in Ext
    BY DEF Ext
  <2> QED BY <2>1, AppendToShort
<1>6. Chosen(Machine, t) = f[2] /\ f[0] = <<>>
  BY <1>1, <1>2 DEF Choosing
<1> QED BY <1>3, <1>4, <1>5, <1>6

\* Those names joined.
LEMMA JoinedNames ==
    ASSUME NEW x \in Symbols, NEW y \in Symbols
    PROVE  /\ Joined(<<>>) = <<>>
           /\ Joined(<<x>>) = <<x>>
           /\ Joined(<<x, y>>) = <<x, "underscore", y>>
<1>1. Joined(<<>>) = <<>>
  BY DEF Joined
<1>2. Joined(<<x>>) = <<x>>
  BY DEF Joined
<1>3. Joined(<<x, y>>) = <<x, "underscore", y>>
  BY DEF Joined
<1> QED BY <1>1, <1>2, <1>3

\* Symbols behind a sequence, one at a time.
LEMMA OneByOne ==
    ASSUME NEW sp \in Seq(Symbols), NEW x \in Symbols, NEW y \in Symbols
    PROVE  LET u == "underscore"
           IN /\ sp \o <<u>> \o <<x>> = Append(Append(sp, u), x)
              /\ sp \o <<u>> \o <<x, u, y>> = Append(Append(Append(Append(sp, u), x), u), y)
<1> DEFINE u == "underscore"
<1>1. u \in Symbols
  BY DEF Symbols
<1> HIDE DEF u
<1>2. sp \o <<u>> = Append(sp, u) /\ Append(sp, u) \in Seq(Symbols)
  <2>1. <<>> \in Seq(Symbols) /\ Append(<<>>, u) = <<u>> /\ sp \o <<>> = sp
    BY <1>1, AppendToShort
  <2>2. sp \o Append(<<>>, u) = Append(sp \o <<>>, u)
    BY <1>1, <2>1, AppendLast
  <2> QED BY <1>1, <2>1, <2>2
<1>3. PICK p : p = Append(sp, u) /\ p \in Seq(Symbols)
  BY <1>2
<1>4. p \o <<x>> = Append(p, x)
  <2>1. <<>> \in Seq(Symbols) /\ Append(<<>>, x) = <<x>> /\ p \o <<>> = p
    BY <1>3, AppendToShort
  <2>2. p \o Append(<<>>, x) = Append(p \o <<>>, x)
    BY <1>3, <2>1, AppendLast
  <2> QED BY <2>1, <2>2
<1>5. p \o <<x, u, y>> = Append(Append(Append(p, x), u), y)
  <2>1. <<x>> \in Seq(Symbols) /\ <<x, u>> \in Seq(Symbols) /\ Append(<<x>>, u) = <<x, u>>
    BY <1>1, AppendToShort
  <2>2. Append(<<x, u>>, y) = <<x, u, y>>
    BY <1>1, AppendToPair
  <2>3. p \o Append(<<x>>, u) = Append(p \o <<x>>, u)
    BY <1>1, <1>3, <2>1, AppendLast
  <2>4. p \o Append(<<x, u>>, y) = Append(p \o <<x, u>>, y)
    BY <1>1, <1>3, <2>1, AppendLast
  <2> QED BY <1>4, <2>1, <2>2, <2>3, <2>4
<1> QED BY <1>2, <1>3, <1>4, <1>5 DEF u

\* Base b, then the names of t.
Printed(b, t) ==
    LET letters == <<b>> \o Chosen(Unprivileged, t)
        names == Chosen(Machine, t)
    IN letters \o (IF letters # <<>> /\ names # <<>> THEN <<"underscore">> ELSE <<>>) \o Joined(names)

LEMMA PrintedIsBuilt ==
    ASSUME NEW b \in {"I", "G"}, NEW t
    PROVE  Built(Printed(b, t), b, t, 7)
<1>1. PICK sp : sp = <<b>> \o Chosen(Unprivileged, t)
  OBVIOUS
<1>2. Built(sp, b, t, 5) /\ sp[Len(sp)] \notin ZNames
  BY <1>1, LettersAreBuilt
<1>3. sp \in Seq(Symbols) /\ sp # <<>> /\ sp \o <<>> = sp /\ sp \o <<>> \o <<>> = sp
  BY <1>2 DEF Built
<1>4. PICK u : u = "underscore"
  OBVIOUS
<1>5. PICK x, y : x = "Zicsr" /\ y = "Zifencei"
  OBVIOUS
<1>6. x \in Symbols /\ y \in Symbols /\ u \notin ZNames /\ Ranked[6] = x /\ Ranked[7] = y
  BY <1>4, <1>5, RankedNames DEF Symbols, ZNames
<1>7. Printed(b, t) =
        IF x \in t
        THEN IF y \in t THEN Append(Append(Append(Append(sp, u), x), u), y) ELSE Append(Append(sp, u), x)
        ELSE IF y \in t THEN Append(Append(sp, u), y) ELSE sp
  <2>1. Printed(b, t) = sp \o (IF Chosen(Machine, t) # <<>> THEN <<u>> ELSE <<>>) \o Joined(Chosen(Machine, t))
    BY <1>1, <1>3, <1>4 DEF Printed
  <2>2. Chosen(Machine, t) = IF x \in t THEN IF y \in t THEN <<x, y>> ELSE <<x>>
                             ELSE IF y \in t THEN <<y>> ELSE <<>>
    BY <1>5, MachineNames
  <2>3. Joined(<<>>) = <<>> /\ Joined(<<x>>) = <<x>> /\ Joined(<<y>>) = <<y>> /\ Joined(<<x, y>>) = <<x, u, y>>
    BY <1>4, <1>6, JoinedNames
  <2>4. /\ sp \o <<u>> \o <<x>> = Append(Append(sp, u), x) /\ sp \o <<u>> \o <<y>> = Append(Append(sp, u), y)
        /\ sp \o <<u>> \o <<x, u, y>> = Append(Append(Append(Append(sp, u), x), u), y)
    BY <1>3, <1>4, <1>6, OneByOne
  <2>5. <<x>> # <<>> /\ <<y>> # <<>> /\ <<x, y>> # <<>>
    OBVIOUS
  <2>6. CASE x \in t /\ y \in t
    BY <2>1, <2>2, <2>3, <2>4, <2>5, <2>6
  <2>7. CASE x \in t /\ y \notin t
    BY <2>1, <2>2, <2>3, <2>4, <2>5, <2>7
  <2>8. CASE x \notin t /\ y \in t
    BY <2>1, <2>2, <2>3, <2>4, <2>5, <2>8
  <2>9. CASE x \notin t /\ y \notin t
    BY <1>3, <2>1, <2>2, <2>3, <2>9
  <2> QED BY <2>6, <2>7, <2>8, <2>9
<1>8. 5 + 1 = 6 /\ 6 + 1 = 7
  OBVIOUS
<1>9. ASSUME NEW v, Built(v, b, t, 6), y \in t PROVE Built(Append(Append(v, u), y), b, t, 7)
  <2>1. PICK w, z : w = Append(v, u) /\ z = Append(w, y)
    OBVIOUS
  <2>2. Built(w, b, t, 6) /\ w[Len(w)] \notin ZNames
    <3>1. w = Append(v, "underscore") /\ 6 \in 0 .. 7
      BY <1>4, <2>1
    <3>2. Built(w, b, t, 6) /\ w[Len(w)] = "underscore"
      <4>1. Built(v, b, t, 6)
        BY <1>9
      <4>2. \A r \in 0 .. 7 : Built(v, b, t, r) => Built(w, b, t, r) /\ w[Len(w)] = "underscore"
        BY <3>1, BuiltUnderscore
      <4> QED BY <3>1, <4>1, <4>2
    <3> QED BY <1>4, <1>6, <3>2
  <2>3. NameBehind(w, b, t, 6, y, z)
    BY <1>6, <1>8, <1>9, <2>1, <2>2 DEF NameBehind
  <2>4. Built(z, b, t, 7)
    BY <1>8, <2>3, BuiltName
  <2> QED BY <2>1, <2>4
<1>10. PICK p, q : p = Append(sp, u) /\ q = Append(p, x)
  OBVIOUS
<1>11. x \in t => Built(q, b, t, 6)
  <2>1. Built(p, b, t, 5) /\ p[Len(p)] \notin ZNames
    <3>1. p = Append(sp, "underscore") /\ 5 \in 0 .. 7
      BY <1>4, <1>10
    <3> QED BY <1>2, <1>4, <1>6, <3>1, BuiltUnderscore
  <2>2. x \in t => NameBehind(p, b, t, 5, x, q)
    BY <1>6, <1>8, <1>10, <2>1 DEF NameBehind
  <2> QED BY <1>8, <2>2, BuiltName
<1>12. x \notin t => Built(sp, b, t, 6)
  BY <1>2, <1>6, <1>8, BuiltNoName
<1>13. \A v : Built(v, b, t, 6) /\ y \notin t => Built(v, b, t, 7)
  BY <1>6, <1>8, BuiltNoName
<1> QED BY <1>7, <1>9, <1>10, <1>11, <1>12, <1>13

\* The meaning of a specification is a closed set of extensions with a base.
Specifiable(s) ==
    /\ s \subseteq Ext /\ "I" \in s
    /\ "D" \in s => "F" \in s
    /\ "F" \in s => "Zicsr" \in s

LEMMA MeantIsSpecifiable ==
    ASSUME NEW sp \in Seq(Symbols), WellFormed(sp) PROVE Specifiable(Meant(sp))
<1> DEFINE s == BaseExts[sp[1]] \cup {sp[k] : k \in NamesTo(sp, Len(sp))}
<1>1. Meant(sp) = Closure(s) /\ Meant(sp) \subseteq Ext
  BY MeantIsClosure DEF MeantTo
<1>2. "I" \in s
  BY BaseFacts DEF WellFormed
<1> HIDE DEF s
<1> QED BY <1>1, <1>2, ClosureMembers DEF Specifiable

\* What is printed for a set is read back as this set.
LEMMA FormatReadsBack ==
    ASSUME NEW s, Specifiable(s)
    PROVE  Format(s) \in Seq(Symbols) /\ WellFormed(Format(s)) /\ Meant(Format(s)) = s
<1>1. PICK b \in {"I", "G"} : BaseOf(s) = <<b>> /\ Closure(BaseExts[b]) \subseteq s
  <2>1. Closure(BaseExts["I"]) \subseteq s
    BY ClosureMembers DEF BaseExts, Specifiable
  <2> QED BY <2>1 DEF BaseOf, Specifiable
<1>2. PICK t : t = s \ Closure(BaseExts[b])
  OBVIOUS
<1>3. LeftOver(s) = t
  BY <1>1, <1>2 DEF LeftOver
<1>4. PICK sp : sp = Printed(b, t)
  OBVIOUS
<1>5. Format(s) = sp
  BY <1>1, <1>3, <1>4 DEF Format, Printed
<1>6. Built(sp, b, t, 7)
  BY <1>4, PrintedIsBuilt
<1>7. sp \in Seq(Symbols) /\ WellFormed(sp)
  BY <1>6, WholeIsWellFormed DEF Built
<1>8. UpToRank(t, 7) = t
  <2>1. t \subseteq Ext \ {"I"}
    BY <1>2, BaseFacts, ClosureMembers DEF Specifiable
  <2>2. \A x \in t : Rank(x) <= 7
    BY <2>1, RankFacts
  <2> QED BY <2>1, <2>2 DEF UpToRank
<1>9. Meant(sp) = Closure(BaseExts[b] \cup t)
  BY <1>6, <1>7, <1>8, MeantIsClosure DEF Built
<1>10. Closure(BaseExts[b] \cup t) = s
  <2>1. \A e : e \in Closure(BaseExts[b] \cup t) => e \in s
    BY <1>1, <1>2, ClosureMembers DEF Specifiable
  <2>2. \A e \in s : e \in Closure(BaseExts[b]) \/ e \in t
    BY <1>2
  <2>3. Closure(BaseExts[b]) \cup Closure(t) = Closure(BaseExts[b] \cup t) /\ t \subseteq Closure(t)
    BY ClosureAdds, ClosureMembers
  <2> QED BY <2>1, <2>2, <2>3
<1> QED BY <1>5, <1>7, <1>9, <1>10

-----------------------------------------------------------------------------
LEMMA ReportKeeps == ScriptInv /\ Report => ScriptInv'
<1> SUFFICES ASSUME ScriptInv, Report PROVE ScriptInv'
  OBVIOUS
<1>1. /\ stage = "accepted" /\ stage' = "reported" /\ report' = Format(exts)
      /\ UNCHANGED <<input, spec, section, exts>>
  BY DEF Report
<1>2. WellFormed(input.exts) /\ exts = Meant(input.exts) /\ input.exts \in Seq(Symbols)
  BY <1>1, ConfigAssumption DEF ScriptInv, ScriptTypeOK, Through
<1>3. report' \in Seq(Symbols)
  BY <1>1, <1>2, MeantIsSpecifiable, FormatReadsBack
<1>4. ScriptTypeOK'
  BY <1>1, <1>3 DEF ScriptInv, ScriptTypeOK
<1>5. Suffix'
  <2>1. Pos' = Pos
    BY <1>1 DEF Pos
  <2> QED BY <1>1, <2>1 DEF ScriptInv, Suffix
<1> QED BY <1>1, <1>2, <1>4, <1>5
        DEF ScriptInv, InSectionInv, InSection, Entry, Through, Checks, Refused

LEMMA NextScriptInv == ScriptInv /\ [ScriptNext]_script => ScriptInv'
<1>1. ASSUME ScriptInv, UNCHANGED script PROVE ScriptInv'
  <2>1. UNCHANGED <<input, stage, spec, section, exts, report>>
    BY <1>1 DEF script
  <2>2. Pos' = Pos /\ First' = First /\ Last' = Last
    BY <2>1 DEF Pos, First, Last
  <2>3. \A r \in 0 .. 7 : Passed(r)' <=> Passed(r)
    BY <2>1, <2>2 DEF Passed
  <2>4. InSectionInv'
    BY <1>1, <2>1, <2>2, <2>3 DEF ScriptInv, InSectionInv, InSection
  <2>5. ScriptTypeOK' /\ Suffix'
    BY <1>1, <2>1, <2>2 DEF ScriptInv, ScriptTypeOK, Suffix
  <2> QED BY <1>1, <2>1, <2>4, <2>5 DEF ScriptInv, Entry, Through, Checks, Refused
<1> QED BY <1>1, ParseXlenKeeps, ParseBaseKeeps, SkipUnderscoreKeeps, LeaveSectionKeeps,
           ParseExtKeeps, CheckAbiKeeps, CheckMmuKeeps, ReportKeeps DEF ScriptNext

\* The report is the printed set.
Reported == stage = "reported" => report = Format(exts)

\* The parser's place, the section it is in and the set found so far agree with
\* what the symbols read mean: ScriptInv is inductive.
THEOREM ParsingInvariant == ScriptSpec => []ScriptInv
BY InitScriptInv, NextScriptInv, PTL DEF ScriptSpec

\* The script accepts the configurations that are possible and no others, for
\* every set of arguments.
THEOREM VerdictsRight == ScriptSpec => []VerdictIsRight
<1>1. ScriptInv => VerdictIsRight
  BY DEF ScriptInv, VerdictIsRight, Through, Checks, Refused, Possible
<1> QED BY <1>1, ParsingInvariant, PTL

\* The specification printed for an accepted configuration is one that the
\* parser accepts, and means the set that was parsed.
THEOREM ReportsReadBack == ScriptSpec => []ReportReadsBack
<1>1. ScriptInv /\ Reported => ReportReadsBack
  <2> SUFFICES ASSUME ScriptInv, Reported, stage = "reported"
               PROVE  WellFormed(report) /\ Meant(report) = exts
    BY DEF ReportReadsBack
  <2>1. WellFormed(input.exts) /\ exts = Meant(input.exts) /\ input.exts \in Seq(Symbols)
    BY ConfigAssumption DEF ScriptInv, ScriptTypeOK, Through
  <2> QED BY <2>1, MeantIsSpecifiable, FormatReadsBack DEF Reported
<1>2. ScriptInit => Reported
  BY DEF ScriptInit, Reported
<1>3. Reported /\ [ScriptNext]_script => Reported'
  BY DEF Reported, ScriptNext, script, ParseXlen, ParseBase, SkipUnderscore, LeaveSection,
         ParseExt, CheckAbi, CheckMmu, Report, Refuse, InSection
<1> QED BY <1>1, <1>2, <1>3, ParsingInvariant, PTL DEF ScriptSpec
=============================================================================
