-------------------------- MODULE AduCommandProofs --------------------------
(***************************************************************************)
(* Proofs about how a text is read: which handler the search finds, what   *)
(* strtoul makes of the few characters a handler gives it, and where a     *)
(* text in a report ends.  They hold for texts of any characters.          *)
(***************************************************************************)
EXTENDS AduReport, SequenceTheorems, WellFoundedInduction, TLAPS

-----------------------------------------------------------------------------
(* A set of naturals has its least element. *)
LEMMA LeastIsThere ==
  ASSUME NEW S \in SUBSET Nat, S # {}
  PROVE  Min(S) \in S /\ \A y \in S : Min(S) =< y
<1> DEFINE R == OpToRel(<, Nat)
<1>1. IsWellFoundedOn(R, Nat)
  BY NatLessThanWellFounded, Zenon
<1>2. \A x, y \in Nat : <<y, x>> \in R <=> y < x
  BY DEF OpToRel
<1> HIDE DEF R
<1>3. PICK m \in S : \A y \in S : ~ (<<y, m>> \in R)
  BY <1>1, WFMin
<1>4. \A y \in S : m =< y
  <2> TAKE y \in S
  <2>1. m \in Nat /\ y \in Nat
    OBVIOUS
  <2>2. ~ (y < m)
    BY <1>2, <1>3, <2>1
  <2> QED
    BY <2>1, <2>2
<1> QED
  BY <1>4 DEF Min

(* Two sequences joined. *)
IsJoined(both, s, t, C) ==
  /\ both \in Seq(C)
  /\ Len(both) = Len(s) + Len(t)
  /\ \A i \in 1 .. Len(s) : both[i] = s[i]
  /\ \A i \in 1 .. Len(t) : both[Len(s) + i] = t[i]

(* Which is what joining them yields. *)
LEMMA Joined ==
  ASSUME NEW C, NEW s \in Seq(C), NEW t \in Seq(C)
  PROVE  IsJoined(s \o t, s, t, C)
<1> DEFINE p == Len(s)
           q == Len(t)
           both == s \o t
<1>1. /\ both \in Seq(C) /\ Len(both) = p + q
      /\ \A i \in 1 .. p + q : both[i] = IF i <= p THEN s[i] ELSE t[i - p]
  BY ConcatProperties, Zenon
<1>2. p \in Nat /\ q \in Nat
  OBVIOUS
<1> HIDE DEF p, q, both
<1>3. ASSUME NEW i \in 1 .. p PROVE both[i] = s[i]
  BY <1>1, <1>2
<1>4. ASSUME NEW i \in 1 .. q PROVE both[p + i] = t[i]
  <2>1. p + i \in 1 .. p + q /\ ~ (p + i <= p) /\ (p + i) - p = i
    BY <1>2
  <2> DEFINE j == p + i
  <2>2. both[j] = IF j <= p THEN s[j] ELSE t[j - p]
    BY <1>1, <2>1
  <2> QED
    BY <2>1, <2>2
<1> QED
  BY <1>1, <1>3, <1>4 DEF IsJoined, p, q, both

(* The first elements of a sequence. *)
LEMMA CutShort ==
  ASSUME NEW C, NEW s \in Seq(C), NEW m \in Nat, m <= Len(s)
  PROVE  /\ SubSeq(s, 1, m) \in Seq(C) /\ Len(SubSeq(s, 1, m)) = m
         /\ \A i \in 1 .. m : SubSeq(s, 1, m)[i] = s[i]
OBVIOUS

(* One character over and over. *)
LEMMA Repeated ==
  ASSUME NEW C, NEW c \in C, NEW q \in Nat
  PROVE  /\ [i \in 1 .. q |-> c] \in Seq(C)
         /\ Len([i \in 1 .. q |-> c]) = q
OBVIOUS

(***************************************************************************)
(* A search that finds a handler finds one of the twelve                   *)
(* (AduProtocol.c:744-755).                                                *)
(***************************************************************************)
LEMMA EntryIsListed ==
  ASSUME NEW text, Found(text)
  PROVE  Entry(text) \in {"SK", "RK", "MK", "RPK", "PK", "RP", "PA", "PI", "RE", "RC",
                          "DB", "WD"}
<1>1. Matching(text) \subseteq 1 .. 12
  BY DEF Matching, ENTRIES
<1>2. Min(Matching(text)) \in 1 .. 12
  BY <1>1, LeastIsThere DEF Found
<1> QED
  BY <1>2 DEF Entry, ENTRIES

-----------------------------------------------------------------------------
(* The arguments are what stands behind the prefix that was found. *)
LEMMA ArgumentsLength ==
  ASSUME NEW C, NEW text \in Seq(C), Found(text)
  PROVE  /\ Arguments(text) \in Seq(C)
         /\ Len(Arguments(text)) = Len(text) - Len(Prefix[Entry(text)])
         /\ Len(Prefix[Entry(text)]) = IF Entry(text) = "RPK" THEN 3 ELSE 2
         /\ \A i \in 1 .. Len(Arguments(text)) :
              Arguments(text)[i] = text[Len(Prefix[Entry(text)]) + i]
<1>1. Entry(text) \in {"SK", "RK", "MK", "RPK", "PK", "RP", "PA", "PI", "RE", "RC",
                       "DB", "WD"}
  BY EntryIsListed
<1> DEFINE k == Len(Prefix[Entry(text)])
<1>2. k = IF Entry(text) = "RPK" THEN 3 ELSE 2
  <2>1. /\ Prefix["SK"] = <<"S", "K">> /\ Prefix["RK"] = <<"R", "K">>
        /\ Prefix["MK"] = <<"M", "K">> /\ Prefix["RPK"] = <<"R", "P", "K">>
        /\ Prefix["PK"] = <<"P", "K">> /\ Prefix["RP"] = <<"R", "P">>
        /\ Prefix["PA"] = <<"P", "A">> /\ Prefix["PI"] = <<"P", "I">>
        /\ Prefix["RE"] = <<"R", "E">> /\ Prefix["RC"] = <<"R", "C">>
        /\ Prefix["DB"] = <<"D", "B">> /\ Prefix["WD"] = <<"W", "D">>
    BY DEF Prefix
  <2>2. /\ Len(Prefix["SK"]) = 2 /\ Len(Prefix["RK"]) = 2 /\ Len(Prefix["MK"]) = 2
        /\ Len(Prefix["RPK"]) = 3 /\ Len(Prefix["PK"]) = 2 /\ Len(Prefix["RP"]) = 2
        /\ Len(Prefix["PA"]) = 2 /\ Len(Prefix["PI"]) = 2 /\ Len(Prefix["RE"]) = 2
        /\ Len(Prefix["RC"]) = 2 /\ Len(Prefix["DB"]) = 2 /\ Len(Prefix["WD"]) = 2
    BY <2>1
  <2> QED
    BY <1>1, <2>2
<1>3. k <= Len(text)
  <2>1. Matching(text) \subseteq 1 .. 12
    BY DEF Matching, ENTRIES
  <2>2. Min(Matching(text)) \in Matching(text)
    BY <2>1, LeastIsThere DEF Found
  <2> QED
    BY <2>2 DEF Matching, Entry, HasPrefix
<1>4. Arguments(text) = SubSeq(text, k + 1, Len(text))
  BY DEF Arguments
<1> HIDE DEF k
<1>5. k \in 2 .. 3 /\ Len(text) \in Nat
  BY <1>2
<1>6. /\ Arguments(text) \in Seq(C) /\ Len(Arguments(text)) = Len(text) - k
      /\ \A i \in 1 .. Len(text) - k : Arguments(text)[i] = text[k + i]
  BY <1>3, <1>4, <1>5
<1> QED
  BY <1>2, <1>6 DEF k

(***************************************************************************)
(* No handler accepts a text that is longer than any command, so that one  *)
(* that a wrapped length lets through is rejected all the same             *)
(* (AduProtocol.c:223-652, 733-734).                                       *)
(***************************************************************************)
LEMMA LongTextsAreInvalid ==
  ASSUME NEW C, NEW text \in Seq(C), Len(text) > MAX_CMD_STR_SIZE
  PROVE  Processed(text) = Invalid
<1>1. CASE ~Found(text)
  BY <1>1 DEF Processed
<1>2. CASE Found(text)
  <2> DEFINE args == Arguments(text)
             entry == Entry(text)
  <2>1. entry \in {"SK", "RK", "MK", "RPK", "PK", "RP", "PA", "PI", "RE", "RC", "DB", "WD"}
    BY <1>2, EntryIsListed
  <2>2. /\ Len(args) \in Nat
        /\ Len(args) >= 3 /\ (entry # "RPK" => Len(args) > 3)
    BY <1>2, ArgumentsLength DEF MAX_CMD_STR_SIZE
  <2>3. /\ args # <<>> /\ Len(args) # 0 /\ Len(args) # 1 /\ Len(args) # 2
        /\ entry = "MK" => ~ (Len(args) <= 3)
    <3>1. \A n \in Nat : n >= 3 => n # 0 /\ n # 1 /\ n # 2
      OBVIOUS
    <3>2. \A n \in Nat : n > 3 => ~ (n <= 3)
      OBVIOUS
    <3> QED
      BY <2>2, <3>1, <3>2
  <2>4. Processed(text) =
          CASE entry \in {"SK", "RK", "RPK"} -> ReadIndex(entry, args, NUM_RELAYS)
            [] entry = "MK" -> ReadPortValue(args)
            [] entry \in {"PK", "PI"} -> ReadNothing(entry, args)
            [] entry = "RP" /\ Len(args) = 2 -> ReadPortLine(args)
            [] entry = "RP" /\ Len(args) # 2 -> ReadPort("RP", args)
            [] entry = "PA" -> ReadPort("PA", args)
            [] entry \in {"RE", "RC"} -> ReadIndex(entry, args, EVENT_COUNTER_NUM_COUNTERS)
            [] entry = "DB" -> ReadSetting("DB", "DBn", args, DEBOUNCE_SETTING_NUM_SETTINGS)
            [] entry = "WD" -> ReadSetting("WD", "WDn", args, WATCHDOG_SETTING_NUM_SETTINGS)
    BY <1>2 DEF Processed
  <2> HIDE DEF args, entry
  <2>5. /\ \A op, limit : ReadIndex(op, args, limit) = Invalid
        /\ \A op : ReadNothing(op, args) = Invalid /\ ReadPort(op, args) = Invalid
        /\ \A get, set, limit : ReadSetting(get, set, args, limit) = Invalid
        /\ entry = "MK" => ReadPortValue(args) = Invalid
    BY <2>2, <2>3 DEF ReadIndex, ReadNothing, ReadPort, ReadSetting, ReadPortValue
  <2> QED
    BY <2>1, <2>3, <2>4, <2>5
<1> QED
  BY <1>1, <1>2

-----------------------------------------------------------------------------
(* The first NUL of a memory that holds one. *)
FirstNul(memory) == SelectInSeq(memory, LAMBDA c : c = NUL)

(* The text ends in front of it, and strnlen there or earlier. *)
LEMMA FirstNulIsFirst ==
  ASSUME NEW C, NEW memory \in Seq(C), \E i \in 1 .. Len(memory) : memory[i] = NUL
  PROVE  /\ FirstNul(memory) \in 1 .. Len(memory)
         /\ memory[FirstNul(memory)] = NUL
         /\ \A i \in 1 .. FirstNul(memory) - 1 : memory[i] # NUL
         /\ \A len \in Nat : StrNLen(memory, len) = IF len < FirstNul(memory) - 1
                                                     THEN len ELSE FirstNul(memory) - 1
         /\ TextAt(memory) = SubSeq(memory, 1, FirstNul(memory) - 1)
<1> DEFINE I == {i \in 1 .. Len(memory) : memory[i] = NUL}
<1>1. FirstNul(memory) = Min(I)
  BY DEF FirstNul, SelectInSeq
<1>2. I \in SUBSET Nat /\ I # {}
  OBVIOUS
<1>3. Min(I) \in I /\ \A i \in I : Min(I) =< i
  BY <1>2, LeastIsThere
<1>4. FirstNul(memory) \in 1 .. Len(memory) /\ memory[FirstNul(memory)] = NUL
  BY <1>1, <1>3
<1>5. \A i \in 1 .. FirstNul(memory) - 1 : memory[i] # NUL
  BY <1>1, <1>3, <1>4
<1>6. TextAt(memory) = SubSeq(memory, 1, FirstNul(memory) - 1)
  BY DEF TextAt, FirstNul
<1>7. \A len \in Nat : StrNLen(memory, len) = IF len < FirstNul(memory) - 1
                                                THEN len ELSE FirstNul(memory) - 1
  <2> TAKE len \in Nat
  <2> DEFINE n == FirstNul(memory) - 1
  <2>1. StrNLen(memory, len) = Min({len, n})
    BY DEF StrNLen, FirstNul
  <2>2. n \in Nat
    BY <1>4
  <2> HIDE DEF n
  <2>3. Min({len, n}) \in {len, n} /\ Min({len, n}) <= len /\ Min({len, n}) <= n
    BY <2>2, LeastIsThere
  <2>4. Min({len, n}) = IF len < n THEN len ELSE n
    BY <2>2, <2>3
  <2> QED
    BY <2>1, <2>4 DEF n
<1> QED
  BY <1>4, <1>5, <1>6, <1>7

-----------------------------------------------------------------------------
(* A prefix is compared letter by letter, whatever the case of the text. *)
LEMMA PrefixLetters ==
  ASSUME NEW C, NEW t \in Seq(C), NEW x, NEW y, NEW z
  PROVE  /\ HasPrefix(t, <<x, y>>) <=>
              Len(t) >= 2 /\ Upper(t[1]) = x /\ Upper(t[2]) = y
         /\ HasPrefix(t, <<x, y, z>>) <=>
              Len(t) >= 3 /\ Upper(t[1]) = x /\ Upper(t[2]) = y /\ Upper(t[3]) = z
<1>1. /\ Len(<<x, y>>) = 2 /\ <<x, y>>[1] = x /\ <<x, y>>[2] = y
      /\ Len(<<x, y, z>>) = 3 /\ <<x, y, z>>[1] = x /\ <<x, y, z>>[2] = y
      /\ <<x, y, z>>[3] = z
  OBVIOUS
<1>2. 1 .. 2 = {1, 2} /\ 1 .. 3 = {1, 2, 3}
  OBVIOUS
<1> DEFINE two == <<x, y>>
           three == <<x, y, z>>
<1>3. /\ HasPrefix(t, two) <=>
           Len(t) >= Len(two) /\ \A i \in 1 .. Len(two) : Upper(t[i]) = two[i]
      /\ HasPrefix(t, three) <=>
           Len(t) >= Len(three) /\ \A i \in 1 .. Len(three) : Upper(t[i]) = three[i]
  BY DEF HasPrefix
<1>4. /\ Len(two) = 2 /\ two[1] = x /\ two[2] = y
      /\ Len(three) = 3 /\ three[1] = x /\ three[2] = y /\ three[3] = z
  BY <1>1
<1> HIDE DEF two, three
<1>5. HasPrefix(t, two) <=> Len(t) >= 2 /\ Upper(t[1]) = x /\ Upper(t[2]) = y
  BY <1>2, <1>3, <1>4, Zenon
<1>6. HasPrefix(t, three) <=>
        Len(t) >= 3 /\ Upper(t[1]) = x /\ Upper(t[2]) = y /\ Upper(t[3]) = z
  BY <1>2, <1>3, <1>4, Zenon
<1> QED
  BY <1>5, <1>6 DEF two, three

(* The letters a text begins with. *)
Letters(t, x, y) == Len(t) >= 2 /\ Upper(t[1]) = x /\ Upper(t[2]) = y

(* Which entries of the table fit a text. *)
LEMMA MatchingEntries ==
  ASSUME NEW C, NEW t \in Seq(C)
  PROVE  /\ Matching(t) \subseteq 1 .. 12
         /\ 1 \in Matching(t) <=> Letters(t, "S", "K")
         /\ 2 \in Matching(t) <=> Letters(t, "R", "K")
         /\ 3 \in Matching(t) <=> Letters(t, "M", "K")
         /\ 4 \in Matching(t) <=> Letters(t, "R", "P") /\ Len(t) >= 3 /\ Upper(t[3]) = "K"
         /\ 5 \in Matching(t) <=> Letters(t, "P", "K")
         /\ 6 \in Matching(t) <=> Letters(t, "R", "P")
         /\ 7 \in Matching(t) <=> Letters(t, "P", "A")
         /\ 8 \in Matching(t) <=> Letters(t, "P", "I")
         /\ 9 \in Matching(t) <=> Letters(t, "R", "E")
         /\ 10 \in Matching(t) <=> Letters(t, "R", "C")
         /\ 11 \in Matching(t) <=> Letters(t, "D", "B")
         /\ 12 \in Matching(t) <=> Letters(t, "W", "D")
<1>1. /\ DOMAIN ENTRIES = 1 .. 12
      /\ ENTRIES[1] = "SK" /\ ENTRIES[2] = "RK" /\ ENTRIES[3] = "MK" /\ ENTRIES[4] = "RPK"
      /\ ENTRIES[5] = "PK" /\ ENTRIES[6] = "RP" /\ ENTRIES[7] = "PA" /\ ENTRIES[8] = "PI"
      /\ ENTRIES[9] = "RE" /\ ENTRIES[10] = "RC" /\ ENTRIES[11] = "DB"
      /\ ENTRIES[12] = "WD"
  BY DEF ENTRIES
<1>2. /\ Prefix["SK"] = <<"S", "K">> /\ Prefix["RK"] = <<"R", "K">>
      /\ Prefix["MK"] = <<"M", "K">> /\ Prefix["RPK"] = <<"R", "P", "K">>
      /\ Prefix["PK"] = <<"P", "K">> /\ Prefix["RP"] = <<"R", "P">>
      /\ Prefix["PA"] = <<"P", "A">> /\ Prefix["PI"] = <<"P", "I">>
      /\ Prefix["RE"] = <<"R", "E">> /\ Prefix["RC"] = <<"R", "C">>
      /\ Prefix["DB"] = <<"D", "B">> /\ Prefix["WD"] = <<"W", "D">>
  BY DEF Prefix
<1>3. \A i \in 1 .. 12 : i \in Matching(t) <=> HasPrefix(t, Prefix[ENTRIES[i]])
  BY <1>1 DEF Matching
<1>4. Matching(t) \subseteq 1 .. 12
  BY <1>1 DEF Matching
<1>5. \A x, y : HasPrefix(t, <<x, y>>) <=> Letters(t, x, y)
  BY PrefixLetters, Zenon DEF Letters
<1>6. HasPrefix(t, <<"R", "P", "K">>) <=>
        Letters(t, "R", "P") /\ Len(t) >= 3 /\ Upper(t[3]) = "K"
  <2>1. Len(t) >= 3 => Len(t) >= 2
    OBVIOUS
  <2> QED
    BY <2>1, PrefixLetters, Zenon DEF Letters
<1>7. /\ 1 \in Matching(t) <=> HasPrefix(t, Prefix["SK"])
      /\ 2 \in Matching(t) <=> HasPrefix(t, Prefix["RK"])
      /\ 3 \in Matching(t) <=> HasPrefix(t, Prefix["MK"])
      /\ 4 \in Matching(t) <=> HasPrefix(t, Prefix["RPK"])
      /\ 5 \in Matching(t) <=> HasPrefix(t, Prefix["PK"])
      /\ 6 \in Matching(t) <=> HasPrefix(t, Prefix["RP"])
      /\ 7 \in Matching(t) <=> HasPrefix(t, Prefix["PA"])
      /\ 8 \in Matching(t) <=> HasPrefix(t, Prefix["PI"])
      /\ 9 \in Matching(t) <=> HasPrefix(t, Prefix["RE"])
      /\ 10 \in Matching(t) <=> HasPrefix(t, Prefix["RC"])
      /\ 11 \in Matching(t) <=> HasPrefix(t, Prefix["DB"])
      /\ 12 \in Matching(t) <=> HasPrefix(t, Prefix["WD"])
  BY <1>1, <1>3
<1>8. /\ HasPrefix(t, Prefix["SK"]) <=> Letters(t, "S", "K")
      /\ HasPrefix(t, Prefix["RK"]) <=> Letters(t, "R", "K")
      /\ HasPrefix(t, Prefix["MK"]) <=> Letters(t, "M", "K")
      /\ HasPrefix(t, Prefix["PK"]) <=> Letters(t, "P", "K")
      /\ HasPrefix(t, Prefix["RP"]) <=> Letters(t, "R", "P")
      /\ HasPrefix(t, Prefix["PA"]) <=> Letters(t, "P", "A")
      /\ HasPrefix(t, Prefix["PI"]) <=> Letters(t, "P", "I")
      /\ HasPrefix(t, Prefix["RE"]) <=> Letters(t, "R", "E")
      /\ HasPrefix(t, Prefix["RC"]) <=> Letters(t, "R", "C")
      /\ HasPrefix(t, Prefix["DB"]) <=> Letters(t, "D", "B")
      /\ HasPrefix(t, Prefix["WD"]) <=> Letters(t, "W", "D")
      /\ HasPrefix(t, Prefix["RPK"]) <=>
           Letters(t, "R", "P") /\ Len(t) >= 3 /\ Upper(t[3]) = "K"
  BY <1>2, <1>5, <1>6, Zenon
<1> QED
  BY <1>4, <1>7, <1>8

(***************************************************************************)
(* The handler that is found is the one the letters name; the one prefix   *)
(* that contains another stands before it (AduProtocol.c:701-716).         *)
(***************************************************************************)
Names(t, entry) ==
  /\ entry = "SK" => Letters(t, "S", "K")
  /\ entry = "RK" => Letters(t, "R", "K")
  /\ entry = "MK" => Letters(t, "M", "K")
  /\ entry = "RPK" => Letters(t, "R", "P") /\ Len(t) >= 3 /\ Upper(t[3]) = "K"
  /\ entry = "PK" => Letters(t, "P", "K")
  /\ entry = "RP" => Letters(t, "R", "P") /\ ~ (Len(t) >= 3 /\ Upper(t[3]) = "K")
  /\ entry = "PA" => Letters(t, "P", "A")
  /\ entry = "PI" => Letters(t, "P", "I")
  /\ entry = "RE" => Letters(t, "R", "E")
  /\ entry = "RC" => Letters(t, "R", "C")
  /\ entry = "DB" => Letters(t, "D", "B")
  /\ entry = "WD" => Letters(t, "W", "D")

Entries == {"SK", "RK", "MK", "RPK", "PK", "RP", "PA", "PI", "RE", "RC", "DB", "WD"}

(* The search finds the entry that a text names, and no other. *)
LEMMA EntryIsNamed ==
  ASSUME NEW C, NEW t \in Seq(C)
  PROVE  /\ Found(t) => Names(t, Entry(t))
         /\ \A entry \in Entries : Names(t, entry) => Found(t) /\ Entry(t) = entry
<1> DEFINE M == Matching(t)
           min == Min(M)
<1>0. Found(t) <=> M # {}
  BY DEF Found
<1>1. M # {} => min \in M /\ \A i \in M : min <= i
  <2>1. M \in SUBSET Nat
    BY MatchingEntries
  <2> HIDE DEF M
  <2> QED
    BY <2>1, LeastIsThere
<1>2. Entry(t) = ENTRIES[min]
  BY DEF Entry
<1>3. M \subseteq 1 .. 12
  BY MatchingEntries
<1>4. /\ 1 \in M <=> Letters(t, "S", "K")
      /\ 2 \in M <=> Letters(t, "R", "K")
      /\ 3 \in M <=> Letters(t, "M", "K")
      /\ 4 \in M <=> Letters(t, "R", "P") /\ Len(t) >= 3 /\ Upper(t[3]) = "K"
      /\ 5 \in M <=> Letters(t, "P", "K")
      /\ 6 \in M <=> Letters(t, "R", "P")
      /\ 7 \in M <=> Letters(t, "P", "A")
      /\ 8 \in M <=> Letters(t, "P", "I")
      /\ 9 \in M <=> Letters(t, "R", "E")
      /\ 10 \in M <=> Letters(t, "R", "C")
      /\ 11 \in M <=> Letters(t, "D", "B")
      /\ 12 \in M <=> Letters(t, "W", "D")
  BY MatchingEntries
<1>5. /\ ENTRIES[1] = "SK" /\ ENTRIES[2] = "RK" /\ ENTRIES[3] = "MK" /\ ENTRIES[4] = "RPK"
      /\ ENTRIES[5] = "PK" /\ ENTRIES[6] = "RP" /\ ENTRIES[7] = "PA" /\ ENTRIES[8] = "PI"
      /\ ENTRIES[9] = "RE" /\ ENTRIES[10] = "RC" /\ ENTRIES[11] = "DB"
      /\ ENTRIES[12] = "WD"
  BY DEF ENTRIES
<1> HIDE DEF M, min
<1>6. ASSUME M # {} PROVE Names(t, Entry(t))
  <2>1. min \in 1 .. 12 /\ min \in M
    BY <1>1, <1>3, <1>6
  <2>2. min = 6 => ~ (4 \in M)
    BY <1>1, <1>6
  <2> DEFINE rpk == Len(t) >= 3 /\ Upper(t[3]) = "K"
  <2> HIDE DEF rpk
  <2>3. CASE min \in 1 .. 4
    BY <1>2, <1>4, <1>5, <2>1, <2>3 DEF Names, rpk
  <2>4. CASE min \in 5 .. 8
    BY <1>2, <1>4, <1>5, <2>1, <2>2, <2>4 DEF Names, rpk
  <2>5. CASE min \in 9 .. 12
    BY <1>2, <1>4, <1>5, <2>1, <2>5 DEF Names, rpk
  <2> QED
    BY <2>1, <2>3, <2>4, <2>5
<1>7. ASSUME NEW entry \in Entries, Names(t, entry)
      PROVE  M # {} /\ Entry(t) = entry
  <2>1. M # {}
    BY <1>4, <1>7 DEF Names, Entries
  <2> DEFINE e == Entry(t)
             x == Upper(t[1])
             y == Upper(t[2])
             rpk == Len(t) >= 3 /\ Upper(t[3]) = "K"
  <2>2. Names(t, e) /\ Names(t, entry) /\ e \in Entries
    BY <1>0, <1>6, <1>7, <2>1, EntryIsListed DEF Entries
  <2>3. /\ \A f \in {e, entry} :
             /\ f = "SK" => x = "S" /\ y = "K"
             /\ f = "RK" => x = "R" /\ y = "K"
             /\ f = "MK" => x = "M" /\ y = "K"
             /\ f = "RPK" => x = "R" /\ y = "P" /\ rpk
             /\ f = "PK" => x = "P" /\ y = "K"
             /\ f = "RP" => x = "R" /\ y = "P" /\ ~rpk
             /\ f = "PA" => x = "P" /\ y = "A"
             /\ f = "PI" => x = "P" /\ y = "I"
             /\ f = "RE" => x = "R" /\ y = "E"
             /\ f = "RC" => x = "R" /\ y = "C"
             /\ f = "DB" => x = "D" /\ y = "B"
             /\ f = "WD" => x = "W" /\ y = "D"
    BY <2>2, Zenon DEF Names, Letters
  <2> HIDE DEF e, x, y, rpk
  <2>4. e = entry
    BY <2>2, <2>3 DEF Entries
  <2> QED
    BY <2>1, <2>4 DEF e
<1> QED
  BY <1>0, <1>6, <1>7

-----------------------------------------------------------------------------
(* The ten digits and their values. *)
LEMMA DigitValues ==
  /\ \A d \in 0 .. 9 : Digits[d + 1] \in Digit /\ DigitValue(Digits[d + 1]) = d
  /\ \A c \in Digit : DigitValue(c) \in 0 .. 9 /\ Digits[DigitValue(c) + 1] = c
<1>1. /\ DOMAIN Digits = 1 .. 10
      /\ Digits[1] = "0" /\ Digits[2] = "1" /\ Digits[3] = "2" /\ Digits[4] = "3"
      /\ Digits[5] = "4" /\ Digits[6] = "5" /\ Digits[7] = "6" /\ Digits[8] = "7"
      /\ Digits[9] = "8" /\ Digits[10] = "9"
  BY DEF Digits
<1>2. \A d \in 0 .. 9 : d + 1 \in 1 .. 10 /\ Digits[d + 1] \in Digit
  BY <1>1 DEF Digit
<1>3. \A i, j \in 1 .. 10 : Digits[i] = Digits[j] => i = j
  BY <1>1
<1>4. \A d, e \in 0 .. 9 : Digits[d + 1] = Digits[e + 1] => d = e
  <2> TAKE d, e \in 0 .. 9
  <2>1. d + 1 \in 1 .. 10 /\ e + 1 \in 1 .. 10
    OBVIOUS
  <2>2. Digits[d + 1] = Digits[e + 1] => d + 1 = e + 1
    BY <1>3, <2>1
  <2> QED
    BY <2>2
<1>5. ASSUME NEW d \in 0 .. 9 PROVE DigitValue(Digits[d + 1]) = d
  BY <1>4 DEF DigitValue
<1>6. \A c \in Digit : \E d \in 0 .. 9 : c = Digits[d + 1]
  <2> TAKE c \in Digit
  <2>1. PICK i \in 1 .. 10 : c = Digits[i]
    BY <1>1 DEF Digit
  <2>2. i - 1 \in 0 .. 9 /\ (i - 1) + 1 = i
    OBVIOUS
  <2> QED
    BY <2>1, <2>2
<1> QED
  BY <1>2, <1>5, <1>6

(* No letter that toupper yields is a digit, and it leaves digits alone. *)
LEMMA DigitsHaveNoCase ==
  ASSUME NEW c
  PROVE  /\ c \in Digit => Upper(c) = c /\ c \notin {" ", "\t", "+", "-"}
         /\ Upper(c) \in Digit => Upper(c) = c
<1>1. Digit = {"0", "1", "2", "3", "4", "5", "6", "7", "8", "9"}
  <2>1. DOMAIN Digits = 1 .. 10
    BY DEF Digits
  <2> QED
    BY <2>1 DEF Digit, Digits
<1>2. DOMAIN LowerCase = {"s", "k", "r", "m", "p", "a", "b", "i", "e", "c", "d", "w"}
  BY DEF LowerCase
<1>3. c \in DOMAIN LowerCase =>
        LowerCase[c] \in {"S", "K", "R", "M", "P", "A", "B", "I", "E", "C", "D", "W"}
  BY <1>2 DEF LowerCase
<1>4. c \in Digit => c \notin DOMAIN LowerCase
  BY <1>1, <1>2
<1>5. \A l \in {"S", "K", "R", "M", "P", "A", "B", "I", "E", "C", "D", "W"} : l \notin Digit
  BY <1>1
<1>6. c \in Digit => c \notin {" ", "\t", "+", "-"}
  BY <1>1
<1> HIDE DEF Digit, LowerCase
<1> QED
  BY <1>3, <1>4, <1>5, <1>6 DEF Upper

-----------------------------------------------------------------------------
(* Where a skip over some characters ends. *)
LEMMA SkipOverStops ==
  ASSUME NEW C, NEW s \in Seq(C), NEW chars, NEW from \in 1 .. Len(s) + 1
  PROVE  /\ SkipOver(s, chars, from) \in from .. Len(s) + 1
         /\ \A i \in from .. SkipOver(s, chars, from) - 1 : s[i] \in chars
         /\ \/ SkipOver(s, chars, from) = Len(s) + 1
            \/ s[SkipOver(s, chars, from)] \notin chars
<1> DEFINE n == Len(s) + 1
           S == {i \in from .. n : i = n \/ s[i] \notin chars}
           stop == Min(S)
<1>1. SkipOver(s, chars, from) = stop
  BY DEF SkipOver
<1>2. n \in Nat
  OBVIOUS
<1>3. from \in Nat /\ from <= n
  OBVIOUS
<1> HIDE DEF n
<1>4. S \in SUBSET Nat /\ n \in S
  BY <1>2, <1>3
<1>5. stop \in S /\ \A i \in S : stop <= i
  <2> HIDE DEF S
  <2>1. S # {}
    BY <1>4
  <2> QED
    BY <1>4, <2>1, LeastIsThere
<1>6. stop \in from .. n /\ (stop = n \/ s[stop] \notin chars)
  BY <1>5
<1>7. \A i \in from .. stop - 1 : s[i] \in chars
  <2> SUFFICES ASSUME NEW i \in from .. stop - 1, s[i] \notin chars
               PROVE  FALSE
    OBVIOUS
  <2> HIDE DEF stop
  <2>1. i \in from .. n
    BY <1>2, <1>3, <1>6
  <2>2. stop <= i
    BY <1>5, <2>1
  <2> QED
    BY <1>2, <1>3, <1>6, <2>2
<1> QED
  BY <1>1, <1>6, <1>7 DEF n

-----------------------------------------------------------------------------
(* What strtoul makes of the digits it finds. *)
NumberOf(d) == FoldLeft(LAMBDA v, c : 10 * v + DigitValue(c), 0, d)

(* The value of up to three digits, of which those at the positions in s count. *)
Shifted(s, i, v, value) == IF i \in s THEN 10 * v + value ELSE v
Weighed(s, d) ==
  Shifted(s, 3, Shifted(s, 2, Shifted(s, 1, 0, DigitValue(d[1])), DigitValue(d[2])),
          DigitValue(d[3]))

(* The fold over the digits, unrolled. *)
LEMMA NumberOfDigits ==
  ASSUME NEW d \in Seq(Digit), Len(d) \in 1 .. 3
  PROVE  NumberOf(d) = Weighed(1 .. Len(d), d)
<1> DEFINE n == Len(d)
           S == SUBSET (1 .. n)
           IsFold(f) == f = [s \in S |-> IF s = {} THEN 0
                                         ELSE 10 * f[s \ {Max(s)}] + DigitValue(d[Max(s)])]
           fold == CHOOSE f : IsFold(f)
<1>1. DOMAIN d = 1 .. n
  OBVIOUS
<1>2. NumberOf(d) = fold[1 .. n]
  BY <1>1 DEF NumberOf, FoldLeft, MapThenFoldSet
<1>8. n \in Nat /\ (n = 1 \/ n = 2 \/ n = 3)
  OBVIOUS
<1>0. Len(d) = n
  OBVIOUS
<1> HIDE DEF n
<1>14. 1 .. n \subseteq {1, 2, 3}
  BY <1>8
<1>3. \A s \in S : s # {} => Max(s) \in s /\ s \ {Max(s)} \in S
                             /\ Max(s) = IF 3 \in s THEN 3 ELSE IF 2 \in s THEN 2 ELSE 1
  <2> SUFFICES ASSUME NEW s \in S, s # {}
               PROVE  Max(s) \in s /\ s \ {Max(s)} \in S
                      /\ Max(s) = IF 3 \in s THEN 3 ELSE IF 2 \in s THEN 2 ELSE 1
    OBVIOUS
  <2>1. s \subseteq {1, 2, 3}
    BY <1>14
  <2> DEFINE m == IF 3 \in s THEN 3 ELSE IF 2 \in s THEN 2 ELSE 1
  <2>2. m \in s /\ \A i \in s : m >= i
    <3> HIDE DEF S
    <3>1. CASE 3 \in s
      BY <2>1, <3>1
    <3>2. CASE 3 \notin s /\ 2 \in s
      BY <2>1, <3>2
    <3>3. CASE 3 \notin s /\ 2 \notin s
      <4>1. s = {1}
        BY <2>1, <3>3
      <4> QED
        BY <3>3, <4>1
    <3> QED
      BY <3>1, <3>2, <3>3
  <2>3. \A x \in s : (\A i \in s : x >= i) => x = m
    BY <2>1, <2>2
  <2> HIDE DEF m
  <2>4. Max(s) = m
    BY <2>2, <2>3 DEF Max
  <2> QED
    BY <2>2, <2>4 DEF m
<1>4. \A s \in S : s # {} =>
        Weighed(s, d) = 10 * Weighed(s \ {Max(s)}, d) + DigitValue(d[Max(s)])
  <2> SUFFICES ASSUME NEW s \in S, s # {}
               PROVE  Weighed(s, d) = 10 * Weighed(s \ {Max(s)}, d) + DigitValue(d[Max(s)])
    OBVIOUS
  <2> DEFINE m == Max(s)
             v(i) == DigitValue(d[i])
  <2>1. m \in s /\ m = IF 3 \in s THEN 3 ELSE IF 2 \in s THEN 2 ELSE 1
    BY <1>3
  <2> HIDE DEF m, S, n
  <2> HIDE DEF v
  <2>2. \A r : Weighed(r, d)
                 = Shifted(r, 3, Shifted(r, 2, Shifted(r, 1, 0, v(1)), v(2)), v(3))
    BY DEF Weighed, v
  <2>3. Weighed(s, d) = 10 * Weighed(s \ {m}, d) + v(m)
    <3>1. CASE m = 3
      BY <2>1, <2>2, <3>1 DEF Shifted
    <3>2. CASE m = 2
      BY <2>1, <2>2, <3>2 DEF Shifted
    <3>3. CASE m = 1
      BY <2>1, <2>2, <3>3 DEF Shifted
    <3> QED
      BY <2>1, <3>1, <3>2, <3>3
  <2> QED
    BY <2>3 DEF m, v
<1>5. Weighed({}, d) = 0
  BY DEF Weighed, Shifted
<1>6. IsFold(fold)
  <2>1. IsFold([s \in S |-> Weighed(s, d)])
    BY <1>3, <1>4, <1>5
  <2> QED
    BY <2>1
<1>7. /\ fold[{}] = 0
      /\ \A s \in S : s # {} => fold[s] = 10 * fold[s \ {Max(s)}] + DigitValue(d[Max(s)])
  BY <1>6
<1> HIDE DEF fold
<1>9. ASSUME NEW k \in Nat, k > 0, k <= n, fold[1 .. k - 1] = Weighed(1 .. k - 1, d)
      PROVE  fold[1 .. k] = Weighed(1 .. k, d)
  <2>1. k \in {1, 2, 3}
    BY <1>8, <1>9
  <2> DEFINE s == 1 .. k
  <2>2. s \in S /\ k \in s /\ s # {} /\ \A i \in s : i \in 1 .. 3 /\ i <= k
    <3>1. s \subseteq 1 .. n
      BY <1>8, <1>9
    <3>2. k \in s /\ \A i \in s : i \in 1 .. 3 /\ i <= k
      BY <1>8, <1>9
    <3> QED
      BY <3>1, <3>2
  <2>3. Max(s) = k
    <3> HIDE DEF s, S
    <3>1. Max(s) = IF 3 \in s THEN 3 ELSE IF 2 \in s THEN 2 ELSE 1
      BY <1>3, <2>2
    <3>2. CASE k = 3
      BY <2>2, <3>1, <3>2
    <3>3. CASE k = 2
      BY <2>2, <3>1, <3>3
    <3>4. CASE k = 1
      BY <2>2, <3>1, <3>4
    <3> QED
      BY <2>1, <3>2, <3>3, <3>4
  <2>4. s \ {k} = 1 .. k - 1
    BY <1>9
  <2> HIDE DEF s, S
  <2> QED
    <3>1. /\ Weighed(s, d) = 10 * Weighed(1 .. k - 1, d) + DigitValue(d[k])
          /\ fold[s] = 10 * fold[1 .. k - 1] + DigitValue(d[k])
      BY <1>4, <1>7, <2>2, <2>3, <2>4, Zenon
    <3> QED
      BY <1>9, <3>1, Zenon DEF s
<1>15. 1 \in Nat /\ 2 \in Nat /\ 3 \in Nat /\ 1 > 0 /\ 2 > 0 /\ 3 > 0
       /\ 1 - 1 = 0 /\ 2 - 1 = 1 /\ 3 - 1 = 2 /\ 1 .. 0 = {}
  OBVIOUS
<1>10. fold[1 .. 0] = Weighed(1 .. 0, d)
  BY <1>5, <1>7, <1>15
<1>11. fold[1 .. 1] = Weighed(1 .. 1, d)
  <2>1. 1 <= n
    BY <1>8
  <2> QED
    BY <1>9, <1>10, <1>15, <2>1, Zenon
<1>12. 2 <= n => fold[1 .. 2] = Weighed(1 .. 2, d)
  BY <1>9, <1>11, <1>15, Zenon
<1>13. n = 3 => fold[1 .. 3] = Weighed(1 .. 3, d)
  <2>1. n = 3 => 2 <= n /\ 3 <= n
    BY <1>8
  <2> QED
    BY <1>9, <1>12, <1>15, <2>1, Zenon
<1>16. n = 2 => 2 <= n
  OBVIOUS
<1> QED
  BY <1>0, <1>2, <1>8, <1>11, <1>12, <1>13, <1>16

(* That is a sum of digits and powers of ten. *)
IsSum(d, n, sum) ==
  /\ \A i \in 1 .. n : d[i] \in Digit /\ DigitValue(d[i]) \in 0 .. 9
  /\ n = 1 => sum = DigitValue(d[1])
  /\ n = 2 => sum = 10 * DigitValue(d[1]) + DigitValue(d[2])
  /\ n = 3 => sum = 100 * DigitValue(d[1]) + 10 * DigitValue(d[2]) + DigitValue(d[3])
  /\ sum \in Nat /\ sum <= 999

(* Of up to three, which is what MK allows (AduProtocol.c:425). *)
LEMMA NumberIsSum ==
  ASSUME NEW d \in Seq(Digit), NEW n, n = Len(d), n \in 1 .. 3
  PROVE  IsSum(d, n, NumberOf(d))
<1> DEFINE v(i) == DigitValue(d[i])
<1>1. \A i \in 1 .. n : d[i] \in Digit
  OBVIOUS
<1>2. \A i \in 1 .. n : v(i) \in 0 .. 9
  BY <1>1, DigitValues
<1>3. NumberOf(d) = Weighed(1 .. n, d)
  BY NumberOfDigits
<1>4. Weighed(1 .. n, d)
        = Shifted(1 .. n, 3, Shifted(1 .. n, 2, Shifted(1 .. n, 1, 0, v(1)), v(2)), v(3))
  BY DEF Weighed
<1> HIDE DEF v
<1>5. n = 1 => NumberOf(d) = v(1)
  <2> SUFFICES ASSUME n = 1 PROVE NumberOf(d) = v(1)
    OBVIOUS
  <2>1. v(1) \in 0 .. 9
    BY <1>2
  <2>2. 1 \in 1 .. 1 /\ 2 \notin 1 .. 1 /\ 3 \notin 1 .. 1
    OBVIOUS
  <2> QED
    BY <1>3, <1>4, <2>1, <2>2 DEF Shifted
<1>6. n = 2 => NumberOf(d) = 10 * v(1) + v(2)
  <2> SUFFICES ASSUME n = 2 PROVE NumberOf(d) = 10 * v(1) + v(2)
    OBVIOUS
  <2>1. v(1) \in 0 .. 9 /\ v(2) \in 0 .. 9
    BY <1>2
  <2>2. 1 \in 1 .. 2 /\ 2 \in 1 .. 2 /\ 3 \notin 1 .. 2
    OBVIOUS
  <2> QED
    BY <1>3, <1>4, <2>1, <2>2 DEF Shifted
<1>7. n = 3 => NumberOf(d) = 100 * v(1) + 10 * v(2) + v(3)
  <2> SUFFICES ASSUME n = 3 PROVE NumberOf(d) = 100 * v(1) + 10 * v(2) + v(3)
    OBVIOUS
  <2>1. v(1) \in 0 .. 9 /\ v(2) \in 0 .. 9 /\ v(3) \in 0 .. 9
    BY <1>2
  <2>2. 1 \in 1 .. 3 /\ 2 \in 1 .. 3 /\ 3 \in 1 .. 3
    OBVIOUS
  <2> QED
    BY <1>3, <1>4, <2>1, <2>2, SMTT(30) DEF Shifted
<1>8. NumberOf(d) \in Nat /\ NumberOf(d) <= 999
  <2>1. CASE n = 1
    <3>1. v(1) \in 0 .. 9
      BY <1>2, <2>1
    <3> QED
      BY <1>5, <2>1, <3>1
  <2>2. CASE n = 2
    <3>1. v(1) \in 0 .. 9 /\ v(2) \in 0 .. 9
      BY <1>2, <2>2
    <3> QED
      BY <1>6, <2>2, <3>1, SMTT(30)
  <2>3. CASE n = 3
    <3>1. v(1) \in 0 .. 9 /\ v(2) \in 0 .. 9 /\ v(3) \in 0 .. 9
      BY <1>2, <2>3
    <3>2. \A a, b, c \in Nat : a <= 9 /\ b <= 9 /\ c <= 9
            => 100 * a + 10 * b + c \in Nat /\ 100 * a + 10 * b + c <= 999
      OBVIOUS
    <3>3. /\ v(1) \in Nat /\ v(2) \in Nat /\ v(3) \in Nat
          /\ v(1) <= 9 /\ v(2) <= 9 /\ v(3) <= 9
      BY <3>1
    <3> QED
      BY <1>7, <2>3, <3>2, <3>3
  <2> QED
    BY <2>1, <2>2, <2>3
<1> QED
  BY <1>1, <1>2, <1>5, <1>6, <1>7, <1>8 DEF IsSum, v

-----------------------------------------------------------------------------
(* What strtoul makes of a text: where its sign, its digits and its rest begin. *)
Blank == {" ", "\t"}
SignAt(s) == SkipOver(s, Blank, 1)
FirstAt(s) ==
  IF SignAt(s) <= Len(s) /\ s[SignAt(s)] \in {"+", "-"} THEN SignAt(s) + 1 ELSE SignAt(s)
StopAt(s) == SkipOver(s, Digit, FirstAt(s))
NumberAt(s) == NumberOf(SubSeq(s, FirstAt(s), StopAt(s) - 1))

(* Nothing before k but white space and, just before it, at most a sign. *)
Skipped(s, from, k) ==
  \A i \in from .. k - 1 : s[i] \in Blank \/ (i = k - 1 /\ s[i] \in {"+", "-"})

(***************************************************************************)
(* Up to the digits no character is one; the conversion is complete if     *)
(* nothing follows them, and without one the value is 0.                   *)
(***************************************************************************)
LEMMA Conversion ==
  ASSUME NEW C, NEW s \in Seq(C)
  PROVE  /\ SignAt(s) \in 1 .. Len(s) + 1
         /\ FirstAt(s) \in 1 .. Len(s) + 1
         /\ StopAt(s) \in FirstAt(s) .. Len(s) + 1
         /\ Skipped(s, 1, FirstAt(s))
         /\ \A i \in 1 .. FirstAt(s) - 1 : s[i] \notin Digit
         /\ \A i \in FirstAt(s) .. StopAt(s) - 1 : s[i] \in Digit
         /\ StopAt(s) = Len(s) + 1 \/ s[StopAt(s)] \notin Digit
         /\ Converted(s) <=> IF StopAt(s) = FirstAt(s) THEN Len(s) = 0
                                                       ELSE StopAt(s) = Len(s) + 1
         /\ Value(s) = IF StopAt(s) = FirstAt(s) THEN 0
                       ELSE IF FirstAt(s) > SignAt(s) /\ s[SignAt(s)] = "-"
                              THEN (UlongMod - NumberAt(s)) % UlongMod ELSE NumberAt(s)
<1> DEFINE n == Len(s)
           sign == SignAt(s)
           first == FirstAt(s)
           stop == StopAt(s)
<1>1. n \in Nat
  OBVIOUS
<1>2. 1 \in 1 .. n + 1
  BY <1>1
<1>3. /\ sign \in 1 .. n + 1
      /\ \A i \in 1 .. sign - 1 : s[i] \in Blank
  BY <1>2, SkipOverStops DEF SignAt
<1>4. first = IF sign <= n /\ s[sign] \in {"+", "-"} THEN sign + 1 ELSE sign
  BY DEF FirstAt
<1>5. first \in 1 .. n + 1
  <2> HIDE DEF n, sign, first
  <2>1. first = sign \/ (sign <= n /\ first = sign + 1)
    BY <1>4
  <2> QED
    BY <1>1, <1>3, <2>1
<1>6. /\ stop \in first .. n + 1
      /\ \A i \in first .. stop - 1 : s[i] \in Digit
      /\ stop = n + 1 \/ s[stop] \notin Digit
  BY <1>5, SkipOverStops DEF StopAt
<1>7. ASSUME NEW i \in 1 .. first - 1
      PROVE  /\ s[i] \in Blank \/ (i = first - 1 /\ s[i] \in {"+", "-"})
             /\ s[i] \notin Digit
  <2> HIDE DEF n, sign, first
  <2>1. i \in 1 .. sign - 1 \/ (i = sign /\ i = first - 1 /\ s[sign] \in {"+", "-"})
    <3>1. first = sign \/ (s[sign] \in {"+", "-"} /\ first = sign + 1)
      BY <1>4
    <3>2. first = sign + 1 => i \in 1 .. sign - 1 \/ i = sign
      BY <1>3
    <3>3. first = sign => i \in 1 .. sign - 1
      BY <1>3
    <3> QED
      BY <1>3, <3>1, <3>2, <3>3
  <2>2. s[i] \in Blank \/ (i = first - 1 /\ s[i] \in {"+", "-"})
    BY <1>3, <2>1
  <2> QED
    BY <2>2, DigitsHaveNoCase, Zenon DEF Blank
<1>8. StrToUL(s) = IF stop = first THEN [value |-> 0, endptr |-> 1]
                   ELSE [value |-> IF first > sign /\ s[sign] = "-"
                                     THEN (UlongMod - NumberAt(s)) % UlongMod
                                     ELSE NumberAt(s),
                         endptr |-> stop]
  BY DEF StrToUL, NumberAt, NumberOf, SignAt, FirstAt, StopAt, Blank
<1> HIDE DEF sign, first, stop
<1>9. /\ Converted(s) <=> IF stop = first THEN 1 = n + 1 ELSE stop = n + 1
      /\ Value(s) = IF stop = first THEN 0
                    ELSE IF first > sign /\ s[sign] = "-"
                           THEN (UlongMod - NumberAt(s)) % UlongMod ELSE NumberAt(s)
  BY <1>8 DEF Converted, Value
<1>10. 1 = n + 1 <=> n = 0
  BY <1>1
<1> QED
  BY <1>3, <1>5, <1>6, <1>7, <1>9, <1>10 DEF n, sign, first, stop, Skipped

(* Digits alone are converted to the number they stand for. *)
LEMMA DigitsConvert ==
  ASSUME NEW s \in Seq(Digit), NEW n, n = Len(s), n \in 1 .. 3
  PROVE  Converted(s) /\ Value(s) = NumberOf(s)
<1> DEFINE sign == SignAt(s)
           first == FirstAt(s)
           stop == StopAt(s)
<1>1. n \in Nat /\ n > 0
  OBVIOUS
<1>2. /\ sign \in 1 .. n + 1 /\ first \in 1 .. n + 1 /\ stop \in first .. n + 1
      /\ \A i \in 1 .. first - 1 : s[i] \notin Digit
      /\ stop = n + 1 \/ s[stop] \notin Digit
      /\ Converted(s) <=> IF stop = first THEN n = 0 ELSE stop = n + 1
      /\ Value(s) = IF stop = first THEN 0
                    ELSE IF first > sign /\ s[sign] = "-"
                           THEN (UlongMod - NumberAt(s)) % UlongMod ELSE NumberAt(s)
  BY Conversion
<1>3. \A i \in 1 .. n : s[i] \in Digit
  OBVIOUS
<1>4. NumberAt(s) = NumberOf(SubSeq(s, first, stop - 1))
  BY DEF NumberAt
<1> HIDE DEF sign, first, stop
<1>5. first = 1
  <2> SUFFICES ASSUME first # 1 PROVE FALSE
    OBVIOUS
  <2>1. 1 \in 1 .. first - 1 /\ 1 \in 1 .. n
    BY <1>1, <1>2
  <2> QED
    BY <1>2, <1>3, <2>1
<1>6. stop = n + 1
  <2> SUFFICES ASSUME stop # n + 1 PROVE FALSE
    OBVIOUS
  <2>1. stop \in 1 .. n
    BY <1>1, <1>2, <1>5
  <2> QED
    BY <1>2, <1>3, <2>1
<1>7. stop # first /\ ~ (first > sign)
  BY <1>1, <1>2, <1>5, <1>6
<1>8. SubSeq(s, first, stop - 1) = s
  <2>1. stop - 1 = Len(s)
    BY <1>1, <1>6
  <2> QED
    BY <1>5, <2>1, SubSeqFull, Zenon
<1> QED
  BY <1>2, <1>4, <1>6, <1>7, <1>8, Zenon

(***************************************************************************)
(* What is converted to a port's value ends in the digits of that value;   *)
(* behind a minus that is 0, for any other wraps to far above a port       *)
(* (AduProtocol.c:425-434).                                                *)
(***************************************************************************)
LEMMA ConvertedSuffix ==
  ASSUME NEW C, NEW s \in Seq(C), NEW n \in Nat, n = Len(s), n <= 3,
         Converted(s), Value(s) \in 0 .. UINT8_MAX
  PROVE  \/ n = 0 /\ Value(s) = 0
         \/ \E k \in 1 .. n :
              /\ Skipped(s, 1, k)
              /\ SubSeq(s, k, n) \in Seq(Digit) /\ Len(SubSeq(s, k, n)) = n + 1 - k
              /\ Value(s) = NumberOf(SubSeq(s, k, n))
<1> DEFINE sign == SignAt(s)
           first == FirstAt(s)
           stop == StopAt(s)
           d == SubSeq(s, first, n)
<1>1. n \in Nat /\ n <= 3
  OBVIOUS
<1>2. /\ sign \in 1 .. n + 1 /\ first \in 1 .. n + 1 /\ stop \in first .. n + 1
      /\ Skipped(s, 1, first)
      /\ \A i \in first .. stop - 1 : s[i] \in Digit
      /\ IF stop = first THEN n = 0 ELSE stop = n + 1
      /\ Value(s) = IF stop = first THEN 0
                    ELSE IF first > sign /\ s[sign] = "-"
                           THEN (UlongMod - NumberAt(s)) % UlongMod ELSE NumberAt(s)
  BY Conversion
<1>3. NumberAt(s) = NumberOf(SubSeq(s, first, stop - 1))
  BY DEF NumberAt
<1> HIDE DEF sign, first, stop
<1>4. stop = n + 1
  BY <1>1, <1>2
<1>5. d \in Seq(Digit) /\ Len(d) = n + 1 - first
  <2>1. \A i \in first .. n : s[i] \in Digit
    BY <1>1, <1>2, <1>4
  <2>2. first \in Int /\ n \in Int
    BY <1>1, <1>2
  <2>3. d \in Seq(Digit) /\ Len(d) = IF first <= n THEN n - first + 1 ELSE 0
    BY <2>1, <2>2, SubSeqProperties
  <2> HIDE DEF d
  <2> QED
    BY <1>1, <1>2, <2>3
<1>6. NumberAt(s) = NumberOf(d)
  <2>1. stop - 1 = n
    BY <1>1, <1>4
  <2> QED
    BY <1>3, <2>1
<1> HIDE DEF d
<1>7. CASE first = n + 1
  BY <1>2, <1>4, <1>7
<1>8. CASE first # n + 1
  <2>1. Len(d) \in 1 .. 3
    BY <1>1, <1>2, <1>5, <1>8
  <2>2. NumberOf(d) \in Nat /\ NumberOf(d) <= 999
    BY <1>5, <2>1, NumberIsSum DEF IsSum
  <2>3. Value(s) = NumberOf(d)
    <3>1. CASE first > sign /\ s[sign] = "-"
      <4> DEFINE N == NumberOf(d)
      <4>1. Value(s) = (UlongMod - N) % UlongMod
        BY <1>2, <1>4, <1>6, <1>8, <3>1
      <4>2. UlongMod \in Nat /\ UINT8_MAX \in Nat /\ UlongMod > 999 + UINT8_MAX
        BY AduCommandAssumption
      <4>3. N \in Nat /\ N <= 999
        BY <2>2
      <4> HIDE DEF N
      <4>4. CASE N = 0
        <5>1. UlongMod % UlongMod = 0
          BY <4>2
        <5>2. UlongMod - 0 = UlongMod
          BY <4>2
        <5> QED
          BY <4>1, <4>4, <5>1, <5>2 DEF N
      <4>5. CASE N # 0
        <5>1. (UlongMod - N) % UlongMod = UlongMod - N
          BY <4>2, <4>3, <4>5
        <5> QED
          BY <4>1, <4>2, <4>3, <5>1
      <4> QED
        BY <4>4, <4>5
    <3>2. CASE ~ (first > sign /\ s[sign] = "-")
      BY <1>2, <1>4, <1>6, <1>8, <3>2
    <3> QED
      BY <3>1, <3>2
  <2>4. first \in 1 .. n
    BY <1>1, <1>2, <1>8
  <2> QED
    BY <1>2, <1>5, <2>3, <2>4 DEF d
<1> QED
  BY <1>7, <1>8

(* One character is converted if it is a digit, and is else taken for 0. *)
LEMMA OneCharacter ==
  ASSUME NEW C, NEW s \in Seq(C), Len(s) = 1
  PROVE  /\ s[1] \in Digit => Converted(s) /\ Value(s) = DigitValue(s[1])
         /\ s[1] \notin Digit => ~Converted(s) /\ Value(s) = 0
<1>1. ASSUME s[1] \in Digit PROVE Converted(s) /\ Value(s) = DigitValue(s[1])
  <2>1. s \in Seq(Digit)
    BY <1>1
  <2>2. 1 \in 1 .. 3
    OBVIOUS
  <2>3. Converted(s) /\ Value(s) = NumberOf(s)
    BY <2>1, <2>2, DigitsConvert
  <2>4. NumberOf(s) = DigitValue(s[1])
    BY <2>1, <2>2, NumberIsSum DEF IsSum
  <2> QED
    BY <2>3, <2>4
<1>2. ASSUME s[1] \notin Digit PROVE ~Converted(s) /\ Value(s) = 0
  <2> DEFINE first == FirstAt(s)
             stop == StopAt(s)
  <2>1. /\ first \in 1 .. 2 /\ stop \in first .. 2
        /\ \A i \in first .. stop - 1 : s[i] \in Digit
        /\ Converted(s) <=> IF stop = first THEN Len(s) = 0 ELSE stop = Len(s) + 1
        /\ stop = first => Value(s) = 0
    <3>1. Len(s) + 1 = 2
      OBVIOUS
    <3> QED
      BY <3>1, Conversion
  <2> HIDE DEF first, stop
  <2>2. stop = first
    <3> SUFFICES ASSUME stop # first PROVE FALSE
      OBVIOUS
    <3>1. 1 \in first .. stop - 1
      BY <2>1
    <3> QED
      BY <1>2, <2>1, <3>1
  <2> QED
    BY <2>1, <2>2
<1> QED
  BY <1>1, <1>2

=============================================================================
