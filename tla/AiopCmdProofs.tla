--------------------------- MODULE AiopCmdProofs ----------------------------
(***************************************************************************)
(* Proofs about AiopCmd, for every command line: words of every kind, in    *)
(* every number and order.  The loop over the options goes from one start   *)
(* to the next (Reads); what it left in gvars is told, at every round, by   *)
(* the options it has read so far (Told), and at the end by all of them.    *)
(***************************************************************************)
EXTENDS AiopCmd, FiniteSetTheorems, TLAPS

\* The tests of the handlers, told over the whole line: what the parser lets
\* through, which Meanings compares with what is meant to work.
Passes ==
  /\ argv # <<>> /\ argv[1] \in Commands \ {"help"}
  /\ \A i \in DOMAIN argv : ~Word(i).help
  /\ \A i \in OptionPlaces :
       /\ Word(i).opt \in ValidArgs(argv[1])
       /\ Word(i).opt \in WithValue => i < Len(argv)
       /\ Word(i).opt \in {"f", "a"} => PathAccepted(ValueAt(i))
  /\ argv[1] = "load" => Given("f")
  /\ argv[1] = "settod" => \E i \in Places("t") : WholeNumber(ValueAt(i))

-----------------------------------------------------------------------------
(* Where options start                                                      *)

\* A non-empty set of numbers up to m has a greatest element, and Max is it.
LEMMA MaxIsGreatest ==
  \A m \in Nat : \A T \in SUBSET (1..m) :
     T # {} => Max(T) \in T /\ \A y \in T : y <= Max(T)
<1> SUFFICES ASSUME NEW m \in Nat, NEW T \in SUBSET (1..m), T # {}
             PROVE  Max(T) \in T /\ \A y \in T : y <= Max(T)
  OBVIOUS
<1> DEFINE From == {x..m : x \in T}
<1>1. From \subseteq FiniteSubsetsOf(Nat) /\ From # {}
  <2>1. ASSUME NEW x \in T
        PROVE  x..m \in SUBSET Nat /\ IsFiniteSet(x..m)
    BY FS_Interval
  <2> QED BY <2>1 DEF FiniteSubsetsOf
<1>2. PICK s \in From : \A t \in From : <<t, s>> \notin StrictSubsetOrdering(Nat)
  BY <1>1, FS_StrictSubsetOrderingWellFounded, WFMin
<1>3. PICK x \in T : s = x..m
  BY <1>2
<1>4. ASSUME NEW y \in T
      PROVE  x >= y
  <2>1. SUFFICES ASSUME y > x
                 PROVE  FALSE
    OBVIOUS
  <2>2. y..m \in From /\ y..m \in SUBSET Nat /\ s \in SUBSET Nat
    BY <1>3
  <2>3. y..m \subseteq s /\ y..m # s
    BY <1>3, <2>1
  <2> QED BY <1>2, <2>2, <2>3 DEF StrictSubsetOrdering
<1> QED BY <1>4 DEF Max

\* An element above all others is the greatest.
LEMMA MaxOfLast ==
  \A p \in Int : \A T \in SUBSET Int : (\A y \in T : y < p) => Max(T \cup {p}) = p
<1>1. ASSUME NEW p \in Int, NEW T \in SUBSET Int, \A y \in T : y < p
      PROVE  Max(T \cup {p}) = p
  <2>1. \A x \in T \cup {p} : (\A y \in T \cup {p} : x >= y) <=> x = p
    BY <1>1
  <2> QED BY <2>1 DEF Max
<1> QED BY <1>1

\* How the number of words before a place goes on.
LEMMA Runs ==
  /\ RunBefore(2) = 0
  /\ \A i \in Nat \ {0, 1} :
       /\ RunBefore(i) \in Int
       /\ Word(i).opt \notin WithValue => RunBefore(i + 1) = 0
       /\ Word(i).opt \in WithValue => RunBefore(i + 1) = RunBefore(i) + 1
<1> DEFINE others(i) == {k \in 2..(i - 1) : Word(k).opt \notin WithValue}
<1>1. RunBefore(2) = 0
  <2>1. others(2) = {}
    OBVIOUS
  <2>2. Max({1}) = 1
    BY DEF Max
  <2> QED BY <2>1, <2>2 DEF RunBefore
<1>2. ASSUME NEW i \in Nat \ {0, 1}
      PROVE  /\ RunBefore(i) \in Int
             /\ Word(i).opt \notin WithValue => RunBefore(i + 1) = 0
             /\ Word(i).opt \in WithValue => RunBefore(i + 1) = RunBefore(i) + 1
  <2> DEFINE S == {1} \cup others(i)
  <2>1. i \in Nat /\ i - 1 \in Nat /\ i >= 2
    OBVIOUS
  <2>2. S \subseteq 1..(i - 1) /\ S # {}
    BY <2>1
  <2>3. RunBefore(i) = i - 1 - Max(S)
    BY Zenon DEF RunBefore
  <2>4. RunBefore(i + 1) = (i + 1) - 1 - Max({1} \cup others(i + 1))
    BY Zenon DEF RunBefore
  <2>5. Word(i).opt \notin WithValue => {1} \cup others(i + 1) = S \cup {i}
    BY <2>1
  <2>6. Word(i).opt \in WithValue => {1} \cup others(i + 1) = S
    BY <2>1
  <2> HIDE DEF S, others
  <2>7. Max(S) \in Int
    <3>1. Max(S) \in S
      BY <2>1, <2>2, MaxIsGreatest
    <3>2. S \subseteq Int
      BY <2>1, <2>2
    <3> QED BY <3>1, <3>2, Zenon
  <2>8. Max(S \cup {i}) = i
    <3>1. S \in SUBSET Int /\ \A y \in S : y < i
      BY <2>1, <2>2
    <3> QED BY <3>1, <2>1, MaxOfLast
  <2> QED BY <2>1, <2>3, <2>4, <2>5, <2>6, <2>7, <2>8
<1> QED BY <1>1, <1>2

\* The first option may stand right behind the sub-command.
Seen(p) == {i \in Starts : i < p}

LEMMA Opening ==
  ASSUME argv \in Seq(Words), argv # <<>>
  PROVE  2 \in Starts /\ Seen(2) = {}
<1>1. Len(argv) \in Nat /\ Len(argv) >= 1
  OBVIOUS
<1>2. Aligned(2)
  BY Runs DEF Aligned
<1>3. 2 \in Starts
  BY <1>1, <1>2 DEF Starts
<1>4. \A i \in Starts : i \in Int /\ i >= 2
  BY <1>1 DEF Starts
<1> QED BY <1>3, <1>4 DEF Seen

\* What it is to be a start.
LEMMA AtStart ==
  ASSUME argv \in Seq(Words), NEW p \in Starts
  PROVE  /\ p \in Nat /\ 2 <= p /\ p <= Len(argv) + 1
         /\ Aligned(p)
         /\ \A k \in 2..(p - 1) : Aligned(k) => Word(k).opt \in Letters
BY DEF Starts

\* Behind an option without a value, the next word may be an option.
LEMMA OnFlag ==
  ASSUME argv \in Seq(Words), NEW p \in Starts, p <= Len(argv),
         Word(p).opt \in Letters \ WithValue
  PROVE  p + 1 \in Starts /\ Seen(p + 1) = Seen(p) \cup {p}
<1>1. Aligned(p + 1)
  BY AtStart, Runs DEF Aligned
<1>2. p + 1 \in Starts
  <2>1. p + 1 \in 2..(Len(argv) + 1)
    BY AtStart
  <2>2. \A k \in 2..((p + 1) - 1) : Aligned(k) => Word(k).opt \in Letters
    BY AtStart
  <2> QED BY <1>1, <2>1, <2>2 DEF Starts
<1>3. \A i \in Starts : i \in Int
  BY AtStart
<1>4. \A i \in Starts : i < p + 1 <=> i < p \/ i = p
  BY <1>3, AtStart
<1> QED BY <1>2, <1>4 DEF Seen

\* Behind an option with a value, the word behind the value may be one; the
\* value itself may not.
LEMMA OnValue ==
  ASSUME argv \in Seq(Words), NEW p \in Starts, p < Len(argv),
         Word(p).opt \in WithValue
  PROVE  p + 2 \in Starts /\ Seen(p + 2) = Seen(p) \cup {p}
<1>1. p \in Nat /\ p >= 2 /\ Aligned(p)
  BY AtStart
<1>2. RunBefore(p) \in Int /\ RunBefore(p) % 2 = 0 /\ RunBefore(p + 1) = RunBefore(p) + 1
  BY <1>1, Runs DEF Aligned
<1>3. ~Aligned(p + 1)
  BY <1>2 DEF Aligned
<1>4. RunBefore(p + 2) = 0 \/ RunBefore(p + 2) = RunBefore(p) + 2
  <2>1. (p + 1) + 1 = p + 2 /\ p + 1 \in Nat \ {0, 1}
    BY <1>1
  <2>2. Word(p + 1).opt \notin WithValue => RunBefore(p + 2) = 0
    BY <2>1, Runs
  <2>3. Word(p + 1).opt \in WithValue => RunBefore(p + 2) = RunBefore(p + 1) + 1
    BY <2>1, Runs
  <2> QED BY <1>2, <2>2, <2>3
<1>5. Aligned(p + 2)
  BY <1>2, <1>4 DEF Aligned
<1>6. p + 2 \in Starts
  <2>1. p + 2 \in 2..(Len(argv) + 1)
    BY <1>1
  <2>2. \A k \in 2..((p + 2) - 1) : k \in 2..(p - 1) \/ k = p \/ k = p + 1
    BY <1>1
  <2>3. Word(p).opt \in Letters
    BY DEF Letters
  <2>4. \A k \in 2..((p + 2) - 1) : Aligned(k) => Word(k).opt \in Letters
    BY <1>3, <2>2, <2>3, AtStart
  <2> QED BY <1>5, <2>1, <2>4 DEF Starts
<1>7. \A i \in Starts : i \in Int /\ i # p + 1
  BY <1>3, AtStart
<1>8. \A i \in Starts : i < p + 2 <=> i < p \/ i = p
  BY <1>1, <1>7
<1> QED BY <1>6, <1>8 DEF Seen

\* Where no option starts, all options have been seen.
LEMMA AtEnd ==
  ASSUME argv \in Seq(Words), NEW p \in Starts,
         p > Len(argv) \/ Word(p).opt = "none"
  PROVE  OptionPlaces = Seen(p)
<1>1. p \in Nat /\ p >= 2 /\ p <= Len(argv) + 1 /\ Aligned(p) /\ Len(argv) \in Nat
  BY AtStart
<1>2. "none" \notin Letters
  BY DEF Letters, WithValue
<1>3. ASSUME NEW i \in OptionPlaces
      PROVE  i \in Starts /\ i < p
  <2>1. i \in Starts /\ i \in DOMAIN argv /\ Word(i).opt # "none"
    BY DEF OptionPlaces
  <2>2. i # p
    BY <2>1, <1>1
  <2>3. i \in Nat /\ i <= Len(argv)
    BY <2>1
  <2>4. CASE i > p
    <3>1. p \in 2..(i - 1)
      BY <1>1, <2>3, <2>4
    <3>2. Word(p).opt \in Letters
      BY <1>1, <2>1, <3>1, AtStart
    <3> QED BY <1>1, <1>2, <2>3, <2>4, <3>2
  <2> QED BY <1>1, <2>1, <2>2, <2>3, <2>4
<1>4. ASSUME NEW i \in Starts, i < p
      PROVE  i \in OptionPlaces
  <2>1. i \in Nat /\ i >= 2 /\ Aligned(i)
    BY AtStart
  <2>2. i \in 2..(p - 1) /\ i \in DOMAIN argv
    BY <1>1, <1>4, <2>1
  <2>3. Word(i).opt \in Letters
    BY <2>1, <2>2, AtStart
  <2> QED BY <1>2, <2>2, <2>3 DEF OptionPlaces
<1> QED BY <1>3, <1>4 DEF Seen

\* With the command line, the places of its options stay.
LEMMA LineStays ==
  ASSUME UNCHANGED argv
  PROVE  Starts' = Starts /\ OptionPlaces' = OptionPlaces /\ (Passes' <=> Passes)
<1>1. \A i : RunBefore(i)' = RunBefore(i)
  BY DEF RunBefore, Word
<1>2. \A i : Aligned(i)' <=> Aligned(i)
  BY DEF RunBefore, Word, Aligned
<1>3. Starts' = Starts
  BY DEF RunBefore, Word, Aligned, Starts
<1>4. OptionPlaces' = OptionPlaces
  BY <1>3 DEF OptionPlaces, Word
<1>5. Passes' <=> Passes
  BY <1>4 DEF Passes, Given, Places, Word, ValueAt
<1> QED BY <1>3, <1>4, <1>5

-----------------------------------------------------------------------------
(* What the options read so far say                                         *)

\* The members of a record of globals, each of its kind.
Globals ==
  [image_file : Words \cup {Unset}, image_file_flag : BOOLEAN,
   args_file : Words \cup {Unset}, args_file_flag : BOOLEAN,
   tpc : 0..MAX_THREAD_PER_CORE, tpc_flag : BOOLEAN,
   container_name : Words \cup {Unset, DEFAULT_DPRC_NAME}, container_name_flag : 0..CONTAINER_USR,
   reset_flag : BOOLEAN, tod_val : 0..ULONG_MAX, tod_flag : BOOLEAN,
   status_flag : BOOLEAN, debug_flag : BOOLEAN, verbose_flag : BOOLEAN]

\* The places of S that hold option o; the value of the last of a set of places.
At(line, S, o) == {i \in S : Text[line[i]].opt = o}
LastOf(line, T, else) == IF T = {} THEN else ELSE line[Max(T) + 1]

Threads(w) == IF atoi(w) \in 1..MAX_THREAD_PER_CORE THEN atoi(w) ELSE DEFAULT_THREAD_PER_CORE

Named(line, S) == {i \in At(line, S, "g") : NameFits(line[i + 1])}
Timed(line, S) == {i \in At(line, S, "t") : WholeNumber(line[i + 1])}

\* g is what the options at the places of S make of the globals, however many
\* there are; the environment gives the container its first name.
ToldContainer(line, env, S, g) ==
  /\ g.container_name_flag # 0
  /\ g.container_name =
       LastOf(line, Named(line, S),
              IF env # Unset /\ Text[env].len < MAX_CONTAINER_NAME_LEN
                THEN env ELSE DEFAULT_DPRC_NAME)
ToldFiles(line, S, g) ==
  /\ g.image_file_flag = (At(line, S, "f") # {})
  /\ g.image_file = LastOf(line, At(line, S, "f"), Unset)
  /\ g.args_file = LastOf(line, At(line, S, "a"), Unset)
ToldTime(line, S, g) ==
  /\ g.tod_flag = (Timed(line, S) # {})
  /\ Timed(line, S) # {} => g.tod_val = strtoul(line[Max(Timed(line, S)) + 1]).val
ToldThreads(line, S, g) ==
  /\ g.tpc = IF At(line, S, "c") = {} THEN DEFAULT_THREAD_PER_CORE
             ELSE Threads(line[Max(At(line, S, "c")) + 1])
  /\ (\A i \in At(line, S, "a") : ~Spills(line[i + 1])) => g.tpc_flag = (At(line, S, "c") # {})
ToldFlags(line, S, g) ==
  /\ g.reset_flag = (At(line, S, "r") # {})
  /\ g.debug_flag = (At(line, S, "d") # {})
  /\ g.verbose_flag = (At(line, S, "d") # {} \/ At(line, S, "v") # {})

Told(line, env, S, g) ==
  /\ ToldContainer(line, env, S, g) /\ ToldFiles(line, S, g) /\ ToldTime(line, S, g)
  /\ ToldThreads(line, S, g) /\ ToldFlags(line, S, g)

\* Powers of two count the subsets of an interval, and so grow.
LEMMA Powers ==
  /\ \A n \in Nat : 2^n \in Nat
  /\ \A m, n \in Nat : m <= n => 2^m <= 2^n
  /\ \A n \in Nat \ {0} : 2^n + 2 <= 2^(n + 1)
<1>1. \A n \in Nat : /\ IsFiniteSet(SUBSET (1..n)) /\ Cardinality(SUBSET (1..n)) = 2^n
                     /\ 2^n \in Nat
  <2> TAKE n \in Nat
  <2>1. IsFiniteSet(1..n) /\ Cardinality(1..n) = n
    BY FS_Interval
  <2> QED BY <2>1, FS_SUBSET, FS_CardinalityType
<1>2. ASSUME NEW m \in Nat, NEW n \in Nat, m <= n
      PROVE  2^m <= 2^n
  <2>1. SUBSET (1..m) \in SUBSET (SUBSET (1..n))
    BY <1>2
  <2>2. Cardinality(SUBSET (1..m)) <= Cardinality(SUBSET (1..n))
    BY <1>1, <2>1, FS_Subset, Zenon
  <2> QED BY <1>1, <2>2
<1>3. ASSUME NEW n \in Nat \ {0}
      PROVE  2^n + 2 <= 2^(n + 1)
  <2> DEFINE A == SUBSET (1..n)
             B == A \cup {{n + 1}}
             C == B \cup {{1, n + 1}}
  <2>1. n \in Nat /\ n + 1 \in Nat
    OBVIOUS
  <2>2. IsFiniteSet(A) /\ Cardinality(A) = 2^n /\ 2^n \in Nat /\ 2^(n + 1) \in Nat
    BY <1>1, <2>1, Zenon
  <2>3. {n + 1} \notin A
    OBVIOUS
  <2>4. {1, n + 1} \notin B
    OBVIOUS
  <2>5. C \in SUBSET (SUBSET (1..(n + 1)))
    OBVIOUS
  <2>6. IsFiniteSet(SUBSET (1..(n + 1))) /\ Cardinality(SUBSET (1..(n + 1))) = 2^(n + 1)
    BY <1>1, <2>1, Zenon
  <2> HIDE DEF A
  <2>7. IsFiniteSet(B) /\ Cardinality(B) = 2^n + 1
    BY <2>2, <2>3, FS_AddElement
  <2> HIDE DEF B
  <2>8. Cardinality(C) = 2^n + 1 + 1
    BY <2>4, <2>7, FS_AddElement
  <2> HIDE DEF C
  <2>9. Cardinality(C) <= Cardinality(SUBSET (1..(n + 1)))
    BY <2>5, <2>6, FS_Subset, Zenon
  <2> QED BY <2>2, <2>6, <2>8, <2>9
<1> QED BY <1>1, <1>2, <1>3

\* A number that is read is in the range of its type, and a time is refused
\* only for what follows its digits.
LEMMA Numbers ==
  ASSUME NEW w \in Words
  PROVE  /\ strtoul(w).val \in 0..ULONG_MAX
         /\ Threads(w) \in 0..MAX_THREAD_PER_CORE
         /\ \A g : timeofday_from_args(g, w) =
                     IF WholeNumber(w) THEN [g EXCEPT !.tod_val = strtoul(w).val, !.tod_flag = TRUE]
                     ELSE g
<1>1. Text[w].digits \in Nat /\ Text[w].neg \in BOOLEAN /\ Text[w].rest \in BOOLEAN
  BY TextAssumption
<1>2. /\ 2^LongWidth \in Nat /\ 2^LongWidth > 2
      /\ LONG_MAX \in Nat /\ LONG_MAX < 2^LongWidth - 2 /\ LONG_MAX > 0
  <2>1. LongWidth \in Nat /\ LongWidth >= 8 /\ LongWidth - 1 \in Nat \ {0}
        /\ LongWidth = (LongWidth - 1) + 1
    BY WidthAssumption
  <2>2. 2^2 = 4 /\ 2^2 <= 2^(LongWidth - 1)
    BY <2>1, Powers
  <2>3. 2^(LongWidth - 1) \in Nat /\ 2^LongWidth \in Nat
        /\ 2^(LongWidth - 1) + 2 <= 2^LongWidth
    BY <2>1, Powers
  <2> QED BY <2>2, <2>3 DEF LONG_MAX
<1> DEFINE P == 2^LongWidth
<1>3. P \in Nat /\ P > 2 /\ LONG_MAX \in Nat /\ LONG_MAX < P - 2 /\ LONG_MAX > 0 /\ ULONG_MAX = P - 1
  BY <1>2 DEF ULONG_MAX
<1>4. strtoul(w) = [val |-> IF Text[w].digits > ULONG_MAX THEN ULONG_MAX
                            ELSE IF Text[w].neg THEN (P - Text[w].digits) % P ELSE Text[w].digits,
                    erange |-> Text[w].digits > ULONG_MAX, rest |-> Text[w].rest]
  BY Zenon DEF strtoul
<1> HIDE DEF P
<1>5. (P - Text[w].digits) % P \in 0..(P - 1)
  BY <1>1, <1>3
<1>6. strtoul(w).val \in 0..ULONG_MAX
  BY <1>1, <1>3, <1>4, <1>5
<1>7. strtoul(w).erange => strtoul(w).val = ULONG_MAX
  <2>1. strtoul(w).erange <=> Text[w].digits > ULONG_MAX
    BY Zenon DEF strtoul
  <2>2. Text[w].digits > ULONG_MAX => strtoul(w).val = ULONG_MAX
    BY <1>4
  <2> QED BY <2>1, <2>2, Zenon
<1>8. strtoul(w).rest <=> ~WholeNumber(w)
  BY <1>4 DEF WholeNumber
<1>9. ASSUME NEW g
      PROVE  timeofday_from_args(g, w) =
               IF WholeNumber(w) THEN [g EXCEPT !.tod_val = strtoul(w).val, !.tod_flag = TRUE] ELSE g
  <2>1. ULONG_MAX # LONG_MAX /\ ULONG_MAX # LONG_MAX + 1 /\ ULONG_MAX # 0
    BY <1>3
  <2>2. CASE WholeNumber(w)
    <3> QED BY <1>7, <1>8, <2>1, <2>2, Zenon DEF timeofday_from_args
  <2>3. CASE ~WholeNumber(w)
    BY <1>8, <2>3, Zenon DEF timeofday_from_args
  <2> QED BY <2>2, <2>3
<1>10. Threads(w) \in 0..MAX_THREAD_PER_CORE
  <2>1. CASE atoi(w) \in 1..MAX_THREAD_PER_CORE
    BY <2>1 DEF Threads, MAX_THREAD_PER_CORE
  <2>2. CASE atoi(w) \notin 1..MAX_THREAD_PER_CORE
    BY <2>2 DEF Threads, MAX_THREAD_PER_CORE, DEFAULT_THREAD_PER_CORE
  <2> QED BY <2>1, <2>2
<1> QED BY <1>6, <1>9, <1>10

\* A field of the globals may take a value of its kind.
LEMMA Updates ==
  ASSUME NEW g \in Globals
  PROVE  /\ \A v \in Words : [g EXCEPT !.container_name = v, !.container_name_flag = CONTAINER_USR]
                               \in Globals
         /\ \A v \in Words, b \in BOOLEAN :
              [g EXCEPT !.image_file = v, !.image_file_flag = TRUE, !.args_file_flag = b] \in Globals
         /\ \A v \in Words, b \in BOOLEAN :
              [g EXCEPT !.args_file = v, !.args_file_flag = TRUE, !.tpc_flag = b] \in Globals
         /\ \A v \in 0..MAX_THREAD_PER_CORE : [g EXCEPT !.tpc = v, !.tpc_flag = TRUE] \in Globals
         /\ \A v \in 0..ULONG_MAX : [g EXCEPT !.tod_val = v, !.tod_flag = TRUE] \in Globals
         /\ [g EXCEPT !.reset_flag = TRUE] \in Globals
         /\ [g EXCEPT !.verbose_flag = TRUE] \in Globals
         /\ [g EXCEPT !.debug_flag = TRUE, !.verbose_flag = TRUE] \in Globals
<1>1. \A v \in Words : [g EXCEPT !.container_name = v, !.container_name_flag = CONTAINER_USR]
                         \in Globals
  <2>1. CONTAINER_USR \in 0..CONTAINER_USR
    BY DEF CONTAINER_USR
  <2> QED BY <2>1 DEF Globals
<1>2. \A v \in Words, b \in BOOLEAN :
        [g EXCEPT !.image_file = v, !.image_file_flag = TRUE, !.args_file_flag = b] \in Globals
  BY DEF Globals
<1>3. \A v \in Words, b \in BOOLEAN :
        [g EXCEPT !.args_file = v, !.args_file_flag = TRUE, !.tpc_flag = b] \in Globals
  BY DEF Globals
<1>4. \A v \in 0..MAX_THREAD_PER_CORE : [g EXCEPT !.tpc = v, !.tpc_flag = TRUE] \in Globals
  BY DEF Globals
<1>5. \A v \in 0..ULONG_MAX : [g EXCEPT !.tod_val = v, !.tod_flag = TRUE] \in Globals
  BY DEF Globals
<1>6. [g EXCEPT !.reset_flag = TRUE] \in Globals
  BY DEF Globals
<1>7. [g EXCEPT !.verbose_flag = TRUE] \in Globals
  BY DEF Globals
<1>8. [g EXCEPT !.debug_flag = TRUE, !.verbose_flag = TRUE] \in Globals
  BY DEF Globals
<1> QED BY <1>1, <1>2, <1>3, <1>4, <1>5, <1>6, <1>7, <1>8, Zenon

\* What one option changes, field by field.
Changed(g, opt, w, h) ==
  /\ h.container_name = IF opt = "g" /\ NameFits(w) THEN w ELSE g.container_name
  /\ h.container_name_flag = IF opt = "g" /\ NameFits(w) THEN CONTAINER_USR ELSE g.container_name_flag
  /\ h.image_file = IF opt = "f" THEN w ELSE g.image_file
  /\ h.image_file_flag = IF opt = "f" THEN TRUE ELSE g.image_file_flag
  /\ h.args_file = IF opt = "a" THEN w ELSE g.args_file
  /\ h.tod_val = IF opt = "t" /\ WholeNumber(w) THEN strtoul(w).val ELSE g.tod_val
  /\ h.tod_flag = IF opt = "t" /\ WholeNumber(w) THEN TRUE ELSE g.tod_flag
  /\ h.tpc = IF opt = "c" THEN Threads(w) ELSE g.tpc
  /\ h.tpc_flag = IF opt = "c" THEN TRUE
                  ELSE IF opt = "a" /\ Spills(w) THEN FALSE ELSE g.tpc_flag
  /\ h.reset_flag = IF opt = "r" THEN TRUE ELSE g.reset_flag
  /\ h.debug_flag = IF opt = "d" THEN TRUE ELSE g.debug_flag
  /\ h.verbose_flag = IF opt \in {"d", "v"} THEN TRUE ELSE g.verbose_flag

LEMMA Applies ==
  ASSUME NEW g \in Globals, NEW opt \in Letters, NEW w, opt \in WithValue => w \in Words
  PROVE  Applied(g, opt, w) \in Globals /\ Changed(g, opt, w, Applied(g, opt, w))
<1>1. CASE opt = "g"
  <2>1. CASE NameFits(w)
    <3>1. Applied(g, opt, w)
            = [g EXCEPT !.container_name = w, !.container_name_flag = CONTAINER_USR]
      BY <1>1, <2>1 DEF Applied, container_name_from_args, NameFits
    <3>2. Applied(g, opt, w) \in Globals
      <4>1. w \in Words
        BY <1>1 DEF WithValue
      <4>2. [g EXCEPT !.container_name = w, !.container_name_flag = CONTAINER_USR] \in Globals
        BY <4>1, Updates, Zenon
      <4> QED BY <3>1, <4>2, Zenon
    <3>3. Changed(g, opt, w, Applied(g, opt, w))
      BY <1>1, <2>1, <3>1 DEF Changed, Globals
    <3> QED BY <3>2, <3>3
  <2>2. CASE ~NameFits(w)
    <3>1. Applied(g, opt, w) = g
      BY <1>1, <2>2 DEF Applied, container_name_from_args, NameFits
    <3> QED BY <1>1, <2>2, <3>1 DEF Changed
  <2> QED BY <2>1, <2>2
<1>2. CASE opt = "f"
  <2>1. (g.args_file_flag /\ ~Spills(w)) \in BOOLEAN
    BY Zenon
  <2>2. Applied(g, opt, w)
          = [g EXCEPT !.image_file = w, !.image_file_flag = TRUE,
                      !.args_file_flag = g.args_file_flag /\ ~Spills(w)]
    BY <1>2 DEF Applied, image_file_from_args
  <2>3. Applied(g, opt, w) \in Globals
    <3>1. w \in Words
      BY <1>2 DEF WithValue
    <3>2. [g EXCEPT !.image_file = w, !.image_file_flag = TRUE,
                    !.args_file_flag = g.args_file_flag /\ ~Spills(w)] \in Globals
      BY <2>1, <3>1, Updates, ZenonT(20)
    <3> QED BY <2>2, <3>2, Zenon
  <2>4. Changed(g, opt, w, Applied(g, opt, w))
    BY <1>2, <2>1, <2>2 DEF Changed, Globals
  <2> QED BY <2>3, <2>4
<1>3. CASE opt = "a"
  <2> DEFINE kept == IF Spills(w) THEN FALSE ELSE g.tpc_flag
  <2>1. (g.tpc_flag /\ ~Spills(w)) = kept
    BY DEF Globals
  <2>2. kept \in BOOLEAN
    BY DEF Globals
  <2>3. Applied(g, opt, w)
          = [g EXCEPT !.args_file = w, !.args_file_flag = TRUE, !.tpc_flag = kept]
    BY <1>3, <2>1, Zenon DEF Applied, args_file_from_args
  <2>4. w \in Words
    BY <1>3 DEF WithValue
  <2>5. Changed(g, opt, w, Applied(g, opt, w))
    BY <1>3, <2>1, <2>3 DEF Changed, Globals
  <2> HIDE DEF kept
  <2>6. Applied(g, opt, w) \in Globals
    <3>1. [g EXCEPT !.args_file = w, !.args_file_flag = TRUE, !.tpc_flag = kept] \in Globals
      BY <2>4, <2>2, Updates, Zenon
    <3> QED BY <2>3, <3>1, Zenon
  <2> QED BY <2>5, <2>6
<1>4. CASE opt = "t"
  <2>1. Applied(g, opt, w) = timeofday_from_args(g, w) /\ w \in Words
    BY <1>4 DEF Applied, WithValue
  <2>2. CASE WholeNumber(w)
    <3>1. Applied(g, opt, w) = [g EXCEPT !.tod_val = strtoul(w).val, !.tod_flag = TRUE]
      BY <2>1, <2>2, Numbers
    <3>2. strtoul(w).val \in 0..ULONG_MAX
      BY <2>1, Numbers
    <3>3. Applied(g, opt, w) \in Globals
      <4>1. [g EXCEPT !.tod_val = strtoul(w).val, !.tod_flag = TRUE] \in Globals
        BY <3>2, Updates, Zenon
      <4> QED BY <3>1, <4>1, Zenon
    <3>4. Changed(g, opt, w, Applied(g, opt, w))
      BY <1>4, <2>2, <3>1, <3>2 DEF Changed, Globals
    <3> QED BY <3>3, <3>4
  <2>3. CASE ~WholeNumber(w)
    <3>1. Applied(g, opt, w) = g
      BY <2>1, <2>3, Numbers
    <3> QED BY <1>4, <2>3, <3>1 DEF Changed
  <2> QED BY <2>2, <2>3
<1>5. CASE opt = "c"
  <2>1. Applied(g, opt, w) = [g EXCEPT !.tpc = Threads(w), !.tpc_flag = TRUE] /\ w \in Words
    BY <1>5 DEF Applied, thread_per_core_from_args, Threads, WithValue
  <2>2. Threads(w) \in 0..MAX_THREAD_PER_CORE
    BY <2>1, Numbers
  <2>3. Applied(g, opt, w) \in Globals
    BY <1>5, <2>1, <2>2, Updates DEF WithValue
  <2>4. Changed(g, opt, w, Applied(g, opt, w))
    BY <1>5, <2>1, <2>2 DEF Changed, Globals
  <2> QED BY <2>3, <2>4
<1>6. CASE opt = "r"
  <2>1. Applied(g, opt, w) = [g EXCEPT !.reset_flag = TRUE]
    BY <1>6 DEF Applied
  <2>2. Applied(g, opt, w) \in Globals
    BY <1>6, <2>1, Updates DEF WithValue
  <2>3. Changed(g, opt, w, Applied(g, opt, w))
    BY <1>6, <2>1 DEF Changed, Globals
  <2> QED BY <2>2, <2>3
<1>7. CASE opt = "d"
  <2>1. Applied(g, opt, w) = [g EXCEPT !.debug_flag = TRUE, !.verbose_flag = TRUE]
    BY <1>7 DEF Applied, debug_flag_from_args
  <2>2. Applied(g, opt, w) \in Globals
    BY <1>7, <2>1, Updates DEF WithValue
  <2>3. Changed(g, opt, w, Applied(g, opt, w))
    BY <1>7, <2>1 DEF Changed, Globals
  <2> QED BY <2>2, <2>3
<1>8. CASE opt = "v"
  <2>1. Applied(g, opt, w) = [g EXCEPT !.verbose_flag = TRUE]
    BY <1>8 DEF Applied
  <2>2. Applied(g, opt, w) \in Globals
    BY <1>8, <2>1, Updates DEF WithValue
  <2>3. Changed(g, opt, w, Applied(g, opt, w))
    BY <1>8, <2>1 DEF Changed, Globals
  <2> QED BY <2>2, <2>3
<1> QED BY <1>1, <1>2, <1>3, <1>4, <1>5, <1>6, <1>7, <1>8 DEF Letters, WithValue

\* A round of the loop: what was told by the options before p is told, with the
\* option at p, of the globals it leaves.
LEMMA Rounds ==
  ASSUME NEW line, NEW env, NEW S \in SUBSET Int, NEW p \in Int, \A i \in S : i < p,
         NEW g \in Globals, NEW w, Text[line[p]].opt \in Letters,
         Text[line[p]].opt \in WithValue => w = line[p + 1] /\ w \in Words,
         Told(line, env, S, g)
  PROVE  LET h == Applied(g, Text[line[p]].opt, w)
         IN  h \in Globals /\ Told(line, env, S \cup {p}, h)
<1> DEFINE opt == Text[line[p]].opt
           h == Applied(g, opt, w)
           SP == S \cup {p}
<1>1. h \in Globals /\ Changed(g, opt, w, h)
  BY Applies
<1>2. /\ At(line, SP, opt) = At(line, S, opt) \cup {p}
      /\ \A o : o # opt => At(line, SP, o) = At(line, S, o)
      /\ \A o : At(line, S, o) \subseteq S
      /\ \A T \in SUBSET S : T \cup {p} # {} /\ Max(T \cup {p}) = p
      /\ \A T \in SUBSET S : \A e : LastOf(line, T \cup {p}, e) = line[p + 1]
  <2>1. \A o : At(line, S, o) \subseteq S
    BY DEF At
  <2>2. At(line, SP, opt) = At(line, S, opt) \cup {p}
    BY DEF At
  <2>3. \A o : o # opt => At(line, SP, o) = At(line, S, o)
    BY DEF At
  <2>4. ASSUME NEW T \in SUBSET S
        PROVE  T \cup {p} # {} /\ Max(T \cup {p}) = p
    BY MaxOfLast
  <2>5. \A T \in SUBSET S : \A e : LastOf(line, T \cup {p}, e) = line[p + 1]
    BY <2>4 DEF LastOf
  <2> QED BY <2>1, <2>2, <2>3, <2>4, <2>5, Zenon
<1>3. p \notin S
  OBVIOUS
<1>4. opt \in WithValue => w = line[p + 1]
  OBVIOUS
<1>5. opt \in Letters
  OBVIOUS
<1> HIDE DEF opt, h, SP
<1>6. ToldContainer(line, env, SP, h)
  <2>1. CASE opt = "g"
    <3>1. w = line[p + 1]
      BY <1>4, <2>1 DEF WithValue
    <3>2. CASE NameFits(w)
      <4>1. Named(line, SP) = Named(line, S) \cup {p} /\ Named(line, S) \subseteq S
        BY <1>2, <2>1, <3>1, <3>2 DEF Named
      <4>2. h.container_name = w /\ h.container_name_flag = CONTAINER_USR
        BY <1>1, <2>1, <3>2 DEF Changed
      <4>3. \A e : LastOf(line, Named(line, SP), e) = w
        BY <1>2, <3>1, <4>1
      <4> QED BY <4>2, <4>3 DEF ToldContainer, CONTAINER_USR
    <3>3. CASE ~NameFits(w)
      <4>1. Named(line, SP) = Named(line, S)
        BY <1>2, <2>1, <3>1, <3>3 DEF Named
      <4>2. h.container_name = g.container_name /\ h.container_name_flag = g.container_name_flag
        BY <1>1, <3>3 DEF Changed
      <4> QED BY <4>1, <4>2 DEF Told, ToldContainer
    <3> QED BY <3>2, <3>3
  <2>2. CASE opt # "g"
    <3>1. Named(line, SP) = Named(line, S)
      BY <1>2, <2>2 DEF Named
    <3>2. h.container_name = g.container_name /\ h.container_name_flag = g.container_name_flag
      BY <1>1, <2>2 DEF Changed
    <3> QED BY <3>1, <3>2 DEF Told, ToldContainer
  <2> QED BY <2>1, <2>2
<1>7. ToldFiles(line, SP, h)
  <2>1. CASE opt = "f"
    <3>1. /\ w = line[p + 1] /\ h.image_file = w /\ h.image_file_flag = TRUE
          /\ h.args_file = g.args_file
      BY <1>1, <1>4, <2>1 DEF Changed, WithValue
    <3>2. /\ At(line, SP, "f") = At(line, S, "f") \cup {p} /\ At(line, S, "f") \subseteq S
          /\ At(line, SP, "a") = At(line, S, "a")
      BY <1>2, <2>1
    <3>3. LastOf(line, At(line, SP, "f"), Unset) = w /\ At(line, SP, "f") # {}
      BY <1>2, <3>1, <3>2
    <3> QED BY <3>1, <3>2, <3>3 DEF Told, ToldFiles
  <2>2. CASE opt = "a"
    <3>1. /\ w = line[p + 1] /\ h.image_file = g.image_file
          /\ h.image_file_flag = g.image_file_flag /\ h.args_file = w
      BY <1>1, <1>4, <2>2 DEF Changed, WithValue
    <3>2. /\ At(line, SP, "a") = At(line, S, "a") \cup {p} /\ At(line, S, "a") \subseteq S
          /\ At(line, SP, "f") = At(line, S, "f")
      BY <1>2, <2>2
    <3>3. LastOf(line, At(line, SP, "a"), Unset) = w
      BY <1>2, <3>1, <3>2
    <3> QED BY <3>1, <3>2, <3>3 DEF Told, ToldFiles
  <2>3. CASE opt \notin {"f", "a"}
    <3>1. /\ h.image_file = g.image_file /\ h.image_file_flag = g.image_file_flag
          /\ h.args_file = g.args_file
      BY <1>1, <2>3 DEF Changed
    <3>2. At(line, SP, "a") = At(line, S, "a") /\ At(line, SP, "f") = At(line, S, "f")
      BY <1>2, <2>3
    <3> QED BY <3>1, <3>2 DEF Told, ToldFiles
  <2> QED BY <2>1, <2>2, <2>3
<1>8. ToldTime(line, SP, h)
  <2>1. CASE opt = "t" /\ WholeNumber(w)
    <3>1. w = line[p + 1] /\ h.tod_flag = TRUE /\ h.tod_val = strtoul(w).val
      BY <1>1, <1>4, <2>1 DEF Changed, WithValue
    <3>2. Timed(line, SP) = Timed(line, S) \cup {p} /\ Timed(line, S) \subseteq S
      BY <1>2, <2>1, <3>1 DEF Timed
    <3>3. Timed(line, SP) # {} /\ Max(Timed(line, SP)) = p
      BY <1>2, <3>2
    <3> QED BY <3>1, <3>3 DEF ToldTime
  <2>2. CASE ~(opt = "t" /\ WholeNumber(w))
    <3>1. h.tod_flag = g.tod_flag /\ h.tod_val = g.tod_val
      BY <1>1, <2>2 DEF Changed
    <3>2. Timed(line, SP) = Timed(line, S)
      BY <1>2, <1>4, <2>2 DEF Timed, WithValue
    <3> QED BY <3>1, <3>2 DEF Told, ToldTime
  <2> QED BY <2>1, <2>2
<1>9. ToldThreads(line, SP, h)
  <2>1. CASE opt = "c"
    <3>1. w = line[p + 1] /\ h.tpc = Threads(w) /\ h.tpc_flag = TRUE
      BY <1>1, <1>4, <2>1 DEF Changed, WithValue
    <3>2. At(line, SP, "c") = At(line, S, "c") \cup {p} /\ At(line, S, "c") \subseteq S
      BY <1>2, <2>1
    <3>3. At(line, SP, "c") # {} /\ Max(At(line, SP, "c")) = p
      BY <1>2, <3>2
    <3> QED BY <3>1, <3>3 DEF ToldThreads
  <2>2. CASE opt = "a"
    <3>1. w = line[p + 1] /\ h.tpc = g.tpc /\ h.tpc_flag = IF Spills(w) THEN FALSE ELSE g.tpc_flag
      BY <1>1, <1>4, <2>2 DEF Changed, WithValue
    <3>2. At(line, SP, "a") = At(line, S, "a") \cup {p} /\ At(line, SP, "c") = At(line, S, "c")
      BY <1>2, <2>2
    <3> QED BY <3>1, <3>2 DEF Told, ToldThreads
  <2>3. CASE opt \notin {"c", "a"}
    <3>1. h.tpc = g.tpc /\ h.tpc_flag = g.tpc_flag
      BY <1>1, <2>3 DEF Changed
    <3>2. At(line, SP, "a") = At(line, S, "a") /\ At(line, SP, "c") = At(line, S, "c")
      BY <1>2, <2>3
    <3> QED BY <3>1, <3>2 DEF Told, ToldThreads
  <2> QED BY <2>1, <2>2, <2>3
<1>10. ToldFlags(line, SP, h)
  <2>1. \A o : At(line, SP, o) # {} <=> (o = opt \/ At(line, S, o) # {})
    BY <1>2
  <2>2. ToldFlags(line, S, g)
    BY DEF Told
  <2>3. h.reset_flag = (At(line, SP, "r") # {})
    BY <1>1, <2>1, <2>2 DEF Changed, ToldFlags
  <2>4. h.debug_flag = (At(line, SP, "d") # {})
    BY <1>1, <2>1, <2>2 DEF Changed, ToldFlags
  <2>5. h.verbose_flag = (At(line, SP, "d") # {} \/ At(line, SP, "v") # {})
    BY <1>1, <2>1, <2>2 DEF Changed, ToldFlags
  <2> QED BY <2>3, <2>4, <2>5 DEF ToldFlags
<1> QED BY <1>1, <1>6, <1>7, <1>8, <1>9, <1>10 DEF Told, h, SP, opt

-----------------------------------------------------------------------------
(* The numbers that a line means                                            *)

LEMMA Ordinary ==
  ASSUME NEW w \in Words
  PROVE  /\ OrdinaryTime(w) => strtoul(w).val = Text[w].digits
         /\ OrdinaryCount(w) =>
              Threads(w) = IF Text[w].neg \/ Text[w].digits > MAX_THREAD_PER_CORE
                             THEN DEFAULT_THREAD_PER_CORE ELSE Text[w].digits
<1>1. Text[w].digits \in Nat /\ Text[w].neg \in BOOLEAN
  BY TextAssumption
<1>2. OrdinaryTime(w) => strtoul(w).val = Text[w].digits
  <2>1. 2^LongWidth \in Nat
    BY Powers, WidthAssumption
  <2>2. ULONG_MAX \in Int
    BY <2>1 DEF ULONG_MAX
  <2> HIDE DEF ULONG_MAX
  <2> QED BY <1>1, <2>2 DEF OrdinaryTime, strtoul
<1>3. ASSUME OrdinaryCount(w)
      PROVE  Threads(w) = IF Text[w].neg \/ Text[w].digits > MAX_THREAD_PER_CORE
                            THEN DEFAULT_THREAD_PER_CORE ELSE Text[w].digits
  <2> DEFINE n == IF Text[w].neg THEN -Text[w].digits ELSE Text[w].digits
             P == 2^IntWidth
  <2>1. INT_MAX \in Nat /\ P = 2 * INT_MAX + 2
    <3>1. CASE IntWidth = 6
      BY <3>1 DEF INT_MAX
    <3>2. CASE IntWidth = 16
      BY <3>2 DEF INT_MAX
    <3>3. CASE IntWidth = 32
      BY <3>3 DEF INT_MAX
    <3> QED BY <3>1, <3>2, <3>3, WidthAssumption
  <2>2. LONG_MAX \in Int /\ INT_MAX <= LONG_MAX
    <3>1. IntWidth - 1 \in Nat /\ LongWidth - 1 \in Nat /\ IntWidth - 1 <= LongWidth - 1
      BY WidthAssumption
    <3>2. 2^(IntWidth - 1) \in Nat /\ 2^(LongWidth - 1) \in Nat
          /\ 2^(IntWidth - 1) <= 2^(LongWidth - 1)
      BY <3>1, Powers
    <3> QED BY <3>2 DEF INT_MAX, LONG_MAX
  <2>3. Text[w].digits <= INT_MAX
    BY <1>3 DEF OrdinaryCount
  <2>4. n \in Int /\ -INT_MAX <= n /\ n <= INT_MAX
    BY <1>1, <2>1, <2>3
  <2>5. atoi(w) = LET long == IF n > LONG_MAX THEN LONG_MAX
                              ELSE IF n < -LONG_MAX - 1 THEN -LONG_MAX - 1 ELSE n
                      wrapped == long % P
                  IN  IF wrapped > INT_MAX THEN wrapped - P ELSE wrapped
    BY Zenon DEF atoi
  <2>6. Text[w].neg => n <= 0
    BY <1>1
  <2>7. ~Text[w].neg => n = Text[w].digits
    BY <1>1
  <2> HIDE DEF n, P
  <2>8. (IF n > LONG_MAX THEN LONG_MAX ELSE IF n < -LONG_MAX - 1 THEN -LONG_MAX - 1 ELSE n) = n
    BY <2>1, <2>2, <2>4
  <2>9. atoi(w) = IF n % P > INT_MAX THEN (n % P) - P ELSE n % P
    BY <2>5, <2>8, Zenon
  <2>10. n % P = IF n < 0 THEN n + P ELSE n
    BY <2>1, <2>4
  <2>11. atoi(w) = n
    BY <2>1, <2>4, <2>9, <2>10
  <2>12. CASE Text[w].neg
    BY <2>4, <2>6, <2>11, <2>12 DEF Threads, MAX_THREAD_PER_CORE, DEFAULT_THREAD_PER_CORE
  <2>13. CASE ~Text[w].neg
    BY <1>1, <2>4, <2>7, <2>11, <2>13 DEF Threads, MAX_THREAD_PER_CORE, DEFAULT_THREAD_PER_CORE
  <2> QED BY <2>12, <2>13
<1> QED BY <1>2, <1>3

-----------------------------------------------------------------------------
(* The inductive invariant                                                  *)

Typed ==
  /\ argv \in Seq(Words) /\ dprc \in Words \cup {Unset}
  /\ sub_cmd_name \in Commands \cup {Unset}
  /\ optind \in 1..(Len(argv) + 1)
  /\ pc \in {"off", "help", "command", "usage", "options", "mandatory", "done"}
  /\ ret \in {"SUCCESS", "FAILURE"}
  /\ gvars \in Globals

\* The options at the places of S are those of the sub-command, with values
\* that they can have.
Fits(line, S) ==
  \A i \in S :
    /\ Text[line[i]].opt \in ValidArgs(line[1])
    /\ Text[line[i]].opt \in WithValue => i < Len(line)
    /\ Text[line[i]].opt \in {"f", "a"} => PathAccepted(line[i + 1])

NoHelp(line) == line # <<>> /\ \A i \in DOMAIN line : ~Text[line[i]].help

\* A line that names a sub-command whose handler runs.
Asked(line, cmd) ==
  NoHelp(line) /\ line[1] \in Commands \ {"help"} /\ cmd = line[1]

\* What the handler leaves: all that the options say, and the sub-command's flag.
Left(line, env, cmd, S, g) ==
  /\ ToldContainer(line, env, S, g) /\ ToldFiles(line, S, g) /\ ToldTime(line, S, g)
  /\ ToldThreads(line, S, g)
  /\ g.reset_flag = (line[1] = "reset" \/ At(line, S, "r") # {})
  /\ g.debug_flag = (At(line, S, "d") # {})
  /\ g.verbose_flag = (At(line, S, "d") # {} \/ At(line, S, "v") # {})
  /\ Complete(cmd, g)

Course ==
  /\ pc \in {"help", "command"} => gvars = Zero /\ optind = 1
  /\ pc \in {"command", "usage"} => NoHelp(argv)
  /\ pc = "usage" => argv[1] = "help"
  /\ pc = "options" =>
       /\ Asked(argv, sub_cmd_name)
       /\ optind + 1 \in Starts /\ Fits(argv, Seen(optind + 1))
       /\ Told(argv, dprc, Seen(optind + 1), gvars)
  /\ pc = "mandatory" =>
       /\ Asked(argv, sub_cmd_name)
       /\ Fits(argv, OptionPlaces) /\ Told(argv, dprc, OptionPlaces, gvars)
  /\ pc = "done" =>
       \/ ret = "FAILURE" /\ ~Passes
       \/ /\ ret = "SUCCESS" /\ Asked(argv, sub_cmd_name)
          /\ Fits(argv, OptionPlaces) /\ Left(argv, dprc, sub_cmd_name, OptionPlaces, gvars)

Inv == Typed /\ Course

\* What the meaning of a line says of its options, in the terms of Told.
LEMMA Values ==
  ASSUME argv \in Seq(Words), Fits(argv, OptionPlaces)
  PROVE  /\ \A o \in Letters : Places(o) = At(argv, OptionPlaces, o)
         /\ \A o \in WithValue : \A i \in At(argv, OptionPlaces, o) :
              i \in Int /\ ValueAt(i) = argv[i + 1] /\ argv[i + 1] \in Words
         /\ \A e : LastValue("g", NameFits, e) = LastOf(argv, Named(argv, OptionPlaces), e)
         /\ \A e : LastValue("f", Usable, e) = LastOf(argv, At(argv, OptionPlaces, "f"), e)
         /\ \A e : LastValue("a", Usable, e) = LastOf(argv, At(argv, OptionPlaces, "a"), e)
         /\ \A e : LastValue("c", Usable, e) = LastOf(argv, At(argv, OptionPlaces, "c"), e)
         /\ \A e : LastValue("t", WholeNumber, e) = LastOf(argv, Timed(argv, OptionPlaces), e)
<1>1. \A i \in OptionPlaces : i \in Nat /\ i >= 2 /\ i <= Len(argv)
  BY DEF OptionPlaces, Starts
<1>2. \A o \in Letters : Places(o) = At(argv, OptionPlaces, o)
  BY DEF Places, At, Fits, Word
<1>3. \A o \in WithValue : \A i \in At(argv, OptionPlaces, o) :
        i \in Int /\ ValueAt(i) = argv[i + 1] /\ argv[i + 1] \in Words
  <2> TAKE o \in WithValue
  <2> TAKE i \in At(argv, OptionPlaces, o)
  <2>1. i \in OptionPlaces /\ Text[argv[i]].opt = o
    BY DEF At
  <2>2. i \in Nat /\ i < Len(argv)
    BY <1>1, <2>1 DEF Fits
  <2>3. i + 1 \in 1..Len(argv)
    BY <2>2
  <2> QED BY <2>2, <2>3 DEF ValueAt
<1>4. {"g", "f", "a", "c", "t"} \subseteq WithValue /\ WithValue \subseteq Letters
  BY DEF Letters, WithValue
<1>5. \A e : LastValue("g", NameFits, e) = LastOf(argv, Named(argv, OptionPlaces), e)
  <2>1. {i \in Places("g") : NameFits(ValueAt(i))} = Named(argv, OptionPlaces)
    BY <1>2, <1>3, <1>4 DEF Named
  <2> QED BY <2>1 DEF LastValue, LastOf, ValueAt
<1>6. \A e : LastValue("t", WholeNumber, e) = LastOf(argv, Timed(argv, OptionPlaces), e)
  <2>1. {i \in Places("t") : WholeNumber(ValueAt(i))} = Timed(argv, OptionPlaces)
    BY <1>2, <1>3, <1>4 DEF Timed
  <2> QED BY <2>1 DEF LastValue, LastOf, ValueAt
<1>7. \A o \in WithValue : {i \in Places(o) : Usable(ValueAt(i))} = At(argv, OptionPlaces, o)
  BY <1>2, <1>4 DEF Usable
<1>8. \A e : LastValue("f", Usable, e) = LastOf(argv, At(argv, OptionPlaces, "f"), e)
  BY <1>4, <1>7 DEF LastValue, LastOf, ValueAt
<1>9. \A e : LastValue("a", Usable, e) = LastOf(argv, At(argv, OptionPlaces, "a"), e)
  BY <1>4, <1>7 DEF LastValue, LastOf, ValueAt
<1>10. \A e : LastValue("c", Usable, e) = LastOf(argv, At(argv, OptionPlaces, "c"), e)
  BY <1>4, <1>7 DEF LastValue, LastOf, ValueAt
<1> QED BY <1>2, <1>3, <1>5, <1>6, <1>8, <1>9, <1>10, Zenon

LEMMA ZeroTyped == Zero \in Globals
<1>1. 0 \in 0..MAX_THREAD_PER_CORE /\ 0 \in 0..CONTAINER_USR /\ 0 \in 0..ULONG_MAX
  <2>1. 2^LongWidth \in Nat /\ 2^2 <= 2^LongWidth /\ 2^2 = 4
    BY Powers, WidthAssumption
  <2> QED BY <2>1 DEF MAX_THREAD_PER_CORE, CONTAINER_USR, ULONG_MAX
<1> QED BY <1>1 DEF Zero, Globals

LEMMA Starting == Init => Inv
<1> SUFFICES ASSUME Init PROVE Inv
  OBVIOUS
<1>1. Typed
  BY ZeroTyped DEF Init, Typed
<1>2. Course
  BY DEF Init, Course
<1> QED BY <1>1, <1>2 DEF Inv

LEMMA Execs == Inv /\ Exec => Inv'
<1> SUFFICES ASSUME Exec PROVE Inv'
  OBVIOUS
<1>1. Typed'
  BY ZeroTyped, LinesAssumption DEF Exec, Typed
<1>2. Course'
  BY DEF Exec, Course
<1> QED BY <1>1, <1>2 DEF Inv

LEMMA Ends == Inv /\ End => Inv'
<1> SUFFICES ASSUME End PROVE Inv'
  OBVIOUS
<1>1. Typed'
  BY ZeroTyped DEF End, Typed
<1>2. Course'
  BY DEF End, Course
<1> QED BY <1>1, <1>2 DEF Inv

LEMMA Checks == Inv /\ CheckHelp => Inv'
<1> SUFFICES ASSUME Inv, CheckHelp PROVE Inv'
  OBVIOUS
<1>1. Typed'
  BY DEF Inv, CheckHelp, Finish, Typed
<1>2. CASE argv = <<>> \/ \E i \in DOMAIN argv : Text[argv[i]].help
  <2>1. ~Passes
    BY <1>2, Zenon DEF Passes, Word
  <2>2. ~Passes'
    BY <2>1, LineStays DEF CheckHelp
  <2> QED BY <1>1, <1>2, <2>2 DEF Inv, CheckHelp, Finish, Course
<1>3. CASE ~(argv = <<>> \/ \E i \in DOMAIN argv : Text[argv[i]].help)
  <2>1. NoHelp(argv)
    BY <1>3, Zenon DEF NoHelp
  <2>2. argv' = argv /\ pc' = "command" /\ gvars' = gvars /\ optind' = optind /\ pc = "help"
    BY <1>3 DEF CheckHelp
  <2>3. NoHelp(argv')
    BY <2>1, <2>2
  <2> QED BY <1>1, <2>2, <2>3 DEF Inv, Course
<1> QED BY <1>2, <1>3

\* The environment names the container before any option does.
LEMMA Environment ==
  ASSUME dprc \in Words \cup {Unset}
  PROVE  FromEnvironment(Zero) \in Globals /\ Told(argv, dprc, {}, FromEnvironment(Zero))
<1> DEFINE h == FromEnvironment(Zero)
           named == dprc # Unset /\ Text[dprc].len < MAX_CONTAINER_NAME_LEN
           name == IF named THEN dprc ELSE DEFAULT_DPRC_NAME
           flag == IF named THEN CONTAINER_ENV ELSE CONTAINER_DEF
<1>1. h = [Zero EXCEPT !.container_name = name, !.container_name_flag = flag]
  BY Zenon DEF FromEnvironment
<1>2. name \in Words \cup {Unset, DEFAULT_DPRC_NAME} /\ flag \in 0..CONTAINER_USR /\ flag # 0
  BY DEF CONTAINER_ENV, CONTAINER_DEF, CONTAINER_USR
<1>3. name = IF dprc # Unset /\ Text[dprc].len < MAX_CONTAINER_NAME_LEN
               THEN dprc ELSE DEFAULT_DPRC_NAME
  OBVIOUS
<1> HIDE DEF name, flag, h
<1>4. h \in Globals
  BY <1>1, <1>2, ZeroTyped DEF Globals
<1>5. \A o : At(argv, {}, o) = {}
  BY DEF At
<1>6. Named(argv, {}) = {} /\ Timed(argv, {}) = {}
  BY <1>5 DEF Named, Timed
<1>7. ToldContainer(argv, dprc, {}, h)
  BY <1>1, <1>2, <1>3, <1>6 DEF ToldContainer, LastOf, Zero
<1>8. ToldFiles(argv, {}, h)
  BY <1>1, <1>5 DEF ToldFiles, LastOf, Zero
<1>9. ToldTime(argv, {}, h)
  BY <1>1, <1>6 DEF ToldTime, Zero
<1>10. ToldThreads(argv, {}, h)
  BY <1>1, <1>5 DEF ToldThreads, Zero, DEFAULT_THREAD_PER_CORE
<1>11. ToldFlags(argv, {}, h)
  BY <1>1, <1>5 DEF ToldFlags, Zero
<1> QED BY <1>4, <1>7, <1>8, <1>9, <1>10, <1>11 DEF Told, h

LEMMA Finds == Inv /\ FindSubcmd => Inv'
<1> SUFFICES ASSUME Inv, FindSubcmd PROVE Inv'
  OBVIOUS
<1>1. argv' = argv /\ dprc' = dprc /\ optind' = optind /\ pc = "command"
  BY DEF FindSubcmd
<1>2. gvars = Zero /\ optind = 1 /\ NoHelp(argv) /\ Typed
  BY <1>1 DEF Inv, Course
<1>3. argv[1] \in Words
  BY <1>2 DEF Typed, NoHelp
<1>4. CASE argv[1] \in Commands
  <2>1. /\ sub_cmd_name' = argv[1] /\ gvars' = FromEnvironment(Zero) /\ ret' = ret
        /\ pc' = IF argv[1] = "help" THEN "usage" ELSE "options"
    BY <1>2, <1>4 DEF FindSubcmd
  <2>2. gvars' \in Globals /\ Told(argv, dprc, {}, gvars')
    BY <1>2, <2>1, Environment DEF Typed
  <2>3. Typed'
    BY <1>1, <1>2, <1>4, <2>1, <2>2 DEF Typed
  <2>4. CASE argv[1] = "help"
    BY <1>1, <1>2, <2>1, <2>3, <2>4 DEF Inv, Course
  <2>5. CASE argv[1] # "help"
    <3>1. Asked(argv, sub_cmd_name')
      BY <1>2, <1>4, <2>1, <2>5 DEF Asked
    <3>2. 2 \in Starts /\ Seen(2) = {}
      BY <1>2, Opening DEF Typed, NoHelp
    <3>3. optind' + 1 = 2 /\ Starts' = Starts
      BY <1>1, <1>2, LineStays
    <3>4. Seen(optind + 1)' = {}
      BY <3>2, <3>3 DEF Seen
    <3>5. Fits(argv, {})
      BY DEF Fits
    <3> QED BY <1>1, <2>1, <2>2, <2>3, <2>5, <3>1, <3>2, <3>3, <3>4, <3>5 DEF Inv, Course
  <2> QED BY <2>4, <2>5
<1>5. CASE argv[1] \notin Commands
  <2>1. pc' = "done" /\ ret' = "FAILURE" /\ UNCHANGED <<sub_cmd_name, gvars>>
    BY <1>5 DEF FindSubcmd, Finish
  <2>2. ~Passes'
    BY <1>1, <1>5, LineStays DEF Passes
  <2>3. Typed'
    BY <1>1, <1>2, <2>1 DEF Typed
  <2> QED BY <2>1, <2>2, <2>3 DEF Inv, Course
<1> QED BY <1>4, <1>5

LEMMA Usages == Inv /\ Usage => Inv'
<1> SUFFICES ASSUME Inv, Usage PROVE Inv'
  OBVIOUS
<1>1. Typed'
  BY DEF Inv, Usage, Finish, Typed
<1>2. argv[1] = "help"
  BY DEF Inv, Usage, Course
<1>3. ~Passes'
  BY <1>2, LineStays DEF Usage, Passes
<1> QED BY <1>1, <1>3 DEF Inv, Usage, Finish, Course

\* A handler takes options only.
LEMMA Handlers ==
  ASSUME NEW cmd \in Commands \ {"help"}, NEW o \in ValidArgs(cmd)
  PROVE  o \in Letters
BY DEF Commands, ValidArgs, Letters, WithValue

\* What getopt_long finds at a place of the line.
LEMMA Getopt ==
  ASSUME argv \in Seq(Words), NEW p \in Starts
  PROVE  LET o == getopt_long(argv, p)
         IN  \/ o.opt = "end" /\ (p > Len(argv) \/ Word(p).opt = "none")
             \/ /\ o.opt = "?" /\ p = Len(argv) /\ Word(p).opt \in WithValue
                /\ o.next = p + 1
             \/ /\ o.opt = Word(p).opt /\ o.opt \in WithValue /\ p < Len(argv)
                /\ o.arg = argv[p + 1] /\ o.arg \in Words /\ o.next = p + 2
             \/ /\ o.opt = Word(p).opt /\ o.opt \notin WithValue \cup {"none", "end"}
                /\ p <= Len(argv) /\ o.next = p + 1
<1>1. p \in Nat /\ p >= 2 /\ Len(argv) \in Nat
  BY AtStart
<1>2. p < Len(argv) => argv[p + 1] \in Words
  BY <1>1
<1>3. p <= Len(argv) => Word(p).opt # "end"
  <2>1. p <= Len(argv) => argv[p] \in Words
    BY <1>1
  <2>2. \A w \in Words : Text[w].opt # "end"
    BY TextAssumption DEF Letters, WithValue
  <2> QED BY <2>1, <2>2 DEF Word
<1> QED BY <1>1, <1>2, <1>3 DEF getopt_long, Word

LEMMA Reads == Inv /\ Option => Inv'
<1> SUFFICES ASSUME Inv, Option PROVE Inv'
  OBVIOUS
<1> DEFINE p == optind + 1
           o == getopt_long(argv, p)
<1>1. argv' = argv /\ dprc' = dprc /\ sub_cmd_name' = sub_cmd_name /\ pc = "options"
  BY DEF Option
<1>2. /\ Typed /\ Asked(argv, sub_cmd_name)
      /\ p \in Starts /\ Fits(argv, Seen(p)) /\ Told(argv, dprc, Seen(p), gvars)
  BY <1>1 DEF Inv, Course
<1>3. argv \in Seq(Words) /\ gvars \in Globals /\ Len(argv) \in Nat
  BY <1>2 DEF Typed
<1>4. p \in Nat /\ p >= 2 /\ p <= Len(argv) + 1 /\ optind = p - 1
  BY <1>2, <1>3, AtStart DEF Typed
<1>5. Seen(p) \in SUBSET Int /\ \A i \in Seen(p) : i < p
  BY <1>3, AtStart DEF Seen
<1>6. /\ sub_cmd_name \in Commands \ {"help"} /\ argv[1] = sub_cmd_name
  BY <1>2 DEF Asked
<1>7. Starts' = Starts /\ OptionPlaces' = OptionPlaces /\ (Passes' <=> Passes)
  BY <1>1, LineStays
<1>8. CASE o.opt = "end"
  <2>1. pc' = "mandatory" /\ optind' = 1 /\ UNCHANGED <<gvars, ret>>
    BY <1>8 DEF Option
  <2>2. p > Len(argv) \/ Word(p).opt = "none"
    BY <1>2, <1>3, <1>8, Getopt DEF WithValue
  <2>3. OptionPlaces = Seen(p)
    BY <1>2, <1>3, <2>2, AtEnd
  <2>4. Typed'
    BY <1>1, <1>2, <1>3, <2>1 DEF Typed
  <2> QED BY <1>1, <1>2, <1>7, <2>1, <2>3, <2>4 DEF Inv, Course
<1>9. CASE o.opt # "end" /\ o.opt \in ValidArgs(sub_cmd_name) /\ ~Refused(o.opt, o.arg)
  <2>1. gvars' = Applied(gvars, o.opt, o.arg) /\ optind' = o.next - 1 /\ UNCHANGED <<pc, ret>>
    BY <1>9 DEF Option
  <2>2. o.opt \in Letters /\ o.opt \in ValidArgs(argv[1]) /\ o.opt # "?"
    <3>1. o.opt \in Letters
      BY <1>6, <1>9, Handlers
    <3> QED BY <1>6, <1>9, <3>1 DEF Letters, WithValue
  <2>3. /\ o.opt = Word(p).opt /\ p <= Len(argv)
        /\ \/ o.opt \in WithValue /\ p < Len(argv) /\ o.arg = argv[p + 1] /\ o.arg \in Words
              /\ o.next = p + 2
           \/ o.opt \notin WithValue /\ o.next = p + 1
    BY <1>2, <1>3, <1>4, <1>9, <2>2, Getopt
  <2> HIDE DEF o
  <2>4. o.next \in Starts /\ Seen(o.next) = Seen(p) \cup {p}
    BY <1>2, <1>3, <2>2, <2>3, OnFlag, OnValue
  <2>5. Fits(argv, Seen(p) \cup {p})
    <3>1. o.opt \in {"f", "a"} => PathAccepted(argv[p + 1])
      BY <1>9, <2>3 DEF Refused, WithValue
    <3> QED BY <1>2, <2>2, <2>3, <3>1 DEF Fits, Word
  <2>6. gvars' \in Globals /\ Told(argv, dprc, Seen(p) \cup {p}, gvars')
    <3>1. /\ Text[argv[p]].opt = o.opt /\ o.opt \in Letters
          /\ o.opt \in WithValue => o.arg = argv[p + 1] /\ o.arg \in Words
      BY <2>2, <2>3 DEF Word
    <3>2. LET h == Applied(gvars, Text[argv[p]].opt, o.arg)
          IN  h \in Globals /\ Told(argv, dprc, Seen(p) \cup {p}, h)
      <4>1. p \in Int /\ Told(argv, dprc, Seen(p), gvars)
        BY <1>2, <1>4
      <4>2. /\ Text[argv[p]].opt \in Letters
            /\ Text[argv[p]].opt \in WithValue => o.arg = argv[p + 1] /\ o.arg \in Words
        BY <3>1
      <4> HIDE DEF p
      <4> QED BY <1>3, <1>5, <4>1, <4>2, Rounds
    <3> QED BY <2>1, <3>1, <3>2
  <2>7. o.next \in Nat /\ o.next >= 2 /\ o.next <= Len(argv) + 1
    BY <1>3, <2>4, AtStart
  <2>8. Typed'
    BY <1>1, <1>2, <1>3, <2>1, <2>6, <2>7 DEF Typed
  <2>9. optind' + 1 = o.next
    BY <2>1, <2>7
  <2>10. Seen(optind + 1)' = Seen(p) \cup {p}
    BY <1>7, <2>4, <2>9 DEF Seen
  <2> QED BY <1>1, <1>2, <1>7, <2>1, <2>4, <2>5, <2>6, <2>8, <2>9, <2>10 DEF Inv, Course
<1>10. CASE o.opt # "end" /\ ~(o.opt \in ValidArgs(sub_cmd_name) /\ ~Refused(o.opt, o.arg))
  <2>1. pc' = "done" /\ ret' = "FAILURE" /\ optind' = o.next - 1 /\ UNCHANGED gvars
    BY <1>10 DEF Option, Finish
  <2>2. /\ p <= Len(argv) /\ Word(p).opt # "none"
        /\ o.next \in Nat /\ o.next >= 2 /\ o.next <= Len(argv) + 2
    BY <1>2, <1>3, <1>4, <1>10, Getopt DEF WithValue
  <2>3. p \in OptionPlaces
    BY <1>2, <1>3, <1>4, <2>2 DEF OptionPlaces
  <2>4. ~Passes
    <3> SUFFICES ASSUME Passes PROVE FALSE
      OBVIOUS
    <3>1. /\ Word(p).opt \in ValidArgs(argv[1])
          /\ Word(p).opt \in WithValue => p < Len(argv)
          /\ Word(p).opt \in {"f", "a"} => PathAccepted(argv[p + 1])
      BY <2>3 DEF Passes, ValueAt
    <3>2. o.opt = Word(p).opt /\ (o.opt \in WithValue => o.arg = argv[p + 1])
      BY <1>2, <1>3, <1>4, <1>10, <2>2, <3>1, Getopt
    <3>3. o.opt \in ValidArgs(sub_cmd_name)
      BY <1>6, <3>1, <3>2
    <3> QED BY <1>10, <3>1, <3>2, <3>3 DEF Refused, WithValue
  <2>5. optind' \in 1..(Len(argv) + 1)
    BY <1>3, <2>1, <2>2
  <2>6. Typed'
    BY <1>1, <1>2, <2>1, <2>5 DEF Typed
  <2> QED BY <1>1, <1>7, <2>1, <2>4, <2>6 DEF Inv, Course
<1> QED BY <1>8, <1>9, <1>10

\* The handler's last test decides whether the line passes.
LEMMA Mandates ==
  ASSUME argv \in Seq(Words), Asked(argv, sub_cmd_name), Fits(argv, OptionPlaces),
         NEW g, g.container_name_flag # 0,
         g.image_file_flag = (At(argv, OptionPlaces, "f") # {}),
         g.tod_flag = (Timed(argv, OptionPlaces) # {})
  PROVE  Complete(sub_cmd_name, g) <=> Passes
<1>1. argv # <<>> /\ argv[1] \in Commands \ {"help"} /\ \A i \in DOMAIN argv : ~Word(i).help
  BY Zenon DEF Asked, NoHelp, Word
<1>2. \A i \in OptionPlaces :
        /\ Word(i).opt \in ValidArgs(argv[1])
        /\ Word(i).opt \in WithValue => i < Len(argv)
        /\ Word(i).opt \in {"f", "a"} => PathAccepted(ValueAt(i))
  BY DEF Fits, Word, ValueAt
<1>3. Given("f") <=> At(argv, OptionPlaces, "f") # {}
  BY Values DEF Given, Letters, WithValue
<1>4. (\E i \in Places("t") : WholeNumber(ValueAt(i))) <=> Timed(argv, OptionPlaces) # {}
  <2>1. Places("t") = At(argv, OptionPlaces, "t")
    BY Values DEF Letters, WithValue
  <2> QED BY <2>1 DEF Timed, ValueAt
<1>5. sub_cmd_name = argv[1]
  BY DEF Asked
<1>6. Passes <=>
        /\ argv[1] = "load" => At(argv, OptionPlaces, "f") # {}
        /\ argv[1] = "settod" => Timed(argv, OptionPlaces) # {}
  BY <1>1, <1>2, <1>3, <1>4, Zenon DEF Passes
<1>7. Complete(sub_cmd_name, g) <=>
        /\ argv[1] = "load" => At(argv, OptionPlaces, "f") # {}
        /\ argv[1] = "settod" => Timed(argv, OptionPlaces) # {}
  BY <1>5 DEF Complete
<1> QED BY <1>6, <1>7, Zenon

LEMMA Finishes == Inv /\ Mandatory => Inv'
<1> SUFFICES ASSUME Inv, Mandatory PROVE Inv'
  OBVIOUS
<1>1. argv' = argv /\ dprc' = dprc /\ sub_cmd_name' = sub_cmd_name /\ optind' = optind
      /\ pc = "mandatory"
  BY DEF Mandatory
<1>2. /\ Typed /\ Asked(argv, sub_cmd_name)
      /\ Fits(argv, OptionPlaces) /\ Told(argv, dprc, OptionPlaces, gvars)
  BY <1>1 DEF Inv, Course
<1>3. argv \in Seq(Words) /\ gvars \in Globals
  BY <1>2 DEF Typed
<1>4. OptionPlaces' = OptionPlaces /\ (Passes' <=> Passes)
  BY <1>1, LineStays
<1>5. Complete(sub_cmd_name, gvars) <=> Passes
  BY <1>2, <1>3, Mandates DEF Told, ToldContainer, ToldFiles, ToldTime
<1>6. sub_cmd_name = argv[1] /\ argv[1] \in Commands \ {"help"}
  BY <1>2 DEF Asked
<1>7. CASE Complete(sub_cmd_name, gvars)
  <2> DEFINE reset == IF sub_cmd_name = "reset" THEN TRUE ELSE gvars.reset_flag
             status == IF sub_cmd_name = "status" THEN TRUE ELSE gvars.status_flag
  <2>1. (gvars.reset_flag \/ sub_cmd_name = "reset") = reset
        /\ (gvars.status_flag \/ sub_cmd_name = "status") = status
    BY <1>3 DEF Globals
  <2>2. reset \in BOOLEAN /\ status \in BOOLEAN
    BY <1>3 DEF Globals
  <2>3. pc' = "done" /\ ret' = "SUCCESS"
        /\ gvars' = [gvars EXCEPT !.reset_flag = gvars.reset_flag \/ sub_cmd_name = "reset",
                                  !.status_flag = gvars.status_flag \/ sub_cmd_name = "status"]
    BY <1>7, Zenon DEF Mandatory, Finish
  <2>4. gvars' = [gvars EXCEPT !.reset_flag = reset, !.status_flag = status]
    BY <2>1, <2>3
  <2>5. reset = (argv[1] = "reset" \/ At(argv, OptionPlaces, "r") # {})
    BY <1>2, <1>6 DEF Told, ToldFlags
  <2> HIDE DEF reset, status
  <2>6. gvars' \in Globals
    BY <1>3, <2>2, <2>4 DEF Globals
  <2>7. Typed'
    BY <1>1, <1>2, <2>3, <2>6 DEF Typed
  <2> DEFINE h == gvars'
  <2>8. /\ h.container_name = gvars.container_name
        /\ h.container_name_flag = gvars.container_name_flag
        /\ h.image_file = gvars.image_file /\ h.image_file_flag = gvars.image_file_flag
        /\ h.args_file = gvars.args_file
        /\ h.tod_val = gvars.tod_val /\ h.tod_flag = gvars.tod_flag
        /\ h.tpc = gvars.tpc /\ h.tpc_flag = gvars.tpc_flag /\ h.reset_flag = reset
        /\ h.debug_flag = gvars.debug_flag /\ h.verbose_flag = gvars.verbose_flag
    BY <1>3, <2>4 DEF Globals
  <2> HIDE DEF h
  <2>9. ToldContainer(argv, dprc, OptionPlaces, h) /\ ToldFiles(argv, OptionPlaces, h)
    BY <1>2, <2>8 DEF Told, ToldContainer, ToldFiles
  <2>10. ToldTime(argv, OptionPlaces, h) /\ ToldThreads(argv, OptionPlaces, h)
    BY <1>2, <2>8 DEF Told, ToldTime, ToldThreads
  <2>11. Complete(sub_cmd_name, h)
    BY <1>7, <2>8 DEF Complete
  <2>12. Left(argv, dprc, sub_cmd_name, OptionPlaces, h)
    BY <1>2, <2>5, <2>8, <2>9, <2>10, <2>11 DEF Left, Told, ToldFlags
  <2> QED BY <1>1, <1>2, <1>4, <2>3, <2>7, <2>12 DEF Inv, Course, h
<1>8. CASE ~Complete(sub_cmd_name, gvars)
  <2>1. pc' = "done" /\ ret' = "FAILURE" /\ gvars' = gvars
    BY <1>8 DEF Mandatory, Finish
  <2>2. Typed'
    BY <1>1, <1>2, <2>1 DEF Typed
  <2> QED BY <1>4, <1>5, <1>8, <2>1, <2>2 DEF Inv, Course
<1> QED BY <1>7, <1>8

LEMMA Stutters == Inv /\ UNCHANGED vars => Inv'
<1> SUFFICES ASSUME Inv, UNCHANGED vars PROVE Inv'
  OBVIOUS
<1>1. UNCHANGED <<argv, dprc, gvars, sub_cmd_name, optind, pc, ret>>
  BY DEF vars
<1>2. Starts' = Starts /\ OptionPlaces' = OptionPlaces /\ (Passes' <=> Passes)
  BY <1>1, LineStays
<1>3. Seen(optind + 1)' = Seen(optind + 1)
  BY <1>1, <1>2 DEF Seen
<1>4. Typed'
  BY <1>1 DEF Inv, Typed
<1> QED BY <1>1, <1>2, <1>3, <1>4 DEF Inv, Course

LEMMA Keeps == Inv /\ [Next]_vars => Inv'
<1>1. Inv /\ Next => Inv'
  BY Execs, Ends, Checks, Finds, Usages, Reads, Finishes DEF Next, ParseStep
<1> QED BY <1>1, Stutters

\* Every round of the option loop, and every other step of the parser, keeps
\* what the globals owe to the words read so far.
THEOREM Invariance == Spec => []Inv
  BY Starting, Keeps, PTL DEF Spec

\* What passes is what is meant to work, but for the disputed lines; of those
\* too the words are where they may stand.
LEMMA Meanings ==
  ASSUME argv \in Seq(Words)
  PROVE  /\ Passes => WordsMeant
         /\ ~Disputed => (Passes <=> MeantToWork)
<1>1. \A cmd \in Commands \ {"help"} : \A o \in ValidArgs(cmd) : Takes(cmd, o)
  BY DEF Commands, ValidArgs, Takes, Letters, WithValue
<1>2. \A cmd \in Commands \ {"help"} : \A o :
        Takes(cmd, o) /\ ~(cmd = "reset" /\ o = "r") => o \in ValidArgs(cmd)
  BY DEF Commands, ValidArgs, Takes, Letters, WithValue
<1>3. Passes => WordsMeant
  <2> SUFFICES ASSUME Passes PROVE WordsMeant
    OBVIOUS
  <2>1. \A i \in OptionPlaces : Takes(argv[1], Word(i).opt)
    BY <1>1 DEF Passes
  <2>2. argv[1] = "settod" => Given("t")
    BY DEF Passes, Given
  <2> QED BY <2>1, <2>2 DEF Passes, WordsMeant
<1>4. ASSUME ~Disputed, argv[1] = "settod"
      PROVE  \A i \in Places("t") : WholeNumber(ValueAt(i)) <=> MeantTime(ValueAt(i))
  BY <1>4 DEF Disputed, MeantTime, DecimalTime
<1>5. ASSUME ~Disputed, Passes
      PROVE  MeantToWork
  BY <1>3, <1>4, <1>5 DEF MeantToWork, Passes
<1>6. ASSUME ~Disputed, MeantToWork
      PROVE  Passes
  <2>1. argv[1] \in Commands \ {"help"} /\ WordsMeant
    BY <1>6 DEF MeantToWork, WordsMeant
  <2>2. ASSUME NEW i \in OptionPlaces
        PROVE  Word(i).opt \in ValidArgs(argv[1])
    <3>1. Takes(argv[1], Word(i).opt)
      BY <2>1 DEF WordsMeant
    <3>2. Word(i).opt = "r" => Given("r")
      BY DEF Given, Places, WithValue
    <3>3. ~(argv[1] = "reset" /\ Word(i).opt = "r")
      BY <1>6, <3>2 DEF Disputed
    <3> QED BY <1>2, <2>1, <3>1, <3>3
  <2>3. argv[1] = "settod" => \E i \in Places("t") : WholeNumber(ValueAt(i))
    BY <1>4, <1>6 DEF MeantToWork
  <2> QED BY <2>1, <2>2, <2>3 DEF WordsMeant, Passes
<1> QED BY <1>3, <1>5, <1>6

\* parse_command_line_args accepts no line whose words may not stand where they
\* do, and of all lines but the disputed ones exactly those that the usage text
\* and the tests mean to work: whatever their words, their number and their order.
THEOREM Verdict == Spec => []VerdictIsMeant
<1>1. ASSUME Inv PROVE VerdictIsMeant
  <2>1. SUFFICES ASSUME pc = "done" PROVE argv \in Seq(Words) /\ (ret = "SUCCESS" <=> Passes)
    BY <2>1, Meanings DEF VerdictIsMeant
  <2>2. argv \in Seq(Words) /\ ret \in {"SUCCESS", "FAILURE"}
    BY <1>1 DEF Inv, Typed
  <2>3. ret = "FAILURE" => ~Passes
    BY <1>1, <2>1 DEF Inv, Course, Left
  <2>4. ASSUME ret = "SUCCESS" PROVE Passes
    <3>1. /\ Asked(argv, sub_cmd_name) /\ Fits(argv, OptionPlaces)
          /\ Left(argv, dprc, sub_cmd_name, OptionPlaces, gvars)
      BY <1>1, <2>1, <2>4 DEF Inv, Course
    <3> QED BY <2>2, <3>1, Mandates DEF Left, ToldContainer, ToldFiles, ToldTime
  <2> QED BY <2>2, <2>3, <2>4
<1> QED BY Invariance, <1>1, PTL

\* The kinds of the globals, one by one.
LEMMA Kinds == Typed => TypeOK
<1> SUFFICES ASSUME Typed PROVE TypeOK
  OBVIOUS
<1>1. /\ gvars.image_file \in Words \cup {Unset} /\ gvars.args_file \in Words \cup {Unset}
      /\ gvars.container_name \in Words \cup {Unset, DEFAULT_DPRC_NAME}
      /\ gvars.container_name_flag \in 0..CONTAINER_USR
      /\ gvars.tpc \in 0..MAX_THREAD_PER_CORE /\ gvars.tod_val \in 0..ULONG_MAX
  BY DEF Typed, Globals
<1>2. \A f \in {"image_file_flag", "args_file_flag", "tpc_flag", "reset_flag", "tod_flag",
                "status_flag", "debug_flag", "verbose_flag"} : gvars[f] \in BOOLEAN
  BY DEF Typed, Globals
<1> QED BY <1>1, <1>2 DEF Typed, TypeOK

\* What the accepted line leaves in the globals is what its options say, each by
\* its last usable occurrence: for every line, whatever the order of its words.
THEOREM Settings == Spec => []SettingsAreMeant
<1>1. ASSUME Inv PROVE SettingsAreMeant
  <2>1. TypeOK
    BY <1>1, Kinds DEF Inv
  <2>2. ASSUME pc = "done", ret = "SUCCESS"
        PROVE  /\ sub_cmd_name = argv[1]
               /\ gvars.container_name =
                    LastValue("g", NameFits,
                              IF dprc # Unset /\ Text[dprc].len < MAX_CONTAINER_NAME_LEN
                                THEN dprc ELSE DEFAULT_DPRC_NAME)
               /\ gvars.image_file = LastValue("f", Usable, Unset)
               /\ gvars.args_file = LastValue("a", Usable, Unset)
               /\ LET t == LastValue("t", WholeNumber, Unset)
                  IN  t # Unset /\ OrdinaryTime(t) => gvars.tod_val = Text[t].digits
               /\ gvars.reset_flag = (argv[1] = "reset" \/ Given("r"))
               /\ gvars.debug_flag = Given("d")
               /\ gvars.verbose_flag = (Given("d") \/ Given("v"))
               /\ ~LongPathGiven => gvars.tpc_flag = Given("c")
               /\ LET c == LastValue("c", Usable, Unset)
                  IN  IF c = Unset THEN gvars.tpc = DEFAULT_THREAD_PER_CORE
                      ELSE OrdinaryCount(c) =>
                             gvars.tpc = IF Text[c].neg \/ Text[c].digits > MAX_THREAD_PER_CORE
                                           THEN DEFAULT_THREAD_PER_CORE ELSE Text[c].digits
    <3> DEFINE S == OptionPlaces
    <3>1. /\ argv \in Seq(Words) /\ Asked(argv, sub_cmd_name) /\ Fits(argv, S)
          /\ Left(argv, dprc, sub_cmd_name, S, gvars)
      BY <1>1, <2>2 DEF Inv, Typed, Course
    <3>2. \A o \in Letters : Given(o) <=> At(argv, S, o) # {}
      BY <3>1, Values DEF Given
    <3>3. {"r", "d", "v", "c", "a"} \subseteq Letters
      BY DEF Letters, WithValue
    <3>4. \A o \in WithValue : \A i \in At(argv, S, o) : i \in Int /\ argv[i + 1] \in Words
      BY <3>1, Values
    <3>5. S \subseteq 1..Len(argv) /\ Len(argv) \in Nat
      BY <3>1 DEF OptionPlaces
    <3>6. \A T \in SUBSET S : T # {} => Max(T) \in T
      BY <3>5, MaxIsGreatest
    <3>7. sub_cmd_name = argv[1]
      BY <3>1 DEF Asked
    <3>8. gvars.container_name =
            LastValue("g", NameFits,
                      IF dprc # Unset /\ Text[dprc].len < MAX_CONTAINER_NAME_LEN
                        THEN dprc ELSE DEFAULT_DPRC_NAME)
      BY <3>1, Values DEF Left, ToldContainer
    <3>9. /\ gvars.image_file = LastValue("f", Usable, Unset)
          /\ gvars.args_file = LastValue("a", Usable, Unset)
      BY <3>1, Values DEF Left, ToldFiles
    <3>10. LET t == LastValue("t", WholeNumber, Unset)
           IN  t # Unset /\ OrdinaryTime(t) => gvars.tod_val = Text[t].digits
      <4> DEFINE T == Timed(argv, S)
                 t == LastOf(argv, T, Unset)
      <4>1. LastValue("t", WholeNumber, Unset) = t
        BY <3>1, Values
      <4>2. CASE T = {}
        <5>1. t = Unset
          BY <4>2 DEF LastOf
        <5> QED BY <4>1, <5>1
      <4>3. CASE T # {}
        <5>1. T \in SUBSET S /\ T \subseteq At(argv, S, "t")
          BY DEF Timed, At
        <5>2. Max(T) \in At(argv, S, "t")
          BY <3>6, <4>3, <5>1
        <5>3. t = argv[Max(T) + 1] /\ argv[Max(T) + 1] \in Words
          BY <3>4, <4>3, <5>2 DEF LastOf, WithValue
        <5>4. gvars.tod_val = strtoul(argv[Max(T) + 1]).val
          BY <3>1, <4>3 DEF Left, ToldTime
        <5> QED BY <4>1, <5>3, <5>4, Ordinary
      <4> QED BY <4>2, <4>3
    <3>11. gvars.reset_flag = (argv[1] = "reset" \/ Given("r"))
      BY <3>1, <3>2, <3>3 DEF Left
    <3>12. gvars.debug_flag = Given("d") /\ gvars.verbose_flag = (Given("d") \/ Given("v"))
      <4>1. /\ gvars.debug_flag = (At(argv, S, "d") # {})
            /\ gvars.verbose_flag = (At(argv, S, "d") # {} \/ At(argv, S, "v") # {})
        BY <3>1 DEF Left
      <4>2. Places("d") = At(argv, S, "d") /\ Places("v") = At(argv, S, "v")
        BY <3>1, <3>3, Values
      <4> QED BY <4>1, <4>2, Zenon DEF Given
    <3>13. ~LongPathGiven => gvars.tpc_flag = Given("c")
      <4>1. SUFFICES ASSUME ~LongPathGiven PROVE gvars.tpc_flag = Given("c")
        OBVIOUS
      <4>2. \A i \in At(argv, S, "a") : ~Spills(argv[i + 1])
        <5>1. Places("a") = At(argv, S, "a")
          BY <3>1, <3>3, Values
        <5> QED BY <4>1, <5>1 DEF LongPathGiven, ValueAt
      <4>3. gvars.tpc_flag = (At(argv, S, "c") # {})
        BY <3>1, <4>2 DEF Left, ToldThreads
      <4>4. Places("c") = At(argv, S, "c")
        BY <3>1, <3>3, Values
      <4> QED BY <4>3, <4>4, Zenon DEF Given
    <3>14. LET c == LastValue("c", Usable, Unset)
           IN  IF c = Unset THEN gvars.tpc = DEFAULT_THREAD_PER_CORE
               ELSE OrdinaryCount(c) =>
                      gvars.tpc = IF Text[c].neg \/ Text[c].digits > MAX_THREAD_PER_CORE
                                    THEN DEFAULT_THREAD_PER_CORE ELSE Text[c].digits
      <4> DEFINE T == At(argv, S, "c")
                 c == LastOf(argv, T, Unset)
      <4>1. LastValue("c", Usable, Unset) = c
        BY <3>1, Values
      <4>2. CASE T = {}
        <5>1. c = Unset /\ gvars.tpc = DEFAULT_THREAD_PER_CORE
          BY <3>1, <4>2 DEF LastOf, Left, ToldThreads
        <5> QED BY <4>1, <5>1
      <4>3. CASE T # {}
        <5>1. Max(T) \in T
          <6>1. T \in SUBSET S
            BY DEF At
          <6> QED BY <3>6, <4>3, <6>1
        <5>2. c = argv[Max(T) + 1] /\ argv[Max(T) + 1] \in Words
          BY <3>4, <4>3, <5>1 DEF LastOf, WithValue
        <5>3. gvars.tpc = Threads(argv[Max(T) + 1]) /\ c # Unset
          BY <3>1, <4>3, <5>2, LinesAssumption DEF Left, ToldThreads
        <5> HIDE DEF T, c
        <5>4. gvars.tpc = Threads(c) /\ c \in Words
          BY <5>2, <5>3
        <5> QED BY <4>1, <5>3, <5>4, Ordinary
      <4> QED BY <4>2, <4>3
    <3> QED BY <3>7, <3>8, <3>9, <3>10, <3>11, <3>12, <3>13, <3>14
  <2> QED BY <2>1, <2>2 DEF SettingsAreMeant
<1> QED BY Invariance, <1>1, PTL

-----------------------------------------------------------------------------
(* What main needs to know of the parser                                    *)

\* What an accepted line asks for, in the words that were given.
LEMMA Accepted ==
  ASSUME Inv, pc = "done", ret = "SUCCESS"
  PROVE  /\ WordsMeant /\ argv[1] \in Commands \ {"help"} /\ sub_cmd_name = argv[1]
         /\ gvars.reset_flag <=> argv[1] = "reset" \/ Given("r")
         /\ gvars.args_file # Unset <=> Given("a")
<1> DEFINE S == OptionPlaces
           T == At(argv, S, "a")
<1>1. /\ argv \in Seq(Words) /\ Asked(argv, sub_cmd_name) /\ Fits(argv, S)
      /\ Left(argv, dprc, sub_cmd_name, S, gvars)
  BY DEF Inv, Typed, Course
<1>2. WordsMeant
  <2>1. Passes
    BY <1>1, Mandates DEF Left, ToldContainer, ToldFiles, ToldTime
  <2> QED BY <1>1, <2>1, Meanings
<1>3. Places("r") = At(argv, S, "r") /\ Places("a") = T
  BY <1>1, Values DEF Letters, WithValue
<1>4. gvars.reset_flag <=> argv[1] = "reset" \/ Given("r")
  <2>1. gvars.reset_flag = (argv[1] = "reset" \/ At(argv, S, "r") # {})
    BY <1>1 DEF Left
  <2> QED BY <1>3, <2>1, Zenon DEF Given
<1>5. gvars.args_file = LastOf(argv, T, Unset)
  BY <1>1 DEF Left, ToldFiles
<1>6. ASSUME T # {}
      PROVE  gvars.args_file # Unset
  <2>1. Len(argv) \in Nat /\ T \in SUBSET (1..Len(argv))
    BY <1>1 DEF At, OptionPlaces
  <2>2. Max(T) \in T
    BY <1>6, <2>1, MaxIsGreatest
  <2>3. argv[Max(T) + 1] \in Words
    BY <1>1, <2>2, Values DEF WithValue
  <2> QED BY <1>5, <1>6, <2>3, LinesAssumption DEF LastOf
<1>7. T = {} => gvars.args_file = Unset
  BY <1>5 DEF LastOf
<1> HIDE DEF T
<1>8. gvars.args_file # Unset <=> Given("a")
  BY <1>3, <1>6, <1>7, Zenon DEF Given
<1>9. argv[1] \in Commands \ {"help"} /\ sub_cmd_name = argv[1]
  BY <1>1 DEF Asked
<1> QED BY <1>2, <1>4, <1>8, <1>9

\* The parser runs in a process and ends by being done.
LEMMA Parses == ParseStep => pc \notin {"off", "done"} /\ pc' # "off"
  BY DEF ParseStep, CheckHelp, FindSubcmd, Usage, Option, Mandatory, Finish

=============================================================================
