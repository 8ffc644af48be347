---------------------------- MODULE CreditsProofs ----------------------------
(***************************************************************************)
(* Proofs about Credits, for any viewers, channels, cheers, clips, prices  *)
(* and grants, with or without failing transactions.                       *)
(*                                                                         *)
(* Three kinds of transaction write: a credit, a charge and a grant.  Each *)
(* is an upsert of one balance and at most one appended ledger entry, so   *)
(* the lemmas on Upserted and Append carry the proofs.                     *)
(***************************************************************************)
EXTENDS Credits, TLAPS, WellFoundedInduction

EntryType ==
  [viewer : Viewers, streamer : Streamers, delta : Int,
   reason : Reasons, ref : Items \cup Messages \cup {""}]

IInv == TypeOK /\ NeverNegative /\ OneEntryEach

Purse == [a \in Pairs |-> Held(a[1], a[2])]

-----------------------------------------------------------------------------
\* Lemmas on the operators.

\* What a pair holds is never negative.
LEMMA HeldNat ==
  ASSUME TypeOK, NeverNegative, NEW v, NEW s
  PROVE  Held(v, s) \in Int /\ Held(v, s) >= 0
<1>1. CASE <<v, s>> \in DOMAIN balance
  <2>1. \A a \in DOMAIN balance : balance[a] \in Int /\ balance[a] >= 0
    BY DEF TypeOK, NeverNegative
  <2> QED
    BY <1>1, <2>1, Zenon DEF Held
<1>2. CASE <<v, s>> \notin DOMAIN balance
  BY <1>2 DEF Held
<1> QED
  BY <1>1, <1>2

\* An upsert adds to one pair and leaves the others alone.
LEMMA UpsertedFacts ==
  ASSUME TypeOK, NeverNegative,
         NEW v \in Viewers, NEW s \in streamers, NEW delta \in Int,
         Held(v, s) + delta >= 0,
         balance' = Upserted(v, s, delta)
  PROVE  /\ DOMAIN balance' = DOMAIN balance \cup {<<v, s>>}
         /\ DOMAIN balance' \subseteq Viewers \X streamers
         /\ \A a \in DOMAIN balance' : balance'[a] \in Int
         /\ NeverNegative'
         /\ Purse' = [Purse EXCEPT ![<<v, s>>] = @ + delta]
<1>a. DOMAIN balance \subseteq Viewers \X streamers /\ streamers \subseteq Streamers
  BY DEF TypeOK
<1>b. \A a \in DOMAIN balance : balance[a] \in Int /\ balance[a] >= 0
  BY DEF TypeOK, NeverNegative
<1>1. Held(v, s) \in Int
  BY HeldNat
<1>2. DOMAIN balance' = DOMAIN balance \cup {<<v, s>>}
  BY DEF Upserted
<1>3. <<v, s>> \in DOMAIN balance' /\ balance'[<<v, s>>] = Held(v, s) + delta
  BY DEF Upserted
<1>4. \A a \in DOMAIN balance : a # <<v, s>> => balance'[a] = balance[a]
  BY DEF Upserted
<1>5. DOMAIN balance' \subseteq Viewers \X streamers
  BY <1>a, <1>2
<1>6. \A a \in DOMAIN balance' : balance'[a] \in Int /\ balance'[a] >= 0
  BY <1>b, <1>1, <1>2, <1>3, <1>4
<1>7. \A a \in Pairs : Held(a[1], a[2])' =
        IF a = <<v, s>> THEN Held(v, s) + delta ELSE Held(a[1], a[2])
  <2> SUFFICES ASSUME NEW a \in Pairs
               PROVE  Held(a[1], a[2])' =
                        IF a = <<v, s>> THEN Held(v, s) + delta ELSE Held(a[1], a[2])
    OBVIOUS
  <2>1. a = <<a[1], a[2]>>
    BY DEF Pairs
  <2>2. CASE a = <<v, s>>
    BY <1>3, <2>1, <2>2 DEF Held
  <2>3. CASE a # <<v, s>>
    BY <1>2, <1>4, <2>1, <2>3 DEF Held
  <2> QED
    BY <2>2, <2>3
<1>8. <<v, s>> \in Pairs
  BY <1>a DEF Pairs
<1>9. Purse' = [Purse EXCEPT ![<<v, s>>] = @ + delta]
  <2> DEFINE P == [a \in Pairs |-> IF a = <<v, s>> THEN Held(v, s) + delta
                                   ELSE Held(a[1], a[2])]
  <2>1. Purse' = P
    BY <1>7 DEF Purse
  <2>2. Purse[<<v, s>>] = Held(v, s)
    BY <1>8 DEF Purse
  <2>3. [Purse EXCEPT ![<<v, s>>] = @ + delta] = P
    BY <2>2 DEF Purse
  <2> QED
    BY <2>1, <2>3
<1> QED
  BY <1>2, <1>5, <1>6, <1>9 DEF NeverNegative

\* An appended entry is added to the entries of its reason and reference.
LEMMA AppendedFacts ==
  ASSUME TypeOK, NEW e \in EntryType, ledger' = Append(ledger, e)
  PROVE  /\ ledger' \in Seq(EntryType)
         /\ \A k \in DOMAIN ledger' :
              \/ k \in DOMAIN ledger /\ ledger'[k] = ledger[k]
              \/ k = Len(ledger) + 1 /\ ledger'[k] = e
         /\ \A k \in DOMAIN ledger : k \in DOMAIN ledger' /\ ledger'[k] = ledger[k]
         /\ Len(ledger) + 1 \notin DOMAIN ledger
         /\ Len(ledger) + 1 \in DOMAIN ledger'
         /\ ledger'[Len(ledger) + 1] = e
<1>1. ledger \in Seq(EntryType)
  BY DEF TypeOK, EntryType
<1> QED
  BY <1>1

LEMMA EntriesAfter ==
  ASSUME TypeOK, NEW e \in EntryType, ledger' = Append(ledger, e), NEW reason, NEW ref
  PROVE  /\ \A k \in EntriesOf(reason, ref) : k # Len(ledger) + 1 /\ ledger'[k] = ledger[k]
         /\ EntriesOf(reason, ref)' =
              IF e.reason = reason /\ e.ref = ref
              THEN EntriesOf(reason, ref) \cup {Len(ledger) + 1}
              ELSE EntriesOf(reason, ref)
BY AppendedFacts DEF EntriesOf

\* Without an appended entry, entries are unchanged.
LEMMA EntriesSame ==
  ASSUME UNCHANGED ledger, NEW reason, NEW ref
  PROVE  EntriesOf(reason, ref)' = EntriesOf(reason, ref)
BY DEF EntriesOf

\* An entry for something else leaves the entry of a message or a clip alone.
LEMMA CheerKept ==
  ASSUME TypeOK, NEW e \in EntryType, ledger' = Append(ledger, e),
         NEW m, CheeredOnce(m), ~(e.reason = "cheer" /\ e.ref = m),
         m \in events' <=> m \in events
  PROVE  CheeredOnce(m)'
<1>1. EntriesOf("cheer", m)' = EntriesOf("cheer", m)
  BY EntriesAfter
<1>2. \A k \in EntriesOf("cheer", m) : ledger'[k] = ledger[k]
  BY EntriesAfter
<1> QED
  BY <1>1, <1>2 DEF CheeredOnce, Entry

LEMMA ChargeKept ==
  ASSUME TypeOK, NEW e \in EntryType, ledger' = Append(ledger, e),
         NEW i, ChargedOnce(i), ~(e.reason = "submit" /\ e.ref = i),
         charge'[i] = charge[i]
  PROVE  ChargedOnce(i)'
<1>1. EntriesOf("submit", i)' = EntriesOf("submit", i)
  BY EntriesAfter
<1>2. \A k \in EntriesOf("submit", i) : ledger'[k] = ledger[k]
  BY EntriesAfter
<1> QED
  BY <1>1, <1>2 DEF ChargedOnce

-----------------------------------------------------------------------------
\* Transactions.

\* The part of TypeOK that a transaction of the store may disturb.
StoreTypes ==
  /\ DOMAIN balance \subseteq Viewers \X streamers
  /\ \A a \in DOMAIN balance : balance[a] \in Int
  /\ events \subseteq Messages
  /\ ledger \in Seq(EntryType)
  /\ charge \in [Items -> {"none", "paid", "refused", "failed"}]

\* A credit: the new message gets its one entry, the others keep theirs.
LEMMA CreditKeeps ==
  ASSUME IInv, NEW m \in Messages, Creditable(m), m \notin events,
         Cheer[m].streamer \in streamers, CreditBits(m), UNCHANGED <<streamers, charge>>
  PROVE  StoreTypes' /\ NeverNegative' /\ OneEntryEach' /\ Accounts!Credit(m)
<1> DEFINE c == Cheer[m]
           e == Entry(c.viewer, c.streamer, c.bits, "cheer", m)
<1>1. /\ c.viewer \in Viewers /\ c.streamer \in Streamers /\ c.streamer \in streamers
      /\ c.bits \in Int /\ c.bits > 0
  BY CreditsAssumption DEF Creditable, IInv, TypeOK
<1>2. e \in EntryType
  BY <1>1 DEF Entry, EntryType, Reasons
<1>3. /\ e.viewer = c.viewer /\ e.streamer = c.streamer /\ e.delta = c.bits
      /\ e.reason = "cheer" /\ e.ref = m
  BY DEF Entry
<1>4. balance' = Upserted(c.viewer, c.streamer, c.bits) /\ ledger' = Append(ledger, e)
      /\ events' = events \cup {m}
  BY DEF CreditBits
<1>5. Held(c.viewer, c.streamer) \in Int /\ Held(c.viewer, c.streamer) >= 0
  BY HeldNat, <1>1 DEF IInv
<1> HIDE DEF c, e
<1>6. /\ DOMAIN balance' \subseteq Viewers \X streamers
      /\ \A a \in DOMAIN balance' : balance'[a] \in Int
      /\ NeverNegative'
      /\ Purse' = [Purse EXCEPT ![<<c.viewer, c.streamer>>] = @ + c.bits]
  <2>1. Held(c.viewer, c.streamer) + c.bits >= 0
    BY <1>1, <1>5
  <2> QED
    BY <1>1, <1>4, <2>1, UpsertedFacts DEF IInv
<1>7. \A x \in Messages : CheeredOnce(x)'
  <2> SUFFICES ASSUME NEW x \in Messages PROVE CheeredOnce(x)'
    OBVIOUS
  <2>1. CheeredOnce(x)
    BY DEF IInv, OneEntryEach
  <2>2. CASE x # m
    BY <1>2, <1>3, <1>4, <2>1, <2>2, CheerKept DEF IInv
  <2>3. CASE x = m
    <3>1. EntriesOf("cheer", m) = {}
      BY <2>1, <2>3 DEF CheeredOnce
    <3>2. EntriesOf("cheer", m)' = {Len(ledger) + 1}
      BY <1>2, <1>3, <1>4, <3>1, EntriesAfter DEF IInv
    <3>3. ledger'[Len(ledger) + 1] = e
      BY <1>2, <1>4, AppendedFacts DEF IInv
    <3>4. e = Entry(Cheer[m].viewer, Cheer[m].streamer, Cheer[m].bits, "cheer", m)
      BY DEF e, c
    <3> QED
      BY <1>4, <2>3, <3>2, <3>3, <3>4 DEF CheeredOnce, Entry
  <2> QED
    BY <2>2, <2>3
<1>8. \A i \in Items : ChargedOnce(i)'
  <2> SUFFICES ASSUME NEW i \in Items PROVE ChargedOnce(i)'
    OBVIOUS
  <2>1. ChargedOnce(i)
    BY DEF IInv, OneEntryEach
  <2> QED
    BY <1>2, <1>3, <1>4, <2>1, ChargeKept DEF IInv
<1>9. events' \subseteq Messages /\ ledger' \in Seq(EntryType)
  BY <1>2, <1>4, AppendedFacts DEF IInv, TypeOK
<1>10. charge' \in [Items -> {"none", "paid", "refused", "failed"}]
  BY DEF IInv, TypeOK
<1>11. Accounts!Credit(m)
  BY <1>4, <1>6 DEF Accounts!Credit, Purse, c
<1> QED
  BY <1>6, <1>7, <1>8, <1>9, <1>10, <1>11 DEF StoreTypes, OneEntryEach

\* A charge that succeeds: the clip gets its entry unless it was free.
LEMMA PaymentKeeps ==
  ASSUME IInv, NEW v \in Viewers, NEW s \in Streamers, NEW i \in Items,
         charge[i] = "none",
         <<v, s>> \in DOMAIN balance, balance[<<v, s>>] >= Price[i],
         balance' = Upserted(v, s, -Price[i]),
         ledger' = IF Price[i] = 0 THEN ledger
                   ELSE Append(ledger, Entry(v, s, -Price[i], "submit", i)),
         charge' = [charge EXCEPT ![i] = "paid"], UNCHANGED <<streamers, events>>
  PROVE  StoreTypes' /\ NeverNegative' /\ OneEntryEach' /\ Accounts!Pay(i, <<v, s>>)
<1> DEFINE e == Entry(v, s, -Price[i], "submit", i)
<1>1. Price[i] \in Nat /\ -Price[i] \in Int
  BY CreditsAssumption
<1>2. e \in EntryType /\ e.reason = "submit" /\ e.ref = i /\ e.delta = -Price[i]
  BY <1>1 DEF Entry, EntryType, Reasons
<1> HIDE DEF e
<1>3. s \in streamers /\ streamers \subseteq Streamers
  BY DEF IInv, TypeOK
<1>4. Held(v, s) \in Int /\ Held(v, s) = balance[<<v, s>>]
  BY HeldNat DEF IInv, Held
<1>5. /\ DOMAIN balance' \subseteq Viewers \X streamers
      /\ \A a \in DOMAIN balance' : balance'[a] \in Int
      /\ NeverNegative'
      /\ Purse' = [Purse EXCEPT ![<<v, s>>] = @ + -Price[i]]
  <2>1. Held(v, s) + -Price[i] >= 0
    BY <1>1, <1>4
  <2> QED
    BY <1>1, <1>3, <2>1, UpsertedFacts DEF IInv
<1>6. charge \in [Items -> {"none", "paid", "refused", "failed"}] /\ ledger \in Seq(EntryType)
  BY DEF IInv, TypeOK, EntryType
<1>7. /\ charge' \in [Items -> {"none", "paid", "refused", "failed"}]
      /\ charge'[i] = "paid" /\ \A j \in Items \ {i} : charge'[j] = charge[j]
  BY <1>6
<1>8. ASSUME Price[i] = 0 PROVE ledger' \in Seq(EntryType) /\ OneEntryEach'
  <2>1. UNCHANGED ledger
    BY <1>8
  <2>2. \A m \in Messages : CheeredOnce(m)'
    BY <2>1, EntriesSame DEF IInv, OneEntryEach, CheeredOnce, Entry
  <2>3. \A j \in Items : ChargedOnce(j)'
    BY <1>7, <1>8, <2>1, EntriesSame DEF IInv, OneEntryEach, ChargedOnce
  <2> QED
    BY <1>6, <2>1, <2>2, <2>3 DEF OneEntryEach
<1>9. ASSUME Price[i] # 0 PROVE ledger' \in Seq(EntryType) /\ OneEntryEach'
  <2>1. ledger' = Append(ledger, e)
    BY <1>9 DEF e
  <2>2. \A m \in Messages : CheeredOnce(m)'
    BY <1>2, <2>1, CheerKept DEF IInv, OneEntryEach
  <2>3. ASSUME NEW j \in Items, j # i PROVE ChargedOnce(j)'
    BY <1>2, <1>7, <2>1, <2>3, ChargeKept DEF IInv, OneEntryEach
  <2>4. ChargedOnce(i)'
    <3>1. EntriesOf("submit", i) = {}
      BY DEF IInv, OneEntryEach, ChargedOnce
    <3>2. EntriesOf("submit", i)' = {Len(ledger) + 1}
      BY <1>2, <2>1, <3>1, EntriesAfter DEF IInv
    <3>3. ledger'[Len(ledger) + 1] = e
      BY <1>2, <2>1, AppendedFacts DEF IInv
    <3>4. charge'[i] = "paid" /\ Price[i] > 0
      BY <1>1, <1>7, <1>9
    <3>5. EntriesOf("submit", i)' # {} /\ \A k, l \in EntriesOf("submit", i)' : k = l
      BY <3>2
    <3>6. \A k \in EntriesOf("submit", i)' : ledger'[k].delta = -Price[i]
      BY <1>2, <3>2, <3>3
    <3> QED
      BY <3>4, <3>5, <3>6 DEF ChargedOnce
  <2>5. ledger' \in Seq(EntryType)
    BY <1>2, <2>1, AppendedFacts DEF IInv
  <2> QED
    BY <2>2, <2>3, <2>4, <2>5 DEF OneEntryEach
<1>10. events' \subseteq Messages /\ ledger' \in Seq(EntryType) /\ OneEntryEach'
  BY <1>8, <1>9 DEF IInv, TypeOK
<1>11. Accounts!Pay(i, <<v, s>>)
  <2>1. Purse[<<v, s>>] = Held(v, s)
    BY DEF Purse, Pairs
  <2>2. Purse[<<v, s>>] >= Price[i]
    BY <1>4, <2>1
  <2>3. Purse' = [Purse EXCEPT ![<<v, s>>] = @ - Price[i]]
    BY <1>1, <1>4, <1>5, <2>1
  <2>4. {j \in Items : charge'[j] = "paid"} = {j \in Items : charge[j] = "paid"} \cup {i}
    BY <1>7
  <2> QED
    BY <2>2, <2>3, <2>4 DEF Accounts!Pay, Purse
<1> QED
  BY <1>5, <1>7, <1>10, <1>11 DEF StoreTypes

LEMMA SumNotNegative == \A a, b \in Int : a >= 0 /\ b > 0 => a + b >= 0
OBVIOUS

LEMMA GrantsPositive == \A amount \in Amounts : amount \in Int /\ amount > 0
<1>1. Amounts \subseteq Nat \ {0}
  BY CreditsAssumption
<1> QED
  BY <1>1

\* A grant: its entry belongs to no message and no clip.
LEMMA GrantKeeps ==
  ASSUME IInv, NEW v \in Viewers, NEW s \in streamers, NEW amount \in Amounts,
         balance' = Upserted(v, s, amount),
         ledger' = Append(ledger, Entry(v, s, amount, "dev_grant", "")),
         UNCHANGED <<streamers, events, charge>>
  PROVE  StoreTypes' /\ NeverNegative' /\ OneEntryEach' /\ Accounts!Grant(<<v, s>>, amount)
<1> DEFINE e == Entry(v, s, amount, "dev_grant", "")
<1>1. amount \in Int /\ amount > 0
  BY GrantsPositive
<1>2. s \in Streamers
  BY DEF IInv, TypeOK
<1>3. e \in EntryType /\ e.reason = "dev_grant"
  BY <1>1, <1>2 DEF Entry, EntryType, Reasons
<1>4. ledger' = Append(ledger, e)
  OBVIOUS
<1> HIDE DEF e
<1>5. Held(v, s) \in Int /\ Held(v, s) >= 0
  BY HeldNat DEF IInv
<1>6. /\ DOMAIN balance' \subseteq Viewers \X streamers
      /\ \A a \in DOMAIN balance' : balance'[a] \in Int
      /\ NeverNegative'
      /\ Purse' = [Purse EXCEPT ![<<v, s>>] = @ + amount]
  <2>1. Held(v, s) + amount >= 0
    BY <1>1, <1>5, SumNotNegative, Zenon
  <2> QED
    BY <1>1, <2>1, UpsertedFacts DEF IInv
<1>7. \A m \in Messages : CheeredOnce(m)'
  BY <1>3, <1>4, CheerKept DEF IInv, OneEntryEach
<1>8. \A i \in Items : ChargedOnce(i)'
  BY <1>3, <1>4, ChargeKept DEF IInv, OneEntryEach
<1>9. ledger' \in Seq(EntryType) /\ events' \subseteq Messages
  BY <1>3, <1>4, AppendedFacts DEF IInv, TypeOK
<1>10. charge' \in [Items -> {"none", "paid", "refused", "failed"}]
  BY DEF IInv, TypeOK
<1>11. Accounts!Grant(<<v, s>>, amount)
  BY <1>6 DEF Accounts!Grant, Purse
<1> QED
  BY <1>6, <1>7, <1>8, <1>9, <1>10, <1>11 DEF StoreTypes, OneEntryEach

\* A step that writes neither a balance nor an entry.
LEMMA QuietKeeps ==
  ASSUME IInv, streamers \subseteq streamers', UNCHANGED <<balance, events, ledger>>,
         \/ UNCHANGED charge
         \/ \E i \in Items, out \in {"refused", "failed"} :
              charge[i] = "none" /\ charge' = [charge EXCEPT ![i] = out]
  PROVE  /\ StoreTypes' /\ NeverNegative' /\ OneEntryEach'
         /\ Purse' = Purse /\ {i \in Items : charge'[i] = "paid"} = {i \in Items : charge[i] = "paid"}
<1>1. charge \in [Items -> {"none", "paid", "refused", "failed"}]
  BY DEF IInv, TypeOK
<1>2. /\ charge' \in [Items -> {"none", "paid", "refused", "failed"}]
      /\ \A i \in Items : charge'[i] = "paid" <=> charge[i] = "paid"
  BY <1>1
<1>3. \A m \in Messages : CheeredOnce(m)'
  BY EntriesSame DEF IInv, OneEntryEach, CheeredOnce, Entry
<1>4. \A i \in Items : ChargedOnce(i)'
  BY <1>2, EntriesSame DEF IInv, OneEntryEach, ChargedOnce
<1>5. Purse' = Purse
  BY DEF Purse, Held
<1>6. DOMAIN balance' \subseteq Viewers \X streamers'
      /\ (\A a \in DOMAIN balance' : balance'[a] \in Int)
      /\ events' \subseteq Messages /\ ledger' \in Seq(EntryType)
  BY DEF IInv, TypeOK, EntryType
<1>7. NeverNegative'
  BY DEF IInv, NeverNegative
<1> QED
  BY <1>2, <1>3, <1>4, <1>5, <1>6, <1>7 DEF StoreTypes, OneEntryEach

-----------------------------------------------------------------------------
\* The specification.

\* The step of the accounts that a step of the store implements.
AccountStep == [Accounts!Next]_(Accounts!vars)

LEMMA InitIInv == Init => IInv /\ Accounts!Init
<1> SUFFICES ASSUME Init PROVE IInv /\ Accounts!Init
  OBVIOUS
<1>1. balance = << >> /\ ledger = << >> /\ DOMAIN balance = {} /\ DOMAIN ledger = {}
  BY DEF Init
<1>2. TypeOK
  BY <1>1, CreditsAssumption DEF Init, TypeOK
<1>3. NeverNegative
  BY <1>1 DEF NeverNegative
<1>4. OneEntryEach
  BY <1>1 DEF Init, OneEntryEach, CheeredOnce, ChargedOnce, EntriesOf
<1>5. Purse = [a \in Pairs |-> 0]
  BY <1>1 DEF Purse, Held
<1>6. Accounts!Init
  BY <1>5 DEF Accounts!Init, Purse, Init
<1> QED
  BY <1>2, <1>3, <1>4, <1>6 DEF IInv

\* What is left of TypeOK when the store's part is given.
LEMMA TypesFromStore ==
  ASSUME StoreTypes', streamers' \subseteq Streamers,
         wire' \in [Messages -> {"unsent", "sent", "acked", "expired"}]
  PROVE  TypeOK'
BY DEF StoreTypes, TypeOK, EntryType

\* A step that writes neither a balance nor an entry is a stutter of the accounts.
LEMMA QuietStutters ==
  ASSUME Purse' = Purse, events' = events,
         {i \in Items : charge'[i] = "paid"} = {i \in Items : charge[i] = "paid"}
  PROVE  AccountStep
BY DEF AccountStep, Accounts!vars, Purse

LEMMA RegisterStep ==
  ASSUME IInv, NEW s \in Streamers, Register(s)
  PROVE  IInv' /\ AccountStep
<1>1. /\ streamers \subseteq streamers' /\ streamers' \subseteq Streamers
      /\ UNCHANGED <<balance, events, ledger, charge, wire>>
  BY DEF Register, IInv, TypeOK
<1>2. StoreTypes' /\ NeverNegative' /\ OneEntryEach' /\ AccountStep
  BY <1>1, QuietKeeps, QuietStutters
<1>3. TypeOK'
  BY <1>1, <1>2, TypesFromStore DEF IInv, TypeOK
<1> QED
  BY <1>2, <1>3 DEF IInv

LEMMA SpendStep ==
  ASSUME IInv, NEW v \in Viewers, NEW s \in Streamers, NEW i \in Items, SpendCredits(v, s, i)
  PROVE  IInv' /\ AccountStep
<1>1. charge[i] = "none" /\ UNCHANGED <<streamers, events, wire>>
  BY DEF SpendCredits
<1>2. ASSUME <<v, s>> \in DOMAIN balance, balance[<<v, s>>] >= Price[i],
             balance' = Upserted(v, s, -Price[i]),
             ledger' = IF Price[i] = 0 THEN ledger
                       ELSE Append(ledger, Entry(v, s, -Price[i], "submit", i)),
             charge' = [charge EXCEPT ![i] = "paid"]
      PROVE  StoreTypes' /\ NeverNegative' /\ OneEntryEach' /\ AccountStep
  <2>1. StoreTypes' /\ NeverNegative' /\ OneEntryEach' /\ Accounts!Pay(i, <<v, s>>)
    BY <1>1, <1>2, PaymentKeeps
  <2>2. <<v, s>> \in Pairs
    BY DEF Pairs
  <2> QED
    BY <2>1, <2>2 DEF AccountStep, Accounts!Next
<1>3. ASSUME UNCHANGED <<balance, ledger>>, NEW out \in {"refused", "failed"},
             charge' = [charge EXCEPT ![i] = out]
      PROVE  StoreTypes' /\ NeverNegative' /\ OneEntryEach' /\ AccountStep
  BY <1>1, <1>3, QuietKeeps, QuietStutters
<1>4. StoreTypes' /\ NeverNegative' /\ OneEntryEach' /\ AccountStep
  BY <1>2, <1>3 DEF SpendCredits
<1>5. TypeOK'
  BY <1>1, <1>4, TypesFromStore DEF IInv, TypeOK
<1> QED
  BY <1>4, <1>5 DEF IInv

LEMMA GrantStep ==
  ASSUME IInv, NEW v \in Viewers, NEW s \in Streamers, NEW amount \in Amounts,
         GrantCredits(v, s, amount)
  PROVE  IInv' /\ AccountStep
<1>1. s \in streamers /\ UNCHANGED <<streamers, events, charge, wire>>
  BY DEF GrantCredits
<1>2. StoreTypes' /\ NeverNegative' /\ OneEntryEach' /\ Accounts!Grant(<<v, s>>, amount)
  BY <1>1, GrantKeeps DEF GrantCredits
<1>3. <<v, s>> \in Pairs
  BY DEF Pairs
<1>4. AccountStep
  BY <1>2, <1>3 DEF AccountStep, Accounts!Next
<1>5. TypeOK'
  BY <1>1, <1>2, TypesFromStore DEF IInv, TypeOK
<1> QED
  BY <1>2, <1>4, <1>5 DEF IInv

LEMMA NotifyStep ==
  ASSUME IInv, NEW m \in Messages, NotifyTwitch(m)
  PROVE  IInv' /\ AccountStep
<1>1. HandleCheer(m) /\ UNCHANGED <<streamers, charge>>
  BY DEF NotifyTwitch
<1>2. wire' \in [Messages -> {"unsent", "sent", "acked", "expired"}]
  BY DEF NotifyTwitch, IInv, TypeOK
<1>3. ASSUME UNCHANGED <<balance, events, ledger>>
      PROVE  StoreTypes' /\ NeverNegative' /\ OneEntryEach' /\ AccountStep
  BY <1>1, <1>3, QuietKeeps, QuietStutters
<1>4. ASSUME Creditable(m), m \notin events, Cheer[m].streamer \in streamers, CreditBits(m)
      PROVE  StoreTypes' /\ NeverNegative' /\ OneEntryEach' /\ AccountStep
  BY <1>1, <1>4, CreditKeeps DEF AccountStep, Accounts!Next
<1>5. StoreTypes' /\ NeverNegative' /\ OneEntryEach' /\ AccountStep
  BY <1>1, <1>3, <1>4 DEF HandleCheer
<1>6. TypeOK'
  BY <1>1, <1>2, <1>5, TypesFromStore DEF IInv, TypeOK
<1> QED
  BY <1>5, <1>6 DEF IInv

\* Twitch's own steps, and stuttering.
LEMMA WireStep ==
  ASSUME IInv, UNCHANGED <<streamers, balance, events, ledger, charge>>,
         wire' \in [Messages -> {"unsent", "sent", "acked", "expired"}]
  PROVE  IInv' /\ AccountStep
<1>1. StoreTypes' /\ NeverNegative' /\ OneEntryEach' /\ AccountStep
  BY QuietKeeps, QuietStutters
<1>2. TypeOK'
  BY <1>1, TypesFromStore DEF IInv, TypeOK
<1> QED
  BY <1>1, <1>2 DEF IInv

LEMMA NextKeeps == IInv /\ [Next]_vars => IInv' /\ AccountStep
<1> SUFFICES ASSUME IInv, [Next]_vars PROVE IInv' /\ AccountStep
  OBVIOUS
<1>1. ASSUME NEW s \in Streamers \ streamers, Register(s) PROVE IInv' /\ AccountStep
  BY <1>1, RegisterStep
<1>2. ASSUME NEW v \in Viewers, NEW s \in Streamers, NEW i \in Items, SpendCredits(v, s, i)
      PROVE  IInv' /\ AccountStep
  BY <1>2, SpendStep
<1>3. ASSUME NEW v \in Viewers, NEW s \in Streamers, NEW amount \in Amounts,
             GrantCredits(v, s, amount)
      PROVE  IInv' /\ AccountStep
  BY <1>3, GrantStep
<1>4. ASSUME NEW m \in Messages, CheerSent(m) PROVE IInv' /\ AccountStep
  BY <1>4, WireStep DEF CheerSent, IInv, TypeOK
<1>5. ASSUME NEW m \in Messages, NotifyTwitch(m) PROVE IInv' /\ AccountStep
  BY <1>5, NotifyStep
<1>6. ASSUME NEW m \in Messages, Expire(m) PROVE IInv' /\ AccountStep
  BY <1>6, WireStep DEF Expire, IInv, TypeOK
<1>7. ASSUME UNCHANGED vars PROVE IInv' /\ AccountStep
  BY <1>7, WireStep DEF vars, IInv, TypeOK
<1> QED
  BY <1>1, <1>2, <1>3, <1>4, <1>5, <1>6, <1>7 DEF Next, Webhook

-----------------------------------------------------------------------------
\* What the ledger adds up to.

\* A set of numbers with 0 and with the successor of each of its members has them all:
\* a least number outside it would have its predecessor in it.
LEMMA Induction ==
  ASSUME NEW P \in SUBSET Nat, 0 \in P, \A n \in P : n + 1 \in P
  PROVE  P = Nat
<1> DEFINE Rest == Nat \ P
<1>1. SUFFICES ASSUME Rest # {} PROVE FALSE
  OBVIOUS
<1>2. PICK x \in Rest : \A y \in Rest : <<y, x>> \notin OpToRel(<, Nat)
  <2>1. IsWellFoundedOn(OpToRel(<, Nat), Nat)
    BY NatLessThanWellFounded
  <2> HIDE DEF Rest
  <2> QED
    BY <1>1, <2>1, WFMin DEF Rest
<1>3. \A y \in Rest : ~(y < x)
  BY <1>2 DEF OpToRel
<1> QED
  BY <1>3

\* f holds the sums of the first 0 .. k entries.
SumsTo(f, k, q, v, s) ==
  /\ DOMAIN f = 0 .. k
  /\ f[0] = 0
  /\ \A n \in 1 .. k : f[n] = f[n - 1] + Share(q[n], v, s)

\* The recursive function of SumOf exists, by induction on its length.
LEMMA SumsExist ==
  ASSUME NEW q \in Seq(EntryType), NEW v, NEW s, NEW k \in 0 .. Len(q)
  PROVE  \E f : f = [n \in 0 .. k |-> IF n = 0 THEN 0 ELSE f[n - 1] + Share(q[n], v, s)]
<1> DEFINE Fill(f, j) == f = [n \in 0 .. j |-> IF n = 0 THEN 0 ELSE f[n - 1] + Share(q[n], v, s)]
           P == {j \in Nat : \E f : Fill(f, j)}
<1>1. 0 \in P
  <2>1. Fill([n \in 0 .. 0 |-> 0], 0)
    OBVIOUS
  <2> QED
    BY <2>1
<1>2. ASSUME NEW j \in P PROVE j + 1 \in P
  <2>1. PICK f : Fill(f, j)
    OBVIOUS
  <2> DEFINE g == [n \in 0 .. j + 1 |-> IF n <= j THEN f[n] ELSE f[j] + Share(q[j + 1], v, s)]
  <2>2. j \in Nat
    OBVIOUS
  <2>3. ASSUME NEW n \in 0 .. j + 1
        PROVE  g[n] = IF n = 0 THEN 0 ELSE g[n - 1] + Share(q[n], v, s)
    BY <2>1, <2>2
  <2>4. Fill(g, j + 1)
    BY <2>3
  <2> HIDE DEF g, Fill
  <2>5. \E h : Fill(h, j + 1)
    BY <2>4
  <2> QED
    BY <2>2, <2>5
<1>3. P = Nat
  <2> HIDE DEF P
  <2>1. P \in SUBSET Nat
    BY DEF P
  <2> QED
    BY <1>1, <1>2, <2>1, Induction
<1>4. k \in Nat
  OBVIOUS
<1> QED
  BY <1>3, <1>4

\* SumOf is the last of the sums that its recursive function holds.
LEMMA SumsAre ==
  ASSUME NEW q \in Seq(EntryType), NEW v, NEW s
  PROVE  \E f : /\ SumsTo(f, Len(q), q, v, s)
                /\ SumOf(q, v, s) = f[Len(q)]
<1> DEFINE f == CHOOSE g : g = [n \in 0 .. Len(q) |-> IF n = 0 THEN 0 ELSE g[n - 1] + Share(q[n], v, s)]
<1>1. Len(q) \in Nat
  OBVIOUS
<1>2. f = [n \in 0 .. Len(q) |-> IF n = 0 THEN 0 ELSE f[n - 1] + Share(q[n], v, s)]
  <2>1. \E g : g = [n \in 0 .. Len(q) |-> IF n = 0 THEN 0 ELSE g[n - 1] + Share(q[n], v, s)]
    BY <1>1, SumsExist
  <2> QED
    BY <2>1, Zenon
<1>3. SumOf(q, v, s) = f[Len(q)]
  BY Zenon DEF SumOf
<1> HIDE DEF f
<1> QED
  BY <1>1, <1>2, <1>3 DEF SumsTo

\* The sums of the first entries do not depend on the entries after them.
LEMMA SumsAgree ==
  ASSUME NEW q, NEW v, NEW s, NEW k \in Nat, NEW j \in k .. k + 1,
         NEW f, NEW g, SumsTo(f, k, q, v, s), SumsTo(g, j, q, v, s)
  PROVE  g[k] = f[k]
<1> DEFINE P == {n \in Nat : n <= k => g[n] = f[n]}
<1>1. 0 \in P
  BY DEF SumsTo
<1>2. ASSUME NEW n \in P PROVE n + 1 \in P
  BY <1>2 DEF SumsTo
<1>3. P = Nat
  <2> HIDE DEF P
  <2>1. P \in SUBSET Nat
    BY DEF P
  <2> QED
    BY <1>1, <1>2, <2>1, Induction
<1> QED
  BY <1>3

LEMMA SumEmpty == ASSUME NEW v, NEW s PROVE SumOf(<< >>, v, s) = 0
<1> DEFINE q == << >>
<1>1. q \in Seq(EntryType) /\ Len(q) = 0
  OBVIOUS
<1> HIDE DEF q
<1>2. PICK f : SumsTo(f, Len(q), q, v, s) /\ SumOf(q, v, s) = f[Len(q)]
  BY <1>1, SumsAre
<1> QED
  BY <1>1, <1>2 DEF SumsTo, q

\* An appended entry adds its share.
LEMMA SumAppended ==
  ASSUME NEW q \in Seq(EntryType), NEW e \in EntryType, NEW v, NEW s
  PROVE  SumOf(Append(q, e), v, s) = SumOf(q, v, s) + Share(e, v, s)
<1> DEFINE r == Append(q, e)
           k == Len(q)
<1>1. /\ r \in Seq(EntryType) /\ k \in Nat /\ Len(r) = k + 1 /\ r[k + 1] = e
      /\ \A n \in 1 .. k : r[n] = q[n]
  OBVIOUS
<1> HIDE DEF r, k
<1>2. PICK f : SumsTo(f, k, q, v, s) /\ SumOf(q, v, s) = f[k]
  BY SumsAre DEF k
<1>3. PICK g : SumsTo(g, k + 1, r, v, s) /\ SumOf(r, v, s) = g[k + 1]
  BY <1>1, SumsAre
<1>4. SumsTo(f, k, r, v, s)
  BY <1>1, <1>2 DEF SumsTo
<1>5. g[k] = f[k]
  BY <1>1, <1>3, <1>4, SumsAgree
<1>6. g[k + 1] = g[k] + Share(e, v, s)
  BY <1>1, <1>3 DEF SumsTo
<1> QED
  BY <1>2, <1>3, <1>5, <1>6 DEF r

-----------------------------------------------------------------------------
\* The balance follows the ledger.

\* Only the pair of an entry gets a share of it.
LEMMA SharesOf ==
  ASSUME NEW e \in EntryType, NEW v, NEW s
  PROVE  Share(e, v, s) = IF <<v, s>> = <<e.viewer, e.streamer>> THEN e.delta ELSE 0
BY DEF Share

\* A transaction that upserts a balance by the delta of the entry it appends.
LEMMA EntryBalances ==
  ASSUME IInv, BalanceMatchesLedger, NEW e \in EntryType, e.streamer \in streamers,
         Held(e.viewer, e.streamer) + e.delta >= 0,
         balance' = Upserted(e.viewer, e.streamer, e.delta), ledger' = Append(ledger, e)
  PROVE  BalanceMatchesLedger'
<1> DEFINE a == <<e.viewer, e.streamer>>
<1>1. e.viewer \in Viewers /\ e.delta \in Int /\ ledger \in Seq(EntryType) /\ a \in Pairs
  BY DEF EntryType, IInv, TypeOK, Pairs
<1>2. Purse' = [Purse EXCEPT ![a] = @ + e.delta]
  BY <1>1, UpsertedFacts DEF IInv
<1> SUFFICES ASSUME NEW v \in Viewers, NEW s \in Streamers
             PROVE  Held(v, s)' = SumOf(ledger', v, s)
  BY DEF BalanceMatchesLedger
<1>3. <<v, s>> \in Pairs /\ Held(v, s) \in Int /\ Held(v, s) = SumOf(ledger, v, s)
  BY HeldNat DEF Pairs, IInv, BalanceMatchesLedger
<1>4. Purse[<<v, s>>] = Held(v, s) /\ Purse'[<<v, s>>] = Held(v, s)'
  BY <1>3 DEF Purse
<1>5. Held(v, s)' = Held(v, s) + (IF <<v, s>> = a THEN e.delta ELSE 0)
  <2>1. DOMAIN Purse = Pairs
    BY DEF Purse
  <2> HIDE DEF a
  <2> QED
    BY <1>1, <1>2, <1>3, <1>4, <2>1
<1>6. SumOf(ledger', v, s) = SumOf(ledger, v, s) + Share(e, v, s)
  BY <1>1, SumAppended
<1> QED
  BY <1>3, <1>5, <1>6, SharesOf

\* A transaction that adds 0 to a balance and appends no entry.
LEMMA FreeBalances ==
  ASSUME IInv, BalanceMatchesLedger, NEW v \in Viewers, NEW s \in streamers,
         balance' = Upserted(v, s, 0), UNCHANGED ledger
  PROVE  BalanceMatchesLedger'
<1>1. <<v, s>> \in Pairs /\ Held(v, s) \in Int /\ Held(v, s) >= 0
  BY HeldNat DEF Pairs, IInv, TypeOK
<1>2. Purse' = [Purse EXCEPT ![<<v, s>>] = @ + 0]
  <2>1. 0 \in Int /\ Held(v, s) + 0 >= 0
    BY <1>1
  <2> QED
    BY <2>1, UpsertedFacts DEF IInv
<1>3. Purse[<<v, s>>] = Held(v, s) /\ Purse = [a \in Pairs |-> Purse[a]]
  BY <1>1 DEF Purse
<1>4. Purse' = Purse
  BY <1>1, <1>2, <1>3
<1>5. ASSUME NEW u \in Viewers, NEW t \in Streamers
      PROVE  Held(u, t)' = Held(u, t)
  <2>1. <<u, t>> \in Pairs
    BY DEF Pairs
  <2>2. Purse[<<u, t>>] = Held(u, t) /\ Purse'[<<u, t>>] = Held(u, t)'
    BY <2>1 DEF Purse
  <2> QED
    BY <1>4, <2>2
<1> QED
  BY <1>5 DEF BalanceMatchesLedger

LEMMA QuietBalances ==
  ASSUME BalanceMatchesLedger, UNCHANGED <<balance, ledger>>
  PROVE  BalanceMatchesLedger'
BY DEF BalanceMatchesLedger, Held

LEMMA SpendBalances ==
  ASSUME IInv, BalanceMatchesLedger,
         NEW v \in Viewers, NEW s \in Streamers, NEW i \in Items, SpendCredits(v, s, i)
  PROVE  BalanceMatchesLedger'
<1>1. CASE UNCHANGED <<balance, ledger>>
  BY <1>1, QuietBalances
<1>2. CASE /\ <<v, s>> \in DOMAIN balance /\ balance[<<v, s>>] >= Price[i]
           /\ balance' = Upserted(v, s, -Price[i])
           /\ ledger' = IF Price[i] = 0 THEN ledger
                        ELSE Append(ledger, Entry(v, s, -Price[i], "submit", i))
  <2> DEFINE e == Entry(v, s, -Price[i], "submit", i)
  <2>1. /\ Price[i] \in Nat /\ -Price[i] \in Int
        /\ s \in streamers /\ Held(v, s) = balance[<<v, s>>] /\ Held(v, s) \in Int
    <3>1. Price[i] \in Nat /\ -Price[i] \in Int
      BY CreditsAssumption
    <3>2. s \in streamers
      BY <1>2 DEF IInv, TypeOK
    <3>3. Held(v, s) = balance[<<v, s>>] /\ Held(v, s) \in Int
      BY <1>2, HeldNat DEF IInv, Held
    <3> QED
      BY <3>1, <3>2, <3>3
  <2>2. e \in EntryType /\ e.viewer = v /\ e.streamer = s /\ e.delta = -Price[i]
    BY <2>1 DEF Entry, EntryType, Reasons
  <2>3. CASE Price[i] = 0
    <3>1. balance' = Upserted(v, s, 0) /\ UNCHANGED ledger
      BY <1>2, <2>3
    <3> QED
      BY <2>1, <3>1, FreeBalances
  <2>4. CASE Price[i] # 0
    <3>1. ledger' = Append(ledger, e) /\ Held(v, s) + -Price[i] >= 0
      BY <1>2, <2>1, <2>4
    <3> HIDE DEF e
    <3> QED
      BY <1>2, <2>1, <2>2, <3>1, EntryBalances
  <2> QED
    BY <2>3, <2>4
<1> QED
  BY <1>1, <1>2 DEF SpendCredits

LEMMA GrantBalances ==
  ASSUME IInv, BalanceMatchesLedger,
         NEW v \in Viewers, NEW s \in Streamers, NEW amount \in Amounts, GrantCredits(v, s, amount)
  PROVE  BalanceMatchesLedger'
<1> DEFINE e == Entry(v, s, amount, "dev_grant", "")
<1>1. amount \in Int /\ amount > 0 /\ Held(v, s) \in Int /\ Held(v, s) >= 0
  BY GrantsPositive, HeldNat DEF IInv
<1>2. e \in EntryType /\ e.viewer = v /\ e.streamer = s /\ e.delta = amount
  BY <1>1 DEF Entry, EntryType, Reasons
<1>3. s \in streamers /\ balance' = Upserted(v, s, amount) /\ ledger' = Append(ledger, e)
  BY DEF GrantCredits
<1>4. Held(v, s) + amount >= 0
  BY <1>1, SumNotNegative, Zenon
<1> HIDE DEF e
<1> QED
  BY <1>2, <1>3, <1>4, EntryBalances

LEMMA NotifyBalances ==
  ASSUME IInv, BalanceMatchesLedger, NEW m \in Messages, NotifyTwitch(m)
  PROVE  BalanceMatchesLedger'
<1>1. CASE UNCHANGED <<balance, ledger>>
  BY <1>1, QuietBalances
<1>2. CASE Creditable(m) /\ Cheer[m].streamer \in streamers /\ CreditBits(m)
  <2> DEFINE c == Cheer[m]
             e == Entry(c.viewer, c.streamer, c.bits, "cheer", m)
  <2>1. c.viewer \in Viewers /\ c.streamer \in Streamers /\ c.bits \in Int /\ c.bits > 0
    BY <1>2, CreditsAssumption DEF Creditable
  <2>2. e \in EntryType /\ e.viewer = c.viewer /\ e.streamer = c.streamer /\ e.delta = c.bits
    BY <2>1 DEF Entry, EntryType, Reasons
  <2>3. balance' = Upserted(c.viewer, c.streamer, c.bits) /\ ledger' = Append(ledger, e)
    BY <1>2 DEF CreditBits
  <2>4. Held(c.viewer, c.streamer) + c.bits >= 0
    BY <2>1, HeldNat, SumNotNegative, Zenon DEF IInv
  <2>5. c.streamer \in streamers
    BY <1>2
  <2> HIDE DEF e, c
  <2> QED
    BY <2>2, <2>3, <2>4, <2>5, EntryBalances
<1> QED
  BY <1>1, <1>2 DEF NotifyTwitch, HandleCheer

LEMMA NextBalances == IInv /\ BalanceMatchesLedger /\ [Next]_vars => BalanceMatchesLedger'
<1> SUFFICES ASSUME IInv, BalanceMatchesLedger, [Next]_vars PROVE BalanceMatchesLedger'
  OBVIOUS
<1>1. CASE UNCHANGED <<balance, ledger>>
  BY <1>1, QuietBalances
<1>2. ASSUME NEW s, Register(s) PROVE UNCHANGED <<balance, ledger>>
  BY <1>2 DEF Register
<1>3. ASSUME NEW m, CheerSent(m) \/ Expire(m) PROVE UNCHANGED <<balance, ledger>>
  BY <1>3 DEF CheerSent, Expire
<1>4. UNCHANGED vars => UNCHANGED <<balance, ledger>>
  BY DEF vars
<1> QED
  BY <1>1, <1>2, <1>3, <1>4, SpendBalances, GrantBalances, NotifyBalances DEF Next, Webhook

LEMMA InitBalances == Init => BalanceMatchesLedger
BY SumEmpty DEF Init, BalanceMatchesLedger, Held

-----------------------------------------------------------------------------
\* Theorems.

THEOREM Invariance == Spec => []IInv
<1>1. Init => IInv
  BY InitIInv
<1>2. IInv /\ [Next]_vars => IInv'
  BY NextKeeps
<1> QED
  BY <1>1, <1>2, PTL DEF Spec

\* The tables keep their types, and balances refer to streamers that have a row.
THEOREM TypeCorrect == Spec => []TypeOK
<1>1. IInv => TypeOK
  BY DEF IInv
<1> QED
  BY <1>1, Invariance, PTL

\* No order of cheers, grants and charges makes a balance negative
\* (the conditional UPDATE of SpendCredits).
THEOREM NonNegative == Spec => []NeverNegative
<1>1. IInv => NeverNegative
  BY DEF IInv
<1> QED
  BY <1>1, Invariance, PTL

\* However often Twitch repeats a message, one ledger entry stands for it, and one
\* for each clip that was paid for (the dedup insert of CreditBits).
THEOREM OnceInLedger == Spec => []OneEntryEach
<1>1. IInv => OneEntryEach
  BY DEF IInv
<1> QED
  BY <1>1, Invariance, PTL

\* No transaction changes a balance without its entry, or by another amount: the
\* entries of a viewer and a channel always add up to the balance.
THEOREM LedgerAddsUp == Spec => []BalanceMatchesLedger
BY Invariance, InitBalances, NextBalances, PTL DEF Spec

\* The store's transactions and the webhook implement plain accounts.
THEOREM Refinement == Spec => ImplementsAccounts
<1>1. Init => Accounts!Init
  BY InitIInv
<1>2. IInv /\ [Next]_vars => [Accounts!Next]_(Accounts!vars)
  BY NextKeeps DEF AccountStep
<1> QED
  BY <1>1, <1>2, Invariance, PTL DEF Spec, ImplementsAccounts, Accounts!Spec
=============================================================================
