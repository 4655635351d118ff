---- MODULE BillingProofs ----
(***************************************************************************)
(* Theorems about Billing, for any processes, buckets, verifications,      *)
(* checkouts and amounts: the money invariant, that the balance is an      *)
(* abstract prepaid account, and that usage is never debited twice.        *)
(***************************************************************************)
EXTENDS Billing, WellFoundedInduction, FiniteSetTheorems, TLAPS

-----------------------------------------------------------------------------
(* The inductive invariant: what Billing's steps need of the state to keep *)
(* the ledger sound.                                                       *)

(* A process holds no more of a bucket than was recorded in it. *)
HeldIsUsage == \A n \in Nodes, b \in Buckets : held[n][b] <= used[b]

(* A flush at work has a bucket in hand, at no more than its usage, and     *)
(* announces crossings of an entry that is there.                           *)
FlushInHand(n, k) ==
  LET f == flush[n][k]
  IN  f.pc # "idle" =>
        /\ f.todo # {}
        /\ f.amount <= used[Earliest(f.todo)]
        /\ f.pc = "emit" => DebitKey(Earliest(f.todo)) \in KeysOf(entries)

FlushesInHand == \A n \in Nodes, k \in Kinds : FlushInHand(n, k)

(* A charge at work has the entry of its crossing. *)
ChargeInHand == charge.pc # "idle" => charge.entry # 0

(* Whoever is about to mark the tenant verified has seen the grant applied. *)
MarkAfterGrant ==
  \A v \in Verifiers : verify[v] = "mark" => GrantKey \in KeysOf(entries)

IInv ==
  /\ TypeOK
  /\ LedgerSound
  /\ HeldIsUsage
  /\ FlushesInHand
  /\ ChargeInHand
  /\ MarkAfterGrant
  /\ NeverOvercharged
  /\ VerifiedHasGrant

-----------------------------------------------------------------------------
(* Operators. *)

Less == {ss \in Nat \X Nat : ss[1] < ss[2]}

LEMMA EarliestType ==
  ASSUME NEW todo \in SUBSET Buckets, todo # {}
  PROVE  Earliest(todo) \in todo
<1>0. OpToRel(<, Nat) = Less BY DEF OpToRel, Less
<1>1. IsWellFoundedOn(Less, Nat) BY <1>0, NatLessThanWellFounded, Zenon
<1>2. todo \subseteq Nat BY BucketsAssumption
<1>3. PICK x \in todo : \A y \in todo : ~ (<<y, x>> \in Less)
  BY <1>1, <1>2, WFMin
<1>4. \A y \in todo : x <= y
  <2> TAKE y \in todo
  <2> DEFINE p == <<y, x>>
  <2>1. p \in Nat \X Nat /\ p[1] = y /\ p[2] = x BY <1>2
  <2>2. ~ (p[1] < p[2]) BY <1>3, <2>1, Zenon DEF Less
  <2> QED BY <1>2, <2>1, <2>2
<1> QED BY <1>4 DEF Earliest

LEMMA KeyTypes ==
  /\ \A b \in Buckets : DebitKey(b) \in Keys
  /\ GrantKey \in Keys
  /\ \A p \in Payments : CreditKey(p) \in Keys
BY DEF Keys, DebitKey, GrantKey, CreditKey

LEMMA DebitKeyInjective ==
  \A b, c \in Buckets : DebitKey(b) = DebitKey(c) => b = c
BY DEF DebitKey

LEMMA OnlyDebits ==
  \A b \in Buckets : /\ DebitKey(b) # GrantKey
                     /\ \A p \in Payments : DebitKey(b) # CreditKey(p)
BY DEF DebitKey, GrantKey, CreditKey

-----------------------------------------------------------------------------
(* Appending keeps a sound ledger sound.                                    *)

LEMMA AppendGrows ==
  ASSUME LedgerTypeOK, NEW e \in Entry
  PROVE  LET es == Append(entries, e)
         IN  /\ es \in Seq(Entry)
             /\ DOMAIN entries = 1..Len(entries)
             /\ DOMAIN es = 1..(Len(entries) + 1)
             /\ Len(es) = Len(entries) + 1
             /\ \A i \in 1..Len(entries) : es[i] = entries[i]
             /\ es[Len(entries) + 1] = e
BY DEF LedgerTypeOK

LEMMA AppendSound ==
  ASSUME LedgerTypeOK, LedgerSound,
         NEW key \in Keys, NEW amount \in Int, NEW forced \in {"none", "active"},
         AppendEntry(key, amount, forced)
  PROVE  /\ LedgerTypeOK'
         /\ LedgerSound'
         /\ KeysOf(entries)' = KeysOf(entries) \union {key}
         /\ \/ UNCHANGED <<entries, balance>>
            \/ entries' = Append(entries, [key |-> key, amount |-> amount,
                                           after |-> balance + amount])
         /\ PrepaidAccount!Count \/ UNCHANGED <<Counted, balance>>
<1> DEFINE current == EnsureBillingRow(lifecycle)
           e == [key |-> key, amount |-> amount, after |-> balance + amount]
<1>0. current \in Lifecycles \ {"none"}
  BY DEF LedgerTypeOK, Lifecycles, EnsureBillingRow
<1>1. CASE /\ key \in KeysOf(entries)
           /\ lifecycle' = current
           /\ UNCHANGED <<entries, balance>>
  <2>1. LedgerTypeOK' BY <1>0, <1>1 DEF LedgerTypeOK, Lifecycles
  <2>2. AddsUp' /\ KeysUnique' BY <1>1 DEF LedgerSound, AddsUp, KeysUnique, After
  <2>3. SolventIsActive' BY <1>1 DEF LedgerSound, SolventIsActive, EnsureBillingRow
  <2>4. KeysOf(entries)' = KeysOf(entries) \union {key} BY <1>1
  <2>5. UNCHANGED <<Counted, balance>> BY <1>1 DEF Counted
  <2> QED BY <1>1, <2>1, <2>2, <2>3, <2>4, <2>5 DEF LedgerSound
<1>2. CASE /\ key \notin KeysOf(entries)
           /\ entries' = Append(entries, e)
           /\ balance' = balance + amount
           /\ lifecycle' = IF forced = "none" THEN NextLifecycle(current, balance + amount)
                           ELSE forced
  <2>0. e \in Entry BY DEF LedgerTypeOK, Entry
  <2> PICK n \in Nat : n = Len(entries) BY DEF LedgerTypeOK
  <2>1. /\ entries' \in Seq(Entry)
        /\ DOMAIN entries = 1..n
        /\ DOMAIN entries' = 1..(n + 1)
        /\ Len(entries') = n + 1
        /\ \A i \in 1..n : entries'[i] = entries[i]
        /\ entries'[n + 1] = e
        /\ n \in Nat
    BY <1>2, <2>0, AppendGrows DEF LedgerTypeOK
  <2>2. LedgerTypeOK'
    BY <1>0, <1>2, <2>1 DEF LedgerTypeOK, Lifecycles, NextLifecycle
  <2>3. AddsUp'
    <3>1. \A i \in 0..n : After(i)' = After(i)
      BY <2>1 DEF After
    <3>2. After(n + 1)' = balance + amount
      BY <2>1 DEF After
    <3>3. balance = After(n) BY DEF LedgerSound, AddsUp
    <3>4. ASSUME NEW i \in 1..(n + 1)
          PROVE  entries'[i].after = After(i - 1)' + entries'[i].amount
      <4>1. CASE i \in 1..n
        <5>1. entries[i].after = After(i - 1) + entries[i].amount
          BY <4>1, <2>1 DEF LedgerSound, AddsUp
        <5>2. entries'[i] = entries[i] /\ i - 1 \in 0..n BY <4>1, <2>1
        <5> QED BY <5>1, <5>2, <3>1
      <4>2. CASE i = n + 1
        <5>1. After(i - 1)' = balance BY <4>2, <3>1, <3>3, <2>1
        <5> QED BY <5>1, <4>2, <2>1
      <4> QED BY <4>1, <4>2, <2>1
    <3> QED BY <3>2, <3>4, <2>1, <1>2 DEF AddsUp
  <2>4. KeysUnique'
    <3>1. \A i \in 1..n : entries[i].key # key BY <1>2, <2>1 DEF KeysOf
    <3>2. \A i \in 1..n : entries'[i].key = entries[i].key BY <2>1
    <3>3. entries'[n + 1].key = key BY <2>1
    <3>4. \A i, j \in 1..n : entries[i].key = entries[j].key => i = j
      BY <2>1 DEF LedgerSound, KeysUnique
    <3>5. \A i \in 1..(n + 1) : i \in 1..n \/ i = n + 1 BY <2>1
    <3>6. ASSUME NEW i \in 1..(n + 1), NEW j \in 1..(n + 1),
                 entries'[i].key = entries'[j].key
          PROVE  i = j
      BY <3>1, <3>2, <3>3, <3>4, <3>5, <3>6, Zenon
    <3> QED BY <3>6, <2>1, Zenon DEF KeysUnique
  <2>5. SolventIsActive' BY <1>2 DEF SolventIsActive, NextLifecycle
  <2>6. KeysOf(entries)' = KeysOf(entries) \union {key}
    <3>1. \A i \in 1..n : entries'[i].key = entries[i].key BY <2>1
    <3>2. entries'[n + 1].key = key BY <2>1
    <3>3. 1..(n + 1) = (1..n) \union {n + 1} BY <2>1
    <3>4. ASSUME NEW k PROVE k \in KeysOf(entries)' <=> k \in KeysOf(entries) \union {key}
      <4>1. k \in KeysOf(entries)' <=> \E i \in 1..(n + 1) : entries'[i].key = k
        BY <2>1 DEF KeysOf
      <4>2. k \in KeysOf(entries) <=> \E i \in 1..n : entries[i].key = k
        BY <2>1 DEF KeysOf
      <4> QED BY <4>1, <4>2, <3>1, <3>2, <3>3
    <3> QED BY <3>4
  <2>7. PrepaidAccount!Count
    <3> DEFINE move(x) == [key |-> x.key, amount |-> x.amount]
               m == [key |-> key, amount |-> amount]
    <3>1. \A i \in 1..n : move(entries'[i]) = move(entries[i]) BY <2>1
    <3>2. move(entries'[n + 1]) = m BY <2>1
    <3>3. 1..(n + 1) = (1..n) \union {n + 1} BY <2>1
    <3>4. Counted' = Counted \union {m}
      <4>1. ASSUME NEW c PROVE c \in Counted' <=> c \in Counted \union {m}
        <5>1. c \in Counted' <=> \E i \in 1..(n + 1) : c = move(entries'[i])
          BY <2>1 DEF Counted
        <5>2. c \in Counted <=> \E i \in 1..n : c = move(entries[i])
          BY <2>1 DEF Counted
        <5> HIDE DEF move, m
        <5> QED BY <5>1, <5>2, <3>1, <3>2, <3>3
      <4> QED BY <4>1, Zenon
    <3>5. \A i \in 1..n : entries[i].key # key BY <1>2, <2>1 DEF KeysOf
    <3>6. \A c \in Counted : c.key # m.key BY <3>5, <2>1 DEF Counted
    <3>7. m \in Counted' \ Counted BY <3>4, <3>6
    <3>8. balance' = balance + m.amount BY <1>2
    <3> QED BY <3>4, <3>6, <3>7, <3>8 DEF PrepaidAccount!Count
  <2> QED BY <1>2, <2>2, <2>3, <2>4, <2>5, <2>6, <2>7 DEF LedgerSound
<1> QED BY <1>1, <1>2 DEF AppendEntry

-----------------------------------------------------------------------------
(* Facts about a flush and a charge at work. *)

LEMMA FlushFacts ==
  ASSUME IInv, NEW n \in Nodes, NEW k \in Kinds, flush[n][k].pc # "idle"
  PROVE  /\ flush[n][k] \in FlushStates
         /\ flush[n][k].todo \in SUBSET Buckets
         /\ Earliest(flush[n][k].todo) \in Buckets
         /\ flush[n][k].amount \in Nat
         /\ flush[n][k].amount <= used[Earliest(flush[n][k].todo)]
         /\ flush[n][k].pc = "emit" =>
              DebitKey(Earliest(flush[n][k].todo)) \in KeysOf(entries)
<1>1. flush[n][k] \in FlushStates BY DEF IInv, TypeOK
<1>2. flush[n][k].todo \in SUBSET Buckets /\ flush[n][k].amount \in Nat
  BY <1>1 DEF FlushStates
<1>3. FlushInHand(n, k) BY DEF IInv, FlushesInHand
<1>4. flush[n][k].todo # {} BY <1>3 DEF FlushInHand
<1>5. Earliest(flush[n][k].todo) \in Buckets BY <1>2, <1>4, EarliestType
<1> QED BY <1>1, <1>2, <1>3, <1>5 DEF FlushInHand

(* A bucket is taken up at what the process holds of it. *)
LEMMA TakeUpFacts ==
  ASSUME IInv, NEW n \in Nodes, NEW todo \in SUBSET Buckets
  PROVE  /\ TakeUp(n, todo) \in FlushStates
         /\ TakeUp(n, todo).pc # "idle" =>
              /\ TakeUp(n, todo).todo # {}
              /\ TakeUp(n, todo).amount <= used[Earliest(TakeUp(n, todo).todo)]
              /\ TakeUp(n, todo).pc = "debit"
<1>1. CASE todo = {}
  BY <1>1 DEF TakeUp, NoFlush, FlushStates
<1>2. CASE todo # {}
  <2>1. Earliest(todo) \in Buckets BY <1>2, EarliestType
  <2>2. held[n][Earliest(todo)] \in Nat BY <2>1 DEF IInv, TypeOK
  <2>3. held[n][Earliest(todo)] <= used[Earliest(todo)]
    BY <2>1 DEF IInv, HeldIsUsage
  <2>4. TakeUp(n, todo) = [pc |-> "debit", todo |-> todo,
                           amount |-> held[n][Earliest(todo)]]
    BY <1>2 DEF TakeUp
  <2> QED BY <1>2, <2>2, <2>3, <2>4 DEF FlushStates
<1> QED BY <1>1, <1>2

LEMMA ChargeFacts ==
  ASSUME IInv, charge.pc # "idle"
  PROVE  /\ charge.entry \in Nat \ {0}
         /\ <<"autocharge", charge.entry>> \in Payments
BY DEF IInv, TypeOK, ChargeInHand, Payments

-----------------------------------------------------------------------------
(* What a step may do to the ledger: nothing, create the tenant's row, or  *)
(* append one entry, a debit of no more than was used.                     *)

MoneyMove ==
  \E key \in Keys, amount \in Int, forced \in {"none", "active"} :
    /\ AppendEntry(key, amount, forced)
    /\ \A b \in Buckets : key = DebitKey(b) => -amount <= used[b]

LEMMA AmountTypes ==
  /\ Grant \in Int
  /\ ChargeAmount \in Nat
  /\ \A p \in Payments : AmountOf(p) \in Int
BY BillingAssumption DEF AmountOf

LEMMA LedgerMoves ==
  ASSUME IInv, Next
  PROVE  \/ UNCHANGED ledgerVars
         \/ lifecycle' = EnsureBillingRow(lifecycle) /\ UNCHANGED <<entries, balance>>
         \/ MoneyMove
<1>1. ASSUME NEW n \in Nodes, NEW k \in Kinds, FlushDebit(n, k)
      PROVE  UNCHANGED ledgerVars \/ MoneyMove
  <2> DEFINE f == flush[n][k]
             b == Earliest(f.todo)
  <2>0. f.pc # "idle" BY <1>1 DEF FlushDebit
  <2>1. b \in Buckets /\ f.amount \in Nat /\ f.amount <= used[b]
    BY <2>0, FlushFacts
  <2>2. CASE AppendEntry(DebitKey(b), -f.amount, "none")
    <3>1. DebitKey(b) \in Keys BY <2>1, KeyTypes
    <3>2. \A c \in Buckets : DebitKey(b) = DebitKey(c) => -(-f.amount) <= used[c]
      BY <2>1, DebitKeyInjective
    <3>3. -f.amount \in Int BY <2>1
    <3> HIDE DEF f, b
    <3> QED BY <2>2, <3>1, <3>2, <3>3 DEF MoneyMove
  <2>3. CASE UNCHANGED ledgerVars BY <2>3
  <2> QED BY <1>1, <2>2, <2>3 DEF FlushDebit
<1>2. ASSUME NEW v \in Verifiers, VerifyGrant(v)
      PROVE  MoneyMove
  <2>1. AppendEntry(GrantKey, Grant, "active") BY <1>2 DEF VerifyGrant
  <2> QED BY <2>1, KeyTypes, OnlyDebits, AmountTypes DEF MoneyMove
<1>3. ASSUME NEW p \in captured, HandleWebhook(p)
      PROVE  MoneyMove
  <2>1. p \in Payments BY DEF IInv, TypeOK
  <2>2. AppendEntry(CreditKey(p), AmountOf(p), "none") BY <1>3 DEF HandleWebhook
  <2> QED BY <2>1, <2>2, KeyTypes, OnlyDebits, AmountTypes DEF MoneyMove
<1>4. ASSUME CreditCharge
      PROVE  MoneyMove
  <2> DEFINE p == <<"autocharge", charge.entry>>
  <2>1. p \in Payments BY <1>4, ChargeFacts DEF CreditCharge
  <2>2. AppendEntry(CreditKey(p), ChargeAmount, "none") BY <1>4 DEF CreditCharge
  <2> HIDE DEF p
  <2> QED BY <2>1, <2>2, KeyTypes, OnlyDebits, AmountTypes DEF MoneyMove
<1>5. CASE Metering
  <2>1. CASE Tick BY <2>1 DEF Tick
  <2>2. ASSUME NEW n \in Nodes, Ingest(n) \/ TimerFlush(n) \/ Shutdown(n) \/ Stop(n)
        PROVE  UNCHANGED ledgerVars
    BY <2>2 DEF Ingest, TimerFlush, Shutdown, Stop
  <2>3. ASSUME NEW n \in Nodes, NEW k \in Kinds, Flushing(n, k)
        PROVE  UNCHANGED ledgerVars \/ MoneyMove
    BY <1>1, <2>3 DEF Flushing, FlushEmit, FlushForget, FlushFails
  <2> QED BY <1>5, <2>1, <2>2, <2>3 DEF Metering
<1>6. CASE Trial
  <2>1. CASE ProvisionTrial BY <2>1 DEF ProvisionTrial
  <2>2. ASSUME NEW v \in Verifiers, VerifyRead(v) \/ VerifyMark(v) \/ VerifyDies(v)
        PROVE  UNCHANGED ledgerVars
    BY <2>2 DEF VerifyRead, VerifyMark, VerifyDies
  <2> QED BY <1>2, <1>6, <2>1, <2>2 DEF Trial
<1>7. CASE Paying BY <1>3, <1>7 DEF Paying
<1>8. CASE Charging
  <2>1. ASSUME NEW i \in DOMAIN entries, OnLowBalance(i)
        PROVE  UNCHANGED ledgerVars
    BY <2>1 DEF OnLowBalance
  <2>2. CASE UpdateConfig \/ ChargeAccepted \/ ChargeDeclined \/ RecordCharge \/ ChargeAborts
    BY <2>2 DEF UpdateConfig, ChargeAccepted, ChargeDeclined, RecordCharge, ChargeAborts
  <2> QED BY <1>4, <1>8, <2>1, <2>2 DEF Charging
<1> QED BY <1>5, <1>6, <1>7, <1>8 DEF Next

(* Only ingest changes the usage. *)
LEMMA UsageKept ==
  ASSUME Next
  PROVE  UNCHANGED used \/ \E n \in Nodes : Ingest(n)
<1>1. CASE Metering
  BY <1>1 DEF Metering, Flushing, Tick, TimerFlush, Shutdown, Stop, FlushDebit, FlushEmit,
              FlushForget, FlushFails
<1>2. CASE Trial
  BY <1>2 DEF Trial, ProvisionTrial, VerifyRead, VerifyGrant, VerifyMark, VerifyDies,
              meterVars
<1>3. CASE Paying \/ Charging
  BY <1>3 DEF Paying, Charging, HandleWebhook, UpdateConfig, OnLowBalance, ChargeAccepted,
              ChargeDeclined, CreditCharge, RecordCharge, ChargeAborts, meterVars
<1> QED BY <1>1, <1>2, <1>3 DEF Next

LEMMA UsageTypes ==
  ASSUME IInv, Next
  PROVE  used' \in [Buckets -> Nat]
<1>0. used \in [Buckets -> Nat] BY DEF IInv, TypeOK
<1>1. ASSUME NEW n \in Nodes, Ingest(n)
      PROVE  used' \in [Buckets -> Nat]
  BY <1>0, <1>1 DEF Ingest
<1> QED BY <1>0, <1>1, UsageKept

LEMMA UsageGrows ==
  ASSUME IInv, Next
  PROVE  \A b \in Buckets : used[b] <= used'[b]
<1>0. \A b \in Buckets : used[b] \in Nat BY DEF IInv, TypeOK
<1>1. ASSUME NEW n \in Nodes, Ingest(n)
      PROVE  \A b \in Buckets : used[b] <= used'[b]
  BY <1>0, <1>1 DEF Ingest, IInv, TypeOK
<1> QED BY <1>0, <1>1, UsageKept

(* Every step keeps the ledger sound, is a move of the abstract account or  *)
(* none, and debits no more than was used.                                  *)
LEMMA LedgerStep ==
  ASSUME IInv, Next
  PROVE  /\ LedgerTypeOK' /\ LedgerSound'
         /\ KeysOf(entries) \subseteq KeysOf(entries)'
         /\ PrepaidAccount!Count \/ UNCHANGED <<Counted, balance>>
         /\ NeverOvercharged'
<1>0. LedgerTypeOK /\ LedgerSound BY DEF IInv, TypeOK
<1>1. CASE UNCHANGED <<entries, balance>> /\ lifecycle' \in {lifecycle, EnsureBillingRow(lifecycle)}
  <2>1. LedgerTypeOK'
    BY <1>0, <1>1 DEF LedgerTypeOK, Lifecycles, EnsureBillingRow
  <2>2. LedgerSound'
    BY <1>0, <1>1 DEF LedgerSound, AddsUp, After, KeysUnique, SolventIsActive, EnsureBillingRow
  <2>3. NeverOvercharged'
    <3> SUFFICES ASSUME NEW i \in DOMAIN entries, NEW b \in Buckets,
                        entries[i].key = DebitKey(b)
                 PROVE  -entries[i].amount <= used'[b]
      BY <1>1 DEF NeverOvercharged
    <3>1. -entries[i].amount <= used[b] BY DEF IInv, NeverOvercharged
    <3>2. entries[i].amount \in Int
      <4>1. entries[i] \in Entry BY <1>0 DEF LedgerTypeOK
      <4> QED BY <4>1 DEF Entry
    <3>3. used[b] \in Nat /\ used'[b] \in Nat
      BY UsageTypes DEF IInv, TypeOK
    <3> QED BY <3>1, <3>2, <3>3, UsageGrows
  <2>4. UNCHANGED <<Counted, balance>> BY <1>1 DEF Counted
  <2> QED BY <1>1, <2>1, <2>2, <2>3, <2>4
<1>2. CASE MoneyMove
  <2>1. PICK key \in Keys, amount \in Int, forced \in {"none", "active"} :
               /\ AppendEntry(key, amount, forced)
               /\ \A b \in Buckets : key = DebitKey(b) => -amount <= used[b]
    BY <1>2 DEF MoneyMove
  <2>2. /\ LedgerTypeOK' /\ LedgerSound'
        /\ KeysOf(entries)' = KeysOf(entries) \union {key}
        /\ \/ UNCHANGED <<entries, balance>>
           \/ entries' = Append(entries, [key |-> key, amount |-> amount,
                                          after |-> balance + amount])
        /\ PrepaidAccount!Count \/ UNCHANGED <<Counted, balance>>
    BY <1>0, <2>1, AppendSound
  <2>3. NeverOvercharged'
    <3> SUFFICES ASSUME NEW i \in DOMAIN entries', NEW b \in Buckets,
                        entries'[i].key = DebitKey(b)
                 PROVE  -entries'[i].amount <= used'[b]
      BY DEF NeverOvercharged
    <3>1. entries'[i].amount \in Int
      <4>1. entries'[i] \in Entry BY <2>2 DEF LedgerTypeOK
      <4> QED BY <4>1 DEF Entry
    <3>2. used[b] \in Nat /\ used'[b] \in Nat /\ used[b] <= used'[b]
      BY UsageTypes, UsageGrows DEF IInv, TypeOK
    <3>3. CASE i \in DOMAIN entries /\ entries'[i] = entries[i]
      BY <3>1, <3>2, <3>3 DEF IInv, NeverOvercharged
    <3>4. CASE entries'[i] = [key |-> key, amount |-> amount, after |-> balance + amount]
      BY <2>1, <3>2, <3>4
    <3>5. \/ i \in DOMAIN entries /\ entries'[i] = entries[i]
          \/ entries'[i] = [key |-> key, amount |-> amount, after |-> balance + amount]
      BY <1>0, <2>2 DEF LedgerTypeOK
    <3> QED BY <3>3, <3>4, <3>5
  <2> QED BY <2>2, <2>3
<1> QED BY <1>1, <1>2, LedgerMoves DEF ledgerVars

-----------------------------------------------------------------------------
(* Steps that leave the metering, and the charging, alone. *)

LEMMA OtherThanMetering ==
  ASSUME Trial \/ Paying \/ Charging
  PROVE  UNCHANGED meterVars /\ UNCHANGED emitted
BY DEF Trial, ProvisionTrial, VerifyRead, VerifyGrant, VerifyMark, VerifyDies, Paying,
       HandleWebhook, Charging, UpdateConfig, OnLowBalance, ChargeAccepted, ChargeDeclined,
       CreditCharge, RecordCharge, ChargeAborts

LEMMA OtherThanTrial ==
  ASSUME Metering \/ Paying \/ Charging
  PROVE  UNCHANGED trialVars
BY DEF Metering, Flushing, Tick, Ingest, TimerFlush, Shutdown, Stop, FlushDebit, FlushEmit,
       FlushForget, FlushFails, Paying, HandleWebhook, Charging, UpdateConfig, OnLowBalance,
       ChargeAccepted, ChargeDeclined, CreditCharge, RecordCharge, ChargeAborts

LEMMA OtherThanCharging ==
  ASSUME Metering \/ Trial \/ Paying
  PROVE  UNCHANGED chargeVars /\ UNCHANGED captured
BY DEF Metering, Flushing, Tick, Ingest, TimerFlush, Shutdown, Stop, FlushDebit, FlushEmit,
       FlushForget, FlushFails, Paying, HandleWebhook, Trial, ProvisionTrial, VerifyRead,
       VerifyGrant, VerifyMark, VerifyDies

(* The entry with a key in the ledger. *)
LEMMA EntryOfType ==
  ASSUME LedgerTypeOK, NEW key \in KeysOf(entries)
  PROVE  EntryOf(key) \in Nat \ {0}
<1>1. EntryOf(key) \in DOMAIN entries BY DEF KeysOf, EntryOf
<1> QED BY <1>1 DEF LedgerTypeOK

-----------------------------------------------------------------------------
(* Metering keeps its part of the state typed, and the flushes in hand. *)

MeterInv ==
  /\ now \in Nat
  /\ used \in [Buckets -> Nat]
  /\ held \in [Nodes -> [Buckets -> Nat]]
  /\ flush \in [Nodes -> [Kinds -> FlushStates]]
  /\ closing \subseteq Nodes
  /\ dropped \subseteq Buckets
  /\ emitted \subseteq Lines \X (Nat \ {0})
  /\ HeldIsUsage
  /\ FlushesInHand

(* A flush set to a state that is in hand keeps all flushes in hand. *)
LEMMA FlushSet ==
  ASSUME IInv, NEW n \in Nodes, NEW k \in Kinds, NEW f \in FlushStates,
         flush' = [flush EXCEPT ![n][k] = f],
         f.pc # "idle" =>
           /\ f.todo # {}
           /\ f.amount <= used[Earliest(f.todo)]
           /\ f.pc = "emit" => DebitKey(Earliest(f.todo)) \in KeysOf(entries)',
         UNCHANGED used,
         KeysOf(entries) \subseteq KeysOf(entries)'
  PROVE  flush' \in [Nodes -> [Kinds -> FlushStates]] /\ FlushesInHand'
<1>0. flush \in [Nodes -> [Kinds -> FlushStates]] BY DEF IInv, TypeOK
<1>1. flush' \in [Nodes -> [Kinds -> FlushStates]] BY <1>0
<1>2. ASSUME NEW m \in Nodes, NEW j \in Kinds
      PROVE  FlushInHand(m, j)'
  <2>1. CASE m = n /\ j = k
    <3>1. flush'[m][j] = f BY <1>0, <2>1
    <3> QED BY <3>1 DEF FlushInHand
  <2>2. CASE ~ (m = n /\ j = k)
    <3>1. flush'[m][j] = flush[m][j] BY <1>0, <2>2
    <3>2. FlushInHand(m, j) BY DEF IInv, FlushesInHand
    <3> QED BY <3>1, <3>2 DEF FlushInHand
  <2> QED BY <2>1, <2>2
<1> QED BY <1>1, <1>2 DEF FlushesInHand

LEMMA MeterStep ==
  ASSUME IInv, Next
  PROVE  MeterInv'
<1>0. MeterInv BY DEF IInv, TypeOK, MeterInv
<1>a. KeysOf(entries) \subseteq KeysOf(entries)' BY LedgerStep
<1>b. used' \in [Buckets -> Nat] BY UsageTypes
<1>c. ASSUME UNCHANGED <<used, held, flush>>
      PROVE  HeldIsUsage' /\ FlushesInHand'
  <2>1. HeldIsUsage' BY <1>0, <1>c DEF MeterInv, HeldIsUsage
  <2>2. FlushesInHand'
    BY <1>0, <1>a, <1>c DEF MeterInv, FlushesInHand, FlushInHand
  <2> QED BY <2>1, <2>2
<1>1. CASE Tick
  BY <1>0, <1>1, <1>c DEF Tick, MeterInv
<1>2. ASSUME NEW n \in Nodes, Ingest(n)
      PROVE  MeterInv'
  <2>1. /\ now \in Buckets
        /\ used' = [used EXCEPT ![now] = @ + 1]
        /\ held' = [held EXCEPT ![n][now] = @ + 1]
        /\ UNCHANGED <<entries, now, flush, closing, dropped, emitted>>
    BY <1>2 DEF Ingest, ledgerVars
  <2>2. held' \in [Nodes -> [Buckets -> Nat]] BY <1>0, <2>1 DEF MeterInv
  <2>3. HeldIsUsage' BY <1>0, <2>1 DEF MeterInv, HeldIsUsage
  <2>4. FlushesInHand'
    <3> SUFFICES ASSUME NEW m \in Nodes, NEW k \in Kinds PROVE FlushInHand(m, k)'
      BY DEF FlushesInHand
    <3>1. CASE flush[m][k].pc = "idle" BY <2>1, <3>1 DEF FlushInHand
    <3>2. CASE flush[m][k].pc # "idle"
      <4>1. Earliest(flush[m][k].todo) \in Buckets /\ flush[m][k].amount \in Nat
        BY <3>2, FlushFacts
      <4>2. used[Earliest(flush[m][k].todo)] <= used'[Earliest(flush[m][k].todo)]
        BY <4>1, UsageGrows
      <4>3. FlushInHand(m, k) BY <1>0 DEF MeterInv, FlushesInHand
      <4>4. /\ used[Earliest(flush[m][k].todo)] \in Nat
            /\ used'[Earliest(flush[m][k].todo)] \in Nat
        BY <1>0, <1>b, <4>1 DEF MeterInv
      <4>5. flush[m][k].amount <= used'[Earliest(flush[m][k].todo)]
        BY <3>2, <4>1, <4>2, <4>3, <4>4 DEF FlushInHand
      <4> QED BY <2>1, <4>3, <4>5 DEF FlushInHand
    <3> QED BY <3>1, <3>2
  <2> QED BY <1>0, <1>b, <2>1, <2>2, <2>3, <2>4 DEF MeterInv
<1>3. ASSUME NEW n \in Nodes, TimerFlush(n)
      PROVE  MeterInv'
  <2> DEFINE closed == {b \in HeldBy(n) : b < now}
  <2>1. closed \in SUBSET Buckets BY DEF HeldBy
  <2>2. /\ flush' = [flush EXCEPT ![n]["timer"] = TakeUp(n, closed)]
        /\ UNCHANGED <<now, used, held, closing, dropped, emitted>>
    BY <1>3 DEF TimerFlush
  <2> HIDE DEF closed
  <2>3. flush' \in [Nodes -> [Kinds -> FlushStates]] /\ FlushesInHand'
    BY <1>a, <2>1, <2>2, TakeUpFacts, FlushSet DEF Kinds
  <2>4. HeldIsUsage' BY <1>0, <2>2 DEF MeterInv, HeldIsUsage
  <2> QED BY <1>0, <2>2, <2>3, <2>4 DEF MeterInv
<1>4. ASSUME NEW n \in Nodes, Shutdown(n)
      PROVE  MeterInv'
  <2>1. HeldBy(n) \in SUBSET Buckets BY DEF HeldBy
  <2>2. /\ flush' = [flush EXCEPT ![n]["shutdown"] = TakeUp(n, HeldBy(n))]
        /\ closing' = closing \union {n}
        /\ UNCHANGED <<now, used, held, dropped, emitted>>
    BY <1>4 DEF Shutdown
  <2>3. flush' \in [Nodes -> [Kinds -> FlushStates]] /\ FlushesInHand'
    BY <1>a, <2>1, <2>2, TakeUpFacts, FlushSet DEF Kinds
  <2>4. HeldIsUsage' BY <1>0, <2>2 DEF MeterInv, HeldIsUsage
  <2> QED BY <1>0, <2>2, <2>3, <2>4 DEF MeterInv
<1>5. ASSUME NEW n \in Nodes, Stop(n)
      PROVE  MeterInv'
  <2>1. /\ held' = [held EXCEPT ![n] = [b \in Buckets |-> 0]]
        /\ flush' = [flush EXCEPT ![n] = [k \in Kinds |-> NoFlush]]
        /\ closing' = closing \ {n}
        /\ dropped' = dropped \union HeldBy(n)
        /\ UNCHANGED <<entries, now, used, emitted>>
    BY <1>5 DEF Stop, ledgerVars
  <2>2. NoFlush \in FlushStates /\ NoFlush.pc = "idle" BY DEF NoFlush, FlushStates
  <2>3. held' \in [Nodes -> [Buckets -> Nat]] BY <1>0, <2>1 DEF MeterInv
  <2>4. flush' \in [Nodes -> [Kinds -> FlushStates]] BY <1>0, <2>1, <2>2 DEF MeterInv
  <2>5. dropped' \subseteq Buckets BY <1>0, <2>1 DEF MeterInv, HeldBy
  <2>6. HeldIsUsage' BY <1>0, <2>1 DEF MeterInv, HeldIsUsage
  <2>7. FlushesInHand'
    <3> SUFFICES ASSUME NEW m \in Nodes, NEW k \in Kinds PROVE FlushInHand(m, k)'
      BY DEF FlushesInHand
    <3>1. CASE m = n
      <4>1. flush'[m][k] = NoFlush BY <1>0, <2>1, <3>1 DEF MeterInv
      <4> QED BY <4>1, <2>2 DEF FlushInHand
    <3>2. CASE m # n
      <4>1. flush'[m][k] = flush[m][k] BY <1>0, <2>1, <3>2 DEF MeterInv
      <4> QED BY <1>0, <2>1, <4>1 DEF FlushInHand, FlushesInHand, MeterInv
    <3> QED BY <3>1, <3>2
  <2> QED BY <1>0, <2>1, <2>3, <2>4, <2>5, <2>6, <2>7 DEF MeterInv
<1>6. ASSUME NEW n \in Nodes, NEW k \in Kinds, Flushing(n, k)
      PROVE  MeterInv'
  <2> DEFINE f == flush[n][k]
  <2>0. flush \in [Nodes -> [Kinds -> FlushStates]] BY <1>0 DEF MeterInv
  <2>1. f.pc # "idle"
    BY <1>6 DEF Flushing, FlushDebit, FlushEmit, FlushForget, FlushFails
  <2>2. PICK b \in Buckets : b = Earliest(f.todo) BY <2>1, FlushFacts
  <2>3. /\ f \in FlushStates
        /\ f.todo \in SUBSET Buckets
        /\ f.todo # {}
        /\ f.amount <= used[b]
        /\ f.pc = "emit" => DebitKey(b) \in KeysOf(entries)
    BY <1>0, <2>1, <2>2, FlushFacts DEF MeterInv, FlushesInHand, FlushInHand
  <2>4. ASSUME NEW pc \in {"emit", "forget"}, Goto(n, k, pc), UNCHANGED used,
               pc = "emit" => DebitKey(b) \in KeysOf(entries)'
        PROVE  flush' \in [Nodes -> [Kinds -> FlushStates]] /\ FlushesInHand'
    <3> DEFINE g == [f EXCEPT !.pc = pc]
    <3>1. g \in FlushStates /\ g.todo = f.todo /\ g.amount = f.amount /\ g.pc = pc
      BY <2>3 DEF FlushStates
    <3>2. flush' = [flush EXCEPT ![n][k] = g] BY <2>0, <2>4 DEF Goto
    <3> HIDE DEF g, f
    <3> QED BY <1>a, <2>2, <2>3, <2>4, <3>1, <3>2, FlushSet
  <2>5. ASSUME NEW todo \in SUBSET Buckets,
               flush' = [flush EXCEPT ![n][k] = TakeUp(n, todo)], UNCHANGED used
        PROVE  flush' \in [Nodes -> [Kinds -> FlushStates]] /\ FlushesInHand'
    BY <1>a, <2>5, TakeUpFacts, FlushSet
  <2>6. CASE FlushDebit(n, k)
    <3>1. UNCHANGED <<now, used, held, closing, emitted>> BY <2>6 DEF FlushDebit
    <3>2. dropped' \subseteq Buckets
      BY <1>0, <2>2, <2>6 DEF FlushDebit, MeterInv
    <3>3. ASSUME AppendEntry(DebitKey(b), -f.amount, "none"), Goto(n, k, "emit")
          PROVE  flush' \in [Nodes -> [Kinds -> FlushStates]] /\ FlushesInHand'
      <4>1. DebitKey(b) \in KeysOf(entries)'
        <5>1. f.amount \in Int BY <2>3 DEF FlushStates
        <5>2. DebitKey(b) \in Keys BY KeyTypes
        <5>3. LedgerTypeOK /\ LedgerSound BY DEF IInv, TypeOK
        <5>4. -f.amount \in Int BY <5>1
        <5> HIDE DEF f
        <5> QED BY <3>3, <5>2, <5>3, <5>4, AppendSound
      <4> QED BY <2>4, <3>1, <3>3, <4>1
    <3>4. ASSUME Goto(n, k, "forget")
          PROVE  flush' \in [Nodes -> [Kinds -> FlushStates]] /\ FlushesInHand'
      BY <2>4, <3>1, <3>4
    <3>5. flush' \in [Nodes -> [Kinds -> FlushStates]] /\ FlushesInHand'
      BY <2>2, <2>6, <3>3, <3>4 DEF FlushDebit
    <3>6. HeldIsUsage' BY <1>0, <3>1 DEF MeterInv, HeldIsUsage
    <3> QED BY <1>0, <3>1, <3>2, <3>5, <3>6 DEF MeterInv
  <2>7. CASE FlushEmit(n, k)
    <3> DEFINE i == EntryOf(DebitKey(b))
    <3>1. /\ f.pc = "emit"
          /\ emitted' = emitted \union (Crossings(i) \X {i})
          /\ Goto(n, k, "forget")
          /\ UNCHANGED <<now, used, held, closing, dropped>>
      BY <2>2, <2>7 DEF FlushEmit
    <3>2. i \in Nat \ {0} BY <2>3, <3>1, EntryOfType DEF IInv, TypeOK
    <3>3. Crossings(i) \subseteq Lines BY DEF Crossings
    <3> HIDE DEF i
    <3>4. emitted' \subseteq Lines \X (Nat \ {0}) BY <1>0, <3>1, <3>2, <3>3 DEF MeterInv
    <3>5. flush' \in [Nodes -> [Kinds -> FlushStates]] /\ FlushesInHand'
      BY <2>4, <3>1
    <3>6. HeldIsUsage' BY <1>0, <3>1 DEF MeterInv, HeldIsUsage
    <3> QED BY <1>0, <3>1, <3>4, <3>5, <3>6 DEF MeterInv
  <2>8. CASE FlushForget(n, k)
    <3>1. /\ held' = [held EXCEPT ![n][b] = 0]
          /\ flush' = [flush EXCEPT ![n][k] = TakeUp(n, f.todo \ {b})]
          /\ UNCHANGED <<now, used, closing, dropped, emitted>>
      BY <2>2, <2>8 DEF FlushForget
    <3>2. held' \in [Nodes -> [Buckets -> Nat]] BY <1>0, <3>1 DEF MeterInv
    <3>3. HeldIsUsage' BY <1>0, <3>1 DEF MeterInv, HeldIsUsage
    <3>4. flush' \in [Nodes -> [Kinds -> FlushStates]] /\ FlushesInHand'
      BY <2>3, <2>5, <3>1
    <3> QED BY <1>0, <3>1, <3>2, <3>3, <3>4 DEF MeterInv
  <2>9. CASE FlushFails(n, k)
    <3>1. /\ flush' = [flush EXCEPT ![n][k] = TakeUp(n, f.todo \ {b})]
          /\ UNCHANGED <<now, used, held, closing, dropped, emitted>>
      BY <2>2, <2>9 DEF FlushFails
    <3>2. flush' \in [Nodes -> [Kinds -> FlushStates]] /\ FlushesInHand'
      BY <2>3, <2>5, <3>1
    <3>3. HeldIsUsage' BY <1>0, <3>1 DEF MeterInv, HeldIsUsage
    <3> QED BY <1>0, <3>1, <3>2, <3>3 DEF MeterInv
  <2> QED BY <1>6, <2>6, <2>7, <2>8, <2>9 DEF Flushing
<1>7. CASE Trial \/ Paying \/ Charging
  <2>1. UNCHANGED meterVars /\ UNCHANGED emitted BY <1>7, OtherThanMetering
  <2>2. HeldIsUsage' /\ FlushesInHand' BY <1>c, <2>1 DEF meterVars
  <2> QED BY <1>0, <2>1, <2>2 DEF MeterInv, meterVars
<1> QED BY <1>1, <1>2, <1>3, <1>4, <1>5, <1>6, <1>7 DEF Next, Metering

-----------------------------------------------------------------------------
(* The trial and the charging keep theirs. *)

TrialInv ==
  /\ armed \in BOOLEAN
  /\ verified \in BOOLEAN
  /\ verify \in [Verifiers -> {"idle", "grant", "mark"}]
  /\ MarkAfterGrant
  /\ VerifiedHasGrant

LEMMA TrialStep ==
  ASSUME IInv, Next
  PROVE  TrialInv'
<1>0. TrialInv BY DEF IInv, TypeOK, TrialInv
<1>a. KeysOf(entries) \subseteq KeysOf(entries)' BY LedgerStep
<1>1. CASE Metering \/ Paying \/ Charging
  <2>1. UNCHANGED trialVars BY <1>1, OtherThanTrial
  <2> QED BY <1>0, <1>a, <2>1 DEF trialVars, TrialInv, MarkAfterGrant, VerifiedHasGrant
<1>2. CASE ProvisionTrial
  BY <1>0, <1>2 DEF ProvisionTrial, TrialInv, MarkAfterGrant, VerifiedHasGrant
<1>3. ASSUME NEW v \in Verifiers, VerifyRead(v) \/ VerifyDies(v)
      PROVE  TrialInv'
  BY <1>0, <1>3 DEF VerifyRead, VerifyDies, TrialInv, MarkAfterGrant, VerifiedHasGrant,
                    ledgerVars
<1>4. ASSUME NEW v \in Verifiers, VerifyGrant(v)
      PROVE  TrialInv'
  <2>1. AppendEntry(GrantKey, Grant, "active") /\ UNCHANGED <<armed, verified>>
        /\ verify' = [verify EXCEPT ![v] = "mark"]
    BY <1>4 DEF VerifyGrant
  <2>2. GrantKey \in KeysOf(entries)'
    BY <2>1, AppendSound, KeyTypes, AmountTypes DEF IInv, TypeOK
  <2> QED BY <1>0, <2>1, <2>2 DEF TrialInv, MarkAfterGrant, VerifiedHasGrant
<1>5. ASSUME NEW v \in Verifiers, VerifyMark(v)
      PROVE  TrialInv'
  BY <1>0, <1>5 DEF VerifyMark, TrialInv, MarkAfterGrant, VerifiedHasGrant, ledgerVars
<1> QED BY <1>1, <1>2, <1>3, <1>4, <1>5 DEF Next, Trial

ChargeInv ==
  /\ captured \subseteq Payments
  /\ enabled \in BOOLEAN
  /\ failures \in 0..MaxFailures
  /\ recorded \in Nat
  /\ charge \in [pc: {"idle", "charge", "credit", "record"}, entry: Nat]
  /\ ChargeInHand

LEMMA ChargeStep ==
  ASSUME IInv, Next
  PROVE  ChargeInv'
<1>0. ChargeInv BY DEF IInv, TypeOK, ChargeInv
<1>a. Resting \in [pc: {"idle", "charge", "credit", "record"}, entry: Nat]
      /\ Resting.pc = "idle"
  BY DEF Resting
<1>b. MaxFailures \in Nat \ {0} /\ ChargeAmount \in Nat BY BillingAssumption
<1>1. CASE Metering \/ Trial \/ Paying
  <2>1. UNCHANGED chargeVars /\ UNCHANGED captured BY <1>1, OtherThanCharging
  <2> QED BY <1>0, <2>1 DEF chargeVars, ChargeInv, ChargeInHand
<1>2. CASE UpdateConfig
  BY <1>0, <1>2 DEF UpdateConfig, ChargeInv, ChargeInHand
<1>3. ASSUME NEW i \in DOMAIN entries, OnLowBalance(i)
      PROVE  ChargeInv'
  <2>1. i \in Nat \ {0} BY DEF IInv, TypeOK, LedgerTypeOK
  <2> QED BY <1>0, <1>3, <2>1 DEF OnLowBalance, ChargeInv, ChargeInHand
<1>4. CASE ChargeAccepted
  <2>1. <<"autocharge", charge.entry>> \in Payments
    BY <1>4, ChargeFacts DEF ChargeAccepted
  <2>2. failures' \in 0..MaxFailures BY <1>4, <1>b DEF ChargeAccepted
  <2> QED BY <1>0, <1>4, <2>1, <2>2 DEF ChargeAccepted, ChargeInv, ChargeInHand
<1>5. CASE ChargeDeclined
  <2>1. failures' \in 0..MaxFailures BY <1>0, <1>5, <1>b DEF ChargeDeclined, ChargeInv
  <2> QED BY <1>0, <1>5, <1>a, <2>1 DEF ChargeDeclined, ChargeInv, ChargeInHand
<1>6. CASE CreditCharge
  BY <1>0, <1>6, <1>a DEF CreditCharge, ChargeInv, ChargeInHand
<1>7. CASE RecordCharge
  BY <1>0, <1>7, <1>a, <1>b DEF RecordCharge, ChargeInv, ChargeInHand
<1>8. CASE ChargeAborts
  BY <1>0, <1>8, <1>a DEF ChargeAborts, ChargeInv, ChargeInHand
<1> QED BY <1>1, <1>2, <1>3, <1>4, <1>5, <1>6, <1>7, <1>8 DEF Next, Charging

-----------------------------------------------------------------------------
(* The invariant holds at first, and in every step. *)

LEMMA InitInv ==
  ASSUME Init
  PROVE  IInv
<1>1. LedgerTypeOK BY DEF Init, LedgerInit, LedgerTypeOK, Lifecycles
<1>2. LedgerSound
  BY DEF Init, LedgerInit, LedgerSound, AddsUp, After, KeysUnique, SolventIsActive
<1>3. NoFlush \in FlushStates /\ NoFlush.pc = "idle" BY DEF NoFlush, FlushStates
<1>4. captured \subseteq Payments BY DEF Init, Payments
<1>5. failures \in 0..MaxFailures BY BillingAssumption DEF Init
<1>6. TypeOK BY <1>1, <1>3, <1>4, <1>5 DEF Init, TypeOK, Resting
<1>7. HeldIsUsage
  <2>1. \A n \in Nodes, b \in Buckets : held[n][b] = 0 /\ used[b] = 0 BY DEF Init
  <2> QED BY <2>1 DEF HeldIsUsage
<1>8. FlushesInHand BY <1>3 DEF Init, FlushesInHand, FlushInHand
<1>9. ChargeInHand /\ MarkAfterGrant /\ VerifiedHasGrant
  BY DEF Init, ChargeInHand, Resting, MarkAfterGrant, VerifiedHasGrant
<1>10. NeverOvercharged BY DEF Init, LedgerInit, NeverOvercharged
<1> QED BY <1>2, <1>6, <1>7, <1>8, <1>9, <1>10 DEF IInv

LEMMA Inductive ==
  ASSUME IInv, [Next]_vars
  PROVE  IInv'
<1>1. CASE Next
  BY <1>1, LedgerStep, MeterStep, TrialStep, ChargeStep
     DEF IInv, TypeOK, MeterInv, TrialInv, ChargeInv
<1>2. CASE UNCHANGED vars
  <2>1. UNCHANGED <<ledgerVars, meterVars, emitted, trialVars, captured, chargeVars>>
    BY <1>2 DEF vars
  <2>2. TypeOK' BY <2>1 DEF IInv, TypeOK, LedgerTypeOK, ledgerVars, meterVars, trialVars, chargeVars
  <2>3. LedgerSound'
    BY <2>1 DEF IInv, LedgerSound, AddsUp, After, KeysUnique, SolventIsActive, ledgerVars
  <2>4. HeldIsUsage' /\ FlushesInHand'
    BY <2>1 DEF IInv, HeldIsUsage, FlushesInHand, FlushInHand, ledgerVars, meterVars
  <2>5. ChargeInHand' /\ MarkAfterGrant' /\ VerifiedHasGrant' /\ NeverOvercharged'
    BY <2>1 DEF IInv, ChargeInHand, MarkAfterGrant, VerifiedHasGrant, NeverOvercharged,
                ledgerVars, meterVars, trialVars, chargeVars
  <2> QED BY <2>2, <2>3, <2>4, <2>5 DEF IInv
<1> QED BY <1>1, <1>2

LEMMA Invariance == Spec => []IInv
<1>1. Init => IInv BY InitInv
<1>2. IInv /\ [Next]_vars => IInv' BY Inductive
<1> QED BY <1>1, <1>2, PTL DEF Spec

-----------------------------------------------------------------------------
(* Announcements.  A bucket is settled once its crossing is recorded for    *)
(* delivery, or a process gave the bucket up: a flush deletes only settled  *)
(* buckets, and works only on buckets that are held or settled.             *)

Settled(b) ==
  \/ b \in dropped
  \/ \E i \in DOMAIN entries :
       entries[i].key = DebitKey(b) /\ Crossings(i) \X {i} \subseteq emitted

FlushHonest(n, f) ==
  f.pc # "idle" =>
    /\ f.pc = "forget" \/ (f.pc = "debit" /\ f.amount = 0) => Settled(Earliest(f.todo))
    /\ \A b \in f.todo : held[n][b] > 0 \/ Settled(b)

FlushesHonest == \A n \in Nodes, k \in Kinds : FlushHonest(n, flush[n][k])

CrossingInv == FlushesHonest /\ NoLostCrossing

(* The ledger, the drops and the announcements only grow. *)
LEMMA HistoryGrows ==
  ASSUME IInv, Next
  PROVE  /\ DOMAIN entries \subseteq DOMAIN entries'
         /\ \A i \in DOMAIN entries : entries'[i] = entries[i]
         /\ dropped \subseteq dropped'
         /\ emitted \subseteq emitted'
<1>1. DOMAIN entries \subseteq DOMAIN entries'
      /\ \A i \in DOMAIN entries : entries'[i] = entries[i]
  <2>1. CASE UNCHANGED entries BY <2>1
  <2>2. CASE MoneyMove
    <3>1. PICK key \in Keys, amount \in Int, forced \in {"none", "active"} :
                 AppendEntry(key, amount, forced)
      BY <2>2 DEF MoneyMove
    <3>2. LedgerTypeOK BY DEF IInv, TypeOK
    <3>3. LedgerSound BY DEF IInv
    <3>4. \/ UNCHANGED <<entries, balance>>
          \/ entries' = Append(entries, [key |-> key, amount |-> amount,
                                         after |-> balance + amount])
      BY <3>1, <3>2, <3>3, AppendSound
    <3> QED BY <3>2, <3>4 DEF LedgerTypeOK
  <2> QED BY <2>1, <2>2, LedgerMoves DEF ledgerVars
<1>2. dropped \subseteq dropped' /\ emitted \subseteq emitted'
  <2>1. CASE Metering
    BY <2>1 DEF Metering, Flushing, Tick, Ingest, TimerFlush, Shutdown, Stop, FlushDebit,
                FlushEmit, FlushForget, FlushFails
  <2>2. CASE Trial \/ Paying \/ Charging
    BY <2>2, OtherThanMetering DEF meterVars
  <2> QED BY <2>1, <2>2 DEF Next
<1> QED BY <1>1, <1>2

LEMMA CrossingsKept ==
  ASSUME IInv, Next, NEW i \in DOMAIN entries
  PROVE  Crossings(i)' = Crossings(i)
<1>1. entries'[i] = entries[i] BY HistoryGrows
<1> QED BY <1>1 DEF Crossings

(* What is settled stays settled. *)
LEMMA SettledStays ==
  ASSUME IInv, Next, NEW b \in Buckets, Settled(b)
  PROVE  Settled(b)'
<1>1. CASE b \in dropped BY <1>1, HistoryGrows DEF Settled
<1>2. CASE \E i \in DOMAIN entries :
             entries[i].key = DebitKey(b) /\ Crossings(i) \X {i} \subseteq emitted
  <2>1. PICK i \in DOMAIN entries :
               entries[i].key = DebitKey(b) /\ Crossings(i) \X {i} \subseteq emitted
    BY <1>2
  <2>2. /\ i \in DOMAIN entries'
        /\ entries'[i].key = DebitKey(b)
        /\ emitted \subseteq emitted'
    BY <2>1, HistoryGrows
  <2>3. Crossings(i)' \X {i} \subseteq emitted' BY <2>1, <2>2, CrossingsKept
  <2> QED BY <2>2, <2>3 DEF Settled
<1> QED BY <1>1, <1>2 DEF Settled

(* A held bucket is kept until it is settled. *)
LEMMA HeldUntilSettled ==
  ASSUME IInv, FlushesHonest, Next, NEW n \in Nodes, NEW b \in Buckets, held[n][b] > 0
  PROVE  held'[n][b] > 0 \/ Settled(b)'
<1>0. held \in [Nodes -> [Buckets -> Nat]] BY DEF IInv, TypeOK
<1>1. CASE UNCHANGED held BY <1>1
<1>2. ASSUME NEW m \in Nodes, Ingest(m)
      PROVE  held'[n][b] > 0
  BY <1>0, <1>2 DEF Ingest
<1>3. ASSUME NEW m \in Nodes, Stop(m)
      PROVE  held'[n][b] > 0 \/ Settled(b)'
  <2>1. CASE m = n
    <3>1. b \in dropped' BY <1>3, <2>1 DEF Stop, HeldBy
    <3> QED BY <3>1 DEF Settled
  <2>2. CASE m # n
    <3>1. held'[n] = held[n] BY <1>0, <1>3, <2>2 DEF Stop
    <3> QED BY <3>1
  <2> QED BY <2>1, <2>2
<1>4. ASSUME NEW m \in Nodes, NEW k \in Kinds, FlushForget(m, k)
      PROVE  held'[n][b] > 0 \/ Settled(b)'
  <2>1. CASE m = n /\ Earliest(flush[m][k].todo) = b
    <3>1. FlushHonest(m, flush[m][k]) BY DEF FlushesHonest
    <3>2. Settled(b) BY <1>4, <2>1, <3>1 DEF FlushForget, FlushHonest
    <3> QED BY <3>2, SettledStays
  <2>2. CASE ~ (m = n /\ Earliest(flush[m][k].todo) = b)
    <3>1. held'[n][b] = held[n][b] BY <1>0, <1>4, <2>2 DEF FlushForget
    <3> QED BY <3>1
  <2> QED BY <2>1, <2>2
<1>5. CASE Metering
  BY <1>1, <1>2, <1>3, <1>4, <1>5 DEF Metering, Flushing, Tick, TimerFlush, Shutdown,
     FlushDebit, FlushEmit, FlushFails
<1>6. CASE Trial \/ Paying \/ Charging
  BY <1>1, <1>6, OtherThanMetering DEF meterVars
<1> QED BY <1>5, <1>6 DEF Next

(* A bucket's debit is appended only by a flush that has the bucket in hand. *)
LEMMA NewDebit ==
  ASSUME IInv, Next, NEW i \in DOMAIN entries', i \notin DOMAIN entries,
         NEW b \in Buckets, entries'[i].key = DebitKey(b)
  PROVE  /\ DebitKey(b) \notin KeysOf(entries)
         /\ \E n \in Nodes, k \in Kinds :
              FlushDebit(n, k) /\ b = Earliest(flush[n][k].todo)
<1>0. LedgerTypeOK BY DEF IInv, TypeOK
<1>1. ASSUME NEW key, NEW amount, NEW forced, AppendEntry(key, amount, forced)
      PROVE  key = DebitKey(b) /\ key \notin KeysOf(entries)
  <2>1. CASE UNCHANGED entries BY <2>1
  <2>2. CASE /\ key \notin KeysOf(entries)
             /\ entries' = Append(entries, [key |-> key, amount |-> amount,
                                            after |-> balance + amount])
    <3>1. entries'[i].key = key BY <1>0, <2>2 DEF LedgerTypeOK
    <3> QED BY <2>2, <3>1
  <2> QED BY <1>1, <2>1, <2>2 DEF AppendEntry
<1>2. ~ UNCHANGED entries OBVIOUS
<1>3. ASSUME NEW n \in Nodes, NEW k \in Kinds, FlushDebit(n, k)
      PROVE  DebitKey(b) \notin KeysOf(entries) /\ b = Earliest(flush[n][k].todo)
  <2> DEFINE c == Earliest(flush[n][k].todo)
  <2>1. c \in Buckets BY <1>3, FlushFacts DEF FlushDebit
  <2>2. AppendEntry(DebitKey(c), -flush[n][k].amount, "none")
    BY <1>2, <1>3 DEF FlushDebit, ledgerVars
  <2>3. DebitKey(c) = DebitKey(b) /\ DebitKey(c) \notin KeysOf(entries) BY <1>1, <2>2
  <2> QED BY <2>1, <2>3, DebitKeyInjective
<1>4. CASE Metering
  BY <1>2, <1>3, <1>4 DEF Metering, Flushing, Tick, Ingest, TimerFlush, Shutdown, Stop,
                          FlushEmit, FlushForget, FlushFails, ledgerVars
<1>5. CASE Trial
  <2>1. ASSUME NEW v \in Verifiers, VerifyGrant(v)
        PROVE  FALSE
    BY <1>1, <2>1, OnlyDebits DEF VerifyGrant
  <2> QED BY <1>2, <1>5, <2>1 DEF Trial, ProvisionTrial, VerifyRead, VerifyMark, VerifyDies,
                                  ledgerVars
<1>6. CASE Paying
  <2>1. PICK p \in captured : HandleWebhook(p) BY <1>6 DEF Paying
  <2>2. p \in Payments BY DEF IInv, TypeOK
  <2> QED BY <1>1, <2>1, <2>2, OnlyDebits DEF HandleWebhook
<1>7. CASE Charging
  <2>1. ASSUME CreditCharge PROVE FALSE
    <3>1. <<"autocharge", charge.entry>> \in Payments
      BY <2>1, ChargeFacts DEF CreditCharge
    <3> QED BY <1>1, <2>1, <3>1, OnlyDebits DEF CreditCharge
  <2> QED BY <1>2, <1>7, <2>1 DEF Charging, UpdateConfig, OnLowBalance, ChargeAccepted,
                                  ChargeDeclined, RecordCharge, ChargeAborts, ledgerVars
<1> QED BY <1>3, <1>4, <1>5, <1>6, <1>7 DEF Next

(* A flush left as it is stays honest. *)
LEMMA HonestStays ==
  ASSUME IInv, FlushesHonest, Next, NEW n \in Nodes, NEW k \in Kinds,
         NEW f, f = flush[n][k]
  PROVE  FlushHonest(n, f)'
<1> SUFFICES ASSUME f.pc # "idle"
             PROVE  /\ f.pc = "forget" \/ (f.pc = "debit" /\ f.amount = 0)
                         => Settled(Earliest(f.todo))'
                    /\ \A b \in f.todo : held'[n][b] > 0 \/ Settled(b)'
  BY DEF FlushHonest
<1>1. FlushHonest(n, f) BY DEF FlushesHonest
<1>2. f.todo \in SUBSET Buckets /\ Earliest(f.todo) \in Buckets BY FlushFacts
<1>3. f.pc = "forget" \/ (f.pc = "debit" /\ f.amount = 0) => Settled(Earliest(f.todo))'
  <2> SUFFICES ASSUME f.pc = "forget" \/ (f.pc = "debit" /\ f.amount = 0)
               PROVE  Settled(Earliest(f.todo))'
    OBVIOUS
  <2>1. Settled(Earliest(f.todo)) BY <1>1 DEF FlushHonest
  <2>2. PICK b \in Buckets : b = Earliest(f.todo) BY <1>2
  <2>3. Settled(b)' BY <2>1, <2>2, SettledStays
  <2>4. b = Earliest(f.todo)' BY <2>2 DEF Earliest
  <2> QED BY <2>3, <2>2
<1>4. ASSUME NEW b \in f.todo PROVE held'[n][b] > 0 \/ Settled(b)'
  <2>1. b \in Buckets BY <1>2
  <2>2. held[n][b] > 0 \/ Settled(b) BY <1>1 DEF FlushHonest
  <2> QED BY <2>1, <2>2, SettledStays, HeldUntilSettled
<1> QED BY <1>3, <1>4

(* A flush set to an honest state leaves all flushes honest. *)
LEMMA FlushHonestSet ==
  ASSUME IInv, FlushesHonest, Next, NEW n \in Nodes, NEW k \in Kinds, NEW f,
         flush' = [flush EXCEPT ![n][k] = f], FlushHonest(n, f)'
  PROVE  FlushesHonest'
<1>0. flush \in [Nodes -> [Kinds -> FlushStates]] BY DEF IInv, TypeOK
<1> SUFFICES ASSUME NEW m \in Nodes, NEW j \in Kinds
             PROVE  FlushHonest(m, flush[m][j])'
  BY DEF FlushesHonest
<1>1. CASE m = n /\ j = k
  <2>1. flush'[m][j] = f BY <1>0, <1>1
  <2> QED BY <1>1, <2>1 DEF FlushHonest
<1>2. CASE ~ (m = n /\ j = k)
  <2> PICK g : g = flush[m][j] OBVIOUS
  <2>1. flush'[m][j] = g BY <1>0, <1>2
  <2>2. FlushHonest(m, g)' BY HonestStays
  <2> QED BY <2>1, <2>2 DEF FlushHonest
<1> QED BY <1>1, <1>2

(* A flush that takes up buckets each held or settled is honest. *)
LEMMA TakeUpHonest ==
  ASSUME IInv, FlushesHonest, Next, NEW n \in Nodes, NEW todo \in SUBSET Buckets,
         \A b \in todo : held[n][b] > 0 \/ Settled(b),
         NEW f, f = TakeUp(n, todo)
  PROVE  FlushHonest(n, f)'
<1>1. CASE todo = {}
  BY <1>1 DEF TakeUp, NoFlush, FlushHonest
<1>2. CASE todo # {}
  <2>1. PICK e \in todo : e = Earliest(todo) BY <1>2, EarliestType
  <2>2. f = [pc |-> "debit", todo |-> todo, amount |-> held[n][e]]
    BY <1>2, <2>1 DEF TakeUp
  <2>3. f.pc = "debit" /\ f.todo = todo /\ f.amount = held[n][e] BY <2>2
  <2>4. ASSUME NEW b \in todo PROVE held'[n][b] > 0 \/ Settled(b)'
    BY SettledStays, HeldUntilSettled
  <2>5. ASSUME held[n][e] = 0 PROVE Settled(e)'
    <3>1. Settled(e) BY <2>5
    <3> QED BY <3>1, SettledStays
  <2> QED BY <2>1, <2>3, <2>4, <2>5 DEF FlushHonest
<1> QED BY <1>1, <1>2

(* A flush that goes on in the same bucket is honest, if what it is about to *)
(* forget is settled.                                                        *)
LEMMA GotoHonest ==
  ASSUME IInv, FlushesHonest, Next, NEW n \in Nodes, NEW k \in Kinds,
         flush[n][k].pc # "idle", NEW pc \in {"emit", "forget"}, Goto(n, k, pc),
         NEW b, b = Earliest(flush[n][k].todo),
         pc = "forget" => Settled(b)'
  PROVE  FlushesHonest'
<1> PICK f : f = flush[n][k] OBVIOUS
<1>1. f \in FlushStates BY FlushFacts
<1> DEFINE g == [f EXCEPT !.pc = pc]
<1>2. g.pc = pc /\ g.todo = f.todo BY <1>1 DEF FlushStates
<1>3. flush' = [flush EXCEPT ![n][k] = g] BY DEF Goto, IInv, TypeOK
<1>4. FlushHonest(n, f)' BY HonestStays
<1> HIDE DEF g
<1>5. FlushHonest(n, g)'
  BY <1>2, <1>4 DEF FlushHonest
<1> QED BY <1>3, <1>5, FlushHonestSet

LEMMA FlushesHonestStep ==
  ASSUME IInv, CrossingInv, Next
  PROVE  FlushesHonest'
<1>0. FlushesHonest BY DEF CrossingInv
<1>1. CASE UNCHANGED flush
  <2> SUFFICES ASSUME NEW m \in Nodes, NEW j \in Kinds
               PROVE  FlushHonest(m, flush[m][j])'
    BY DEF FlushesHonest
  <2> PICK g : g = flush[m][j] OBVIOUS
  <2>1. FlushHonest(m, g)' BY <1>0, HonestStays
  <2> QED BY <1>1, <2>1 DEF FlushHonest
<1>2. ASSUME NEW n \in Nodes, NEW k \in Kinds, NEW todo \in SUBSET Buckets,
             \A b \in todo : held[n][b] > 0 \/ Settled(b),
             flush' = [flush EXCEPT ![n][k] = TakeUp(n, todo)]
      PROVE  FlushesHonest'
  <2> PICK f : f = TakeUp(n, todo) OBVIOUS
  <2>1. FlushHonest(n, f)' BY <1>0, <1>2, TakeUpHonest
  <2> QED BY <1>0, <1>2, <2>1, FlushHonestSet
<1>3. ASSUME NEW n \in Nodes, TimerFlush(n) PROVE FlushesHonest'
  <2> DEFINE closed == {b \in HeldBy(n) : b < now}
  <2>1. closed \in SUBSET Buckets /\ \A b \in closed : held[n][b] > 0 BY DEF HeldBy
  <2>2. flush' = [flush EXCEPT ![n]["timer"] = TakeUp(n, closed)] BY <1>3 DEF TimerFlush
  <2> HIDE DEF closed
  <2> QED BY <1>2, <2>1, <2>2 DEF Kinds
<1>4. ASSUME NEW n \in Nodes, Shutdown(n) PROVE FlushesHonest'
  <2>1. HeldBy(n) \in SUBSET Buckets /\ \A b \in HeldBy(n) : held[n][b] > 0 BY DEF HeldBy
  <2>2. flush' = [flush EXCEPT ![n]["shutdown"] = TakeUp(n, HeldBy(n))]
    BY <1>4 DEF Shutdown
  <2> QED BY <1>2, <2>1, <2>2 DEF Kinds
<1>5. ASSUME NEW n \in Nodes, Stop(n) PROVE FlushesHonest'
  <2> SUFFICES ASSUME NEW m \in Nodes, NEW j \in Kinds
               PROVE  FlushHonest(m, flush[m][j])'
    BY DEF FlushesHonest
  <2>0. flush \in [Nodes -> [Kinds -> FlushStates]] BY DEF IInv, TypeOK
  <2>1. CASE m = n
    <3>1. flush'[m][j].pc = "idle" BY <1>5, <2>0, <2>1 DEF Stop, NoFlush
    <3> QED BY <3>1 DEF FlushHonest
  <2>2. CASE m # n
    <3> PICK g : g = flush[m][j] OBVIOUS
    <3>1. flush'[m][j] = g BY <1>5, <2>0, <2>2 DEF Stop
    <3>2. FlushHonest(m, g)' BY <1>0, HonestStays
    <3> QED BY <3>1, <3>2 DEF FlushHonest
  <2> QED BY <2>1, <2>2
<1>6. ASSUME NEW n \in Nodes, NEW k \in Kinds, Flushing(n, k) PROVE FlushesHonest'
  <2>0. flush[n][k].pc # "idle"
    BY <1>6 DEF Flushing, FlushDebit, FlushEmit, FlushForget, FlushFails
  <2> PICK f : f = flush[n][k] OBVIOUS
  <2>1. f.todo \in SUBSET Buckets BY <2>0, FlushFacts
  <2>2. PICK b \in Buckets : b = Earliest(f.todo) BY <2>0, FlushFacts
  <2>3. FlushHonest(n, f) BY <1>0 DEF FlushesHonest
  <2>4. \A c \in f.todo : held[n][c] > 0 \/ Settled(c) BY <2>0, <2>3 DEF FlushHonest
  <2>5. f.amount \in Nat BY <2>0, FlushFacts
  <2>6. CASE FlushDebit(n, k)
    <3>1. CASE Goto(n, k, "emit") BY <1>0, <2>0, <2>2, <3>1, GotoHonest
    <3>2. CASE /\ lifecycle = "none" \/ f.amount = 0
               /\ Goto(n, k, "forget")
               /\ dropped' = IF f.amount > 0 THEN dropped \union {b} ELSE dropped
      <4>1. CASE f.amount > 0
        <5>1. Settled(b)' BY <3>2, <4>1 DEF Settled
        <5> QED BY <1>0, <2>0, <2>2, <3>2, <5>1, GotoHonest
      <4>2. CASE f.amount = 0
        <5>1. Settled(b) BY <2>0, <2>2, <2>3, <2>6, <4>2 DEF FlushHonest, FlushDebit
        <5>2. Settled(b)' BY <5>1, SettledStays
        <5> QED BY <1>0, <2>0, <2>2, <3>2, <5>2, GotoHonest
      <4> QED BY <2>5, <4>1, <4>2
    <3> QED BY <2>2, <2>6, <3>1, <3>2 DEF FlushDebit
  <2>7. CASE FlushEmit(n, k)
    <3>1. PICK i : i = EntryOf(DebitKey(b)) OBVIOUS
    <3>2. /\ emitted' = emitted \union (Crossings(i) \X {i})
          /\ Goto(n, k, "forget")
          /\ UNCHANGED entries
      BY <2>2, <2>7, <3>1 DEF FlushEmit, ledgerVars
    <3>3. DebitKey(b) \in KeysOf(entries) BY <2>0, <2>2, <2>7, FlushFacts DEF FlushEmit
    <3>4. i \in DOMAIN entries /\ entries[i].key = DebitKey(b)
      BY <3>1, <3>3 DEF KeysOf, EntryOf
    <3>5. Crossings(i)' = Crossings(i) BY <3>4, CrossingsKept
    <3>6. Settled(b)' BY <3>2, <3>4, <3>5 DEF Settled
    <3> QED BY <1>0, <2>0, <2>2, <3>2, <3>6, GotoHonest
  <2>8. CASE FlushForget(n, k) \/ FlushFails(n, k)
    <3>1. flush' = [flush EXCEPT ![n][k] = TakeUp(n, f.todo \ {b})]
      BY <2>2, <2>8 DEF FlushForget, FlushFails
    <3>2. f.todo \ {b} \in SUBSET Buckets BY <2>1
    <3>3. \A c \in f.todo \ {b} : held[n][c] > 0 \/ Settled(c) BY <2>4
    <3> QED BY <1>2, <3>1, <3>2, <3>3
  <2> QED BY <1>6, <2>6, <2>7, <2>8 DEF Flushing
<1>7. CASE Metering
  BY <1>1, <1>3, <1>4, <1>5, <1>6, <1>7 DEF Metering, Tick, Ingest
<1>8. CASE Trial \/ Paying \/ Charging
  BY <1>1, <1>8, OtherThanMetering DEF meterVars
<1> QED BY <1>7, <1>8 DEF Next

LEMMA CrossingStep ==
  ASSUME IInv, CrossingInv, Next
  PROVE  CrossingInv'
<1>0. FlushesHonest /\ NoLostCrossing BY DEF CrossingInv
<1>1. FlushesHonest' BY FlushesHonestStep
<1>2. NoLostCrossing'
  <2> SUFFICES ASSUME NEW i \in DOMAIN entries', NEW b \in Buckets, b \notin dropped',
                      entries'[i].key = DebitKey(b)
               PROVE  \/ Crossings(i)' \X {i} \subseteq emitted'
                      \/ \E n \in Nodes : held'[n][b] > 0
    BY DEF NoLostCrossing
  <2>1. KeysUnique' BY LedgerStep DEF LedgerSound
  <2>2. CASE Settled(b)'
    <3>1. PICK j \in DOMAIN entries' :
            entries'[j].key = DebitKey(b) /\ Crossings(j)' \X {j} \subseteq emitted'
      BY <2>2 DEF Settled
    <3>2. i = j BY <2>1, <3>1 DEF KeysUnique
    <3> QED BY <3>1, <3>2
  <2>3. CASE i \in DOMAIN entries
    <3>1. entries[i].key = DebitKey(b) /\ b \in Buckets \ dropped
      BY <2>3, HistoryGrows
    <3>2. CASE Crossings(i) \X {i} \subseteq emitted
      BY <2>3, <3>2, HistoryGrows, CrossingsKept
    <3>3. CASE \E n \in Nodes : held[n][b] > 0
      BY <1>0, <2>2, <3>3, HeldUntilSettled
    <3> QED BY <1>0, <2>3, <3>1, <3>2, <3>3 DEF NoLostCrossing
  <2>4. CASE i \notin DOMAIN entries
    <3>1. DebitKey(b) \notin KeysOf(entries) BY <2>4, NewDebit
    <3>2. PICK n \in Nodes, k \in Kinds :
                 FlushDebit(n, k) /\ b = Earliest(flush[n][k].todo)
      BY <2>4, NewDebit
    <3>3. flush[n][k].pc # "idle" /\ UNCHANGED held BY <3>2 DEF FlushDebit
    <3>4. b \in flush[n][k].todo
      <4>1. FlushInHand(n, k) BY DEF IInv, FlushesInHand
      <4>2. flush[n][k].todo # {} BY <3>3, <4>1 DEF FlushInHand
      <4> QED BY <3>2, <3>3, <4>2, FlushFacts, EarliestType
    <3>5. FlushHonest(n, flush[n][k]) BY <1>0 DEF FlushesHonest
    <3>6. held[n][b] > 0 \/ Settled(b) BY <3>3, <3>4, <3>5 DEF FlushHonest
    <3>7. ~ Settled(b) BY <3>1, HistoryGrows DEF Settled, KeysOf
    <3> QED BY <3>3, <3>6, <3>7
  <2> QED BY <2>3, <2>4
<1> QED BY <1>1, <1>2 DEF CrossingInv

LEMMA CrossingInvariance == Spec => []CrossingInv
<1>1. Init => CrossingInv
  <2> SUFFICES ASSUME Init PROVE CrossingInv OBVIOUS
  <2>1. \A n \in Nodes, k \in Kinds : flush[n][k].pc = "idle" BY DEF Init, NoFlush
  <2>2. FlushesHonest BY <2>1 DEF FlushesHonest, FlushHonest
  <2>3. NoLostCrossing BY DEF Init, LedgerInit, NoLostCrossing
  <2> QED BY <2>2, <2>3 DEF CrossingInv
<1>2. IInv /\ CrossingInv /\ [Next]_vars => CrossingInv'
  <2>1. IInv /\ CrossingInv /\ Next => CrossingInv' BY CrossingStep
  <2>2. CrossingInv /\ UNCHANGED vars => CrossingInv'
    BY DEF CrossingInv, FlushesHonest, FlushHonest, NoLostCrossing, Settled, Crossings,
           vars, ledgerVars, meterVars
  <2> QED BY <2>1, <2>2
<1> QED BY <1>1, <1>2, Invariance, PTL DEF Spec

-----------------------------------------------------------------------------
(* The cap.  A charge the ledger has credited was captured, and what is     *)
(* counted against the cap, with what is about to be, is at most the        *)
(* credited charges: each is counted by the one run that credited it.       *)

Credited == {p \in Charges : CreditKey(p) \in KeysOf(entries)}

Pending == IF charge.pc = "record" THEN ChargeAmount ELSE 0

ChargeCaptured ==
  charge.pc \in {"credit", "record"} => <<"autocharge", charge.entry>> \in captured

CapInv ==
  /\ IsFiniteSet(Charges)
  /\ ChargeCaptured
  /\ recorded + Pending <= ChargeAmount * Cardinality(Credited)

LEMMA MoreIsMore ==
  ASSUME NEW a \in Nat, NEW c \in Nat, NEW d \in Nat, c <= d
  PROVE  /\ a * c \in Nat
         /\ a * c <= a * d
         /\ a * (c + 1) = a * c + a
<1>1. d - c \in Nat OBVIOUS
<1>2. PICK e \in Nat : e = d - c BY <1>1
<1>3. d = c + e BY <1>2
<1>4. a * d = a * c + a * e BY <1>3
<1>5. a * e \in Nat /\ a * c \in Nat OBVIOUS
<1>6. a * (c + 1) = a * c + a OBVIOUS
<1> QED BY <1>4, <1>5, <1>6

(* No key leaves the ledger and no capture is undone. *)
LEMMA CreditsGrow ==
  ASSUME IInv, CapInv, Next
  PROVE  /\ captured \subseteq captured'
         /\ IsFiniteSet(Charges)'
         /\ IsFiniteSet(Credited) /\ IsFiniteSet(Credited')
         /\ Credited \subseteq Credited'
<1>1. captured \subseteq captured' /\ IsFiniteSet(Charges)'
  <2>1. CASE UNCHANGED captured BY <2>1 DEF CapInv, Charges
  <2>2. CASE ChargeAccepted
    <3> DEFINE p == <<"autocharge", charge.entry>>
    <3>1. captured' = captured \union {p} BY <2>2 DEF ChargeAccepted
    <3>2. Charges' = Charges \union {p} BY <3>1 DEF Charges
    <3>3. IsFiniteSet(Charges) BY DEF CapInv
    <3> HIDE DEF p
    <3>4. IsFiniteSet(Charges \union {p}) BY <3>3, FS_AddElement
    <3> QED BY <3>1, <3>2, <3>4
  <2>3. UNCHANGED captured \/ ChargeAccepted
    <3>1. CASE Metering \/ Trial \/ Paying BY <3>1, OtherThanCharging
    <3>2. CASE Charging
      BY <3>2 DEF Charging, UpdateConfig, OnLowBalance, ChargeDeclined, CreditCharge,
                  RecordCharge, ChargeAborts
    <3> QED BY <3>1, <3>2 DEF Next
  <2> QED BY <2>1, <2>2, <2>3
<1>2. KeysOf(entries) \subseteq KeysOf(entries)' BY LedgerStep
<1>3. Credited \subseteq Credited' BY <1>1, <1>2 DEF Credited, Charges
<1>4. Credited \subseteq Charges /\ Credited' \subseteq Charges' BY DEF Credited
<1>5. IsFiniteSet(Charges) BY DEF CapInv
<1>6. IsFiniteSet(Credited) BY <1>4, <1>5, FS_Subset
<1>7. IsFiniteSet(Credited') BY <1>1, <1>4, FS_Subset
<1> QED BY <1>1, <1>3, <1>6, <1>7

LEMMA CapStep ==
  ASSUME IInv, CapInv, Next
  PROVE  CapInv'
<1> PICK c : c = Cardinality(Credited) OBVIOUS
<1> PICK d : d = Cardinality(Credited') OBVIOUS
<1>1. c \in Nat /\ d \in Nat /\ c <= d
  BY CreditsGrow, FS_CardinalityType, FS_Subset
<1>2. ChargeAmount \in Nat BY BillingAssumption
<1>3. ChargeAmount * c <= ChargeAmount * d /\ ChargeAmount * c \in Nat /\ ChargeAmount * d \in Nat
  BY <1>1, <1>2, MoreIsMore
<1>4. recorded + Pending <= ChargeAmount * c BY DEF CapInv
<1>5. recorded \in Nat /\ recorded' \in Nat BY ChargeStep DEF IInv, TypeOK, ChargeInv
<1>6. ChargeCaptured BY DEF CapInv
<1>7. captured \subseteq captured' BY CreditsGrow
<1>8. ASSUME recorded' + Pending' <= ChargeAmount * d, ChargeCaptured'
      PROVE  CapInv'
  BY <1>8, CreditsGrow DEF CapInv
<1>9. charge \in [pc: {"idle", "charge", "credit", "record"}, entry: Nat]
  BY DEF IInv, TypeOK
<1>10. Pending \in Nat /\ Pending' \in Nat BY <1>2 DEF Pending
<1>a. Resting.pc = "idle" BY DEF Resting
<1>11. ASSUME recorded' = recorded, Pending' <= Pending, ChargeCaptured'
       PROVE  CapInv'
  <2>1. recorded' + Pending' <= ChargeAmount * d
    BY <1>3, <1>4, <1>5, <1>10, <1>11
  <2> QED BY <1>8, <1>11, <2>1
<1>12. CASE Metering \/ Trial \/ Paying
  <2>1. UNCHANGED <<recorded, charge, captured>>
    BY <1>12, OtherThanCharging DEF chargeVars
  <2>2. Pending' <= Pending BY <1>10, <2>1 DEF Pending
  <2>3. ChargeCaptured' BY <1>6, <2>1 DEF ChargeCaptured
  <2> QED BY <1>11, <2>1, <2>2, <2>3
<1>13. CASE UpdateConfig
  <2>1. UNCHANGED <<recorded, charge, captured>> BY <1>13 DEF UpdateConfig
  <2>2. Pending' <= Pending BY <1>10, <2>1 DEF Pending
  <2>3. ChargeCaptured' BY <1>6, <2>1 DEF ChargeCaptured
  <2> QED BY <1>11, <2>1, <2>2, <2>3
<1>14. ASSUME UNCHANGED recorded, charge'.pc \in {"idle", "charge"}
       PROVE  CapInv'
  <2>1. Pending' <= Pending BY <1>10, <1>14 DEF Pending
  <2>2. ChargeCaptured' BY <1>14 DEF ChargeCaptured
  <2> QED BY <1>11, <1>14, <2>1, <2>2
<1>15. ASSUME NEW i \in DOMAIN entries, OnLowBalance(i) PROVE CapInv'
  BY <1>14, <1>15 DEF OnLowBalance
<1>16. CASE ChargeDeclined \/ ChargeAborts
  BY <1>14, <1>16, <1>a DEF ChargeDeclined, ChargeAborts
<1>17. CASE ChargeAccepted
  <2>1. /\ charge'.pc = "credit"
        /\ charge'.entry = charge.entry
        /\ <<"autocharge", charge.entry>> \in captured'
        /\ UNCHANGED recorded
    BY <1>9, <1>17 DEF ChargeAccepted
  <2>2. Pending' <= Pending BY <1>10, <2>1 DEF Pending
  <2>3. ChargeCaptured' BY <2>1 DEF ChargeCaptured
  <2> QED BY <1>11, <2>1, <2>2, <2>3
<1>18. CASE CreditCharge
  <2> DEFINE p == <<"autocharge", charge.entry>>
  <2>1. p \in captured /\ p \in Payments
    BY <1>6, <1>18, ChargeFacts DEF CreditCharge, ChargeCaptured
  <2>2. UNCHANGED <<recorded, captured>> BY <1>18 DEF CreditCharge
  <2>3. CASE CreditKey(p) \in KeysOf(entries)
    <3>1. charge' = Resting BY <1>18, <2>3 DEF CreditCharge
    <3> QED BY <1>14, <1>a, <2>2, <3>1
  <2>4. CASE CreditKey(p) \notin KeysOf(entries)
    <3>1. charge'.pc = "record" /\ charge'.entry = charge.entry
      BY <1>9, <1>18, <2>4 DEF CreditCharge
    <3>2. ChargeCaptured' BY <2>1, <2>2, <3>1 DEF ChargeCaptured
    <3>3. CreditKey(p) \in KeysOf(entries)'
      <4>1. AppendEntry(CreditKey(p), ChargeAmount, "none") BY <1>18 DEF CreditCharge
      <4>2. CreditKey(p) \in Keys BY <2>1, KeyTypes
      <4>3. LedgerTypeOK /\ LedgerSound BY DEF IInv, TypeOK
      <4>4. ChargeAmount \in Int BY <1>2
      <4> HIDE DEF p
      <4> QED BY <4>1, <4>2, <4>3, <4>4, AppendSound
    <3>4. p \in Credited' /\ p \notin Credited
      BY <2>1, <2>2, <2>4, <3>3 DEF Credited, Charges
    <3> HIDE DEF p
    <3>5. c + 1 <= d
      <4> DEFINE more == Credited \union {p}
      <4>1. IsFiniteSet(more) /\ Cardinality(more) = c + 1
        BY <3>4, CreditsGrow, FS_AddElement
      <4>2. more \subseteq Credited' BY <3>4, CreditsGrow
      <4> HIDE DEF more
      <4> QED BY <4>1, <4>2, CreditsGrow, FS_Subset
    <3>6. ChargeAmount * (c + 1) <= ChargeAmount * d BY <1>1, <1>2, <3>5, MoreIsMore
    <3>7. ChargeAmount * (c + 1) = ChargeAmount * c + ChargeAmount
      BY <1>1, <1>2, MoreIsMore
    <3>8. recorded' + Pending' <= ChargeAmount * d
      <4>1. Pending' = ChargeAmount BY <3>1 DEF Pending
      <4>2. Pending = 0 BY <1>18 DEF CreditCharge, Pending
      <4> QED BY <1>2, <1>3, <1>4, <1>5, <2>2, <3>6, <3>7, <4>1, <4>2
    <3> QED BY <1>8, <3>2, <3>8
  <2> QED BY <2>3, <2>4
<1>19. CASE RecordCharge
  <2>1. Pending = ChargeAmount /\ recorded' = recorded + ChargeAmount
    BY <1>19 DEF RecordCharge, Pending
  <2>2. charge'.pc = "idle" BY <1>19, <1>a DEF RecordCharge
  <2>3. Pending' = 0 /\ ChargeCaptured' BY <2>2 DEF Pending, ChargeCaptured
  <2>4. recorded' + Pending' <= ChargeAmount * d
    BY <1>2, <1>3, <1>4, <1>5, <2>1, <2>3
  <2> QED BY <1>8, <2>3, <2>4
<1> QED BY <1>12, <1>13, <1>15, <1>16, <1>17, <1>18, <1>19 DEF Next, Charging

LEMMA CapInvariance == Spec => []CapInv
<1>1. Init => CapInv
  <2> SUFFICES ASSUME Init PROVE CapInv OBVIOUS
  <2>1. Charges = {} BY DEF Init, Charges
  <2>2. Credited = {} BY <2>1 DEF Credited
  <2>3. IsFiniteSet(Charges) /\ Cardinality(Credited) = 0 BY <2>1, <2>2, FS_EmptySet
  <2>4. ChargeAmount * 0 = 0 BY BillingAssumption
  <2>5. recorded + Pending = 0 /\ ChargeCaptured
    BY DEF Init, Pending, ChargeCaptured, Resting
  <2> QED BY <2>3, <2>4, <2>5 DEF CapInv
<1>2. IInv /\ CapInv /\ [Next]_vars => CapInv'
  <2>1. IInv /\ CapInv /\ Next => CapInv' BY CapStep
  <2>2. CapInv /\ UNCHANGED vars => CapInv'
    BY DEF CapInv, ChargeCaptured, Pending, Credited, Charges, vars, ledgerVars, chargeVars
  <2> QED BY <2>1, <2>2
<1> QED BY <1>1, <1>2, Invariance, PTL DEF Spec

-----------------------------------------------------------------------------
(* The theorems. *)

(* The money invariant: in every state the entries chain into the balance,  *)
(* no key is in the ledger twice, and a tenant with money is active - for   *)
(* any number of processes, verifications and payments, whatever crashes.   *)
THEOREM LedgerIsSound == Spec => []LedgerSound
<1>1. IInv => LedgerSound BY DEF IInv
<1> QED BY <1>1, Invariance, PTL

(* Billing implements the abstract prepaid account: whatever metering, trial *)
(* and payments do, the balance moves by keys that count once, or not at all.*)
THEOREM BillingIsAccount == Spec => ImplementsAccount
<1>1. Init => PrepaidAccount!Init
  BY DEF Init, LedgerInit, PrepaidAccount!Init, Counted
<1>2. IInv /\ [Next]_vars => [PrepaidAccount!Count]_(PrepaidAccount!vars)
  <2> SUFFICES ASSUME IInv, [Next]_vars
               PROVE  PrepaidAccount!Count \/ UNCHANGED <<Counted, balance>>
    BY DEF PrepaidAccount!vars
  <2>1. CASE Next BY <2>1, LedgerStep
  <2>2. CASE UNCHANGED vars BY <2>2 DEF vars, ledgerVars, Counted
  <2> QED BY <2>1, <2>2
<1> QED BY <1>1, <1>2, Invariance, PTL DEF Spec, ImplementsAccount, PrepaidAccount!Spec

(* Usage is never debited twice: a bucket's debit is at most its usage,     *)
(* however its flushes overlap, fail and are retried, in any number of      *)
(* processes.                                                               *)
THEOREM UsageIsNeverOvercharged == Spec => []NeverOvercharged
<1>1. IInv => NeverOvercharged BY DEF IInv
<1> QED BY <1>1, Invariance, PTL

(* A verified tenant has its trial grant, however many verifications raced  *)
(* and died.                                                                *)
THEOREM VerifiedTenantsHaveTheirGrant == Spec => []VerifiedHasGrant
<1>1. IInv => VerifiedHasGrant BY DEF IInv
<1> QED BY <1>1, Invariance, PTL

(* Both of them in one: what the ledger says and what a verified tenant was  *)
(* given agree in every state of the billing.                                *)
THEOREM MoneyIsSound == Spec => []MoneySound
<1>1. LedgerSound /\ VerifiedHasGrant => MoneySound BY DEF MoneySound
<1> QED BY <1>1, LedgerIsSound, VerifiedTenantsHaveTheirGrant, PTL

(* A crossing is never lost: a debit that took the balance across a line is *)
(* announced, or a process holds its bucket still and will flush it again,   *)
(* unless a process gave the bucket up - however many flushes overlap, fail  *)
(* halfway and are retried.                                                  *)
THEOREM CrossingsAreKept == Spec => []NoLostCrossing
<1>1. CrossingInv => NoLostCrossing BY DEF CrossingInv
<1> QED BY <1>1, CrossingInvariance, PTL

(* What counts against the auto-charge cap was charged: a crossing delivered *)
(* twice, a webhook that came first, an aborted run never count a charge     *)
(* twice, whatever the amounts.                                              *)
THEOREM CapCountsRealCharges == Spec => []CapCountsCharges
<1>1. IInv /\ CapInv => CapCountsCharges
  <2> SUFFICES ASSUME IInv, CapInv PROVE CapCountsCharges OBVIOUS
  <2>1. Credited \subseteq Charges /\ IsFiniteSet(Charges) BY DEF Credited, CapInv
  <2>2. /\ Cardinality(Credited) \in Nat
        /\ Cardinality(Charges) \in Nat
        /\ Cardinality(Credited) <= Cardinality(Charges)
    BY <2>1, FS_Subset, FS_CardinalityType
  <2>3. ChargeAmount \in Nat BY BillingAssumption
  <2>4. /\ ChargeAmount * Cardinality(Credited) <= ChargeAmount * Cardinality(Charges)
        /\ ChargeAmount * Cardinality(Credited) \in Nat
        /\ ChargeAmount * Cardinality(Charges) \in Nat
    BY <2>2, <2>3, MoreIsMore
  <2>5. recorded \in Nat /\ Pending \in Nat BY <2>3 DEF IInv, TypeOK, Pending
  <2>6. recorded + Pending <= ChargeAmount * Cardinality(Credited) BY DEF CapInv
  <2> QED BY <2>4, <2>5, <2>6 DEF CapCountsCharges
<1> QED BY <1>1, Invariance, CapInvariance, PTL

(* Every reachable state is well typed. *)
THEOREM BillingTypeCorrect == Spec => []TypeOK
<1>1. IInv => TypeOK BY DEF IInv
<1> QED BY <1>1, Invariance, PTL
====
