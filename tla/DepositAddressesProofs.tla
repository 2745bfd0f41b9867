------------------------ MODULE DepositAddressesProofs ------------------------
(***************************************************************************)
(* What deposit addresses promise, for any number of people, assets, calls *)
(* and restarts, and whether or not the mnemonic is kept.  The argument is *)
(* about the counter: a number that a call has read under the lock has     *)
(* been read by no other call of the run.                                  *)
(***************************************************************************)
EXTENDS DepositAddresses, TLAPS

\* A call under way works for somebody.
Engaged == \A c \in Calls : pc[c] \in {"index", "load", "store"} => key[c] \in People \X Keys

\* The two maps of addresses agree.
MapsAgree ==
  \A k \in DOMAIN userAddr : userAddr[k] \in DOMAIN addrUser /\ addrUser[userAddr[k]] = k

\* The indexes of stored addresses have been counted.
Counted == \A a \in DOMAIN addrUser : a.index \in 1 .. seq

\* An index that waits to be stored is neither stored nor held by another call.
Fresh ==
  \A c \in Calls : pc[c] = "store" =>
    /\ index[c] \in 1 .. seq
    /\ \A a \in DOMAIN addrUser : a.index # index[c]
    /\ \A d \in Calls : d # c /\ pc[d] = "store" => index[d] # index[c]

\* The counter, while a call is about to read it, is ahead of every index.
Ahead ==
  \A c \in Calls : pc[c] = "load" =>
    /\ seq >= 1
    /\ \A a \in DOMAIN addrUser : a.index < seq
    /\ \A d \in Calls : /\ pc[d] = "store" => index[d] < seq
                        /\ pc[d] = "load" => d = c

\* The answers of this run are what the maps say, and none is the hot wallet's.
Told ==
  \A c \in DOMAIN answers : LET a == answers[c] IN
    /\ a.addr.index >= 1 /\ a.run <= runs
    /\ a.run = runs => a.key \in DOMAIN userAddr /\ userAddr[a.key] = a.addr

\* The inductive invariant.
IInv ==
  TypeOK /\ Engaged /\ MapsAgree /\ Counted /\ Fresh /\ Ahead /\ Told /\ OneAddressPerKey

------------------------------------------------------------------------------
\* Putting y at x adds y to the values of a function, and nothing else.
LEMMA PutRange ==
  ASSUME NEW f, NEW x, NEW y, NEW D, NEW R, DOMAIN f \subseteq D, Range(f) \subseteq R,
         x \in D, y \in R
  PROVE  DOMAIN Put(f, x, y) \subseteq D /\ Range(Put(f, x, y)) \subseteq R
  BY DEF Put, Range

\* What an answer may be.
Answers == [by: People, key: Keys, addr: Addresses, run: 0 .. MaxRestarts]

\* Nothing is in the empty function.
LEMMA EmptyFun == DOMAIN Empty = {} /\ Range(Empty) = {}
  BY DEF Empty, Range

\* Every asset has a coin type, so every derivation gives an address.
LEMMA DeriveType ==
  ASSUME NEW asset \in Symbols, NEW i \in Nat, runs \in Nat
  PROVE  Derive(asset, i) \in Addresses /\ Derive(asset, i).index = i
<1>1. CoinType(asset) \in Nat
  BY AddressAssumption DEF CoinType
<1>2. Mnemonic \in Nat
  BY DEF Mnemonic
<1> QED
  BY <1>1, <1>2 DEF Derive, Addresses

------------------------------------------------------------------------------
\* Nothing is stored and nobody has asked when the program starts.
LEMMA InitInv == Init => IInv
<1> SUFFICES ASSUME Init PROVE IInv
  OBVIOUS
<1> USE EmptyFun DEF Init, AccountsInit
<1>1. TypeOK
  BY AddressAssumption DEF TypeOK
<1> QED
  BY <1>1 DEF IInv, Engaged, MapsAgree, Counted, Fresh, Ahead, Told, OneAddressPerKey

\* An answer from the maps keeps what is said of answers.
LEMMA AnswerInv ==
  ASSUME IInv, NEW c \in Calls, NEW a \in Answers, answers' = Put(answers, c, a),
         a.run = runs, a.addr.index >= 1, UNCHANGED runs,
         MapsAgree', DOMAIN userAddr \subseteq DOMAIN userAddr',
         \A k \in DOMAIN userAddr : userAddr'[k] = userAddr[k],
         a.key \in DOMAIN userAddr', userAddr'[a.key] = a.addr
  PROVE  /\ DOMAIN answers' \subseteq Calls /\ Range(answers') \subseteq Answers
         /\ Told' /\ OneAddressPerKey'
<1>1. /\ DOMAIN answers' = DOMAIN answers \cup {c} /\ answers'[c] = a
      /\ \A d \in DOMAIN answers : d # c => answers'[d] = answers[d]
  BY DEF Put
<1>2. Told'
  BY <1>1 DEF IInv, TypeOK, Told
<1>3. OneAddressPerKey'
  <2> SUFFICES ASSUME NEW x \in DOMAIN answers', NEW y \in DOMAIN answers',
                      answers'[x].run = answers'[y].run
               PROVE  answers'[x].key = answers'[y].key <=> answers'[x].addr = answers'[y].addr
    BY DEF OneAddressPerKey
  <2>1. CASE answers'[x].run = runs
    <3>1. /\ answers'[x].key \in DOMAIN userAddr' /\ userAddr'[answers'[x].key] = answers'[x].addr
          /\ answers'[y].key \in DOMAIN userAddr' /\ userAddr'[answers'[y].key] = answers'[y].addr
      BY <1>2, <2>1 DEF Told
    <3> QED
      BY <3>1 DEF MapsAgree
  <2>2. CASE answers'[x].run # runs
    <3>1. x # c /\ y # c
      BY <1>1, <2>2
    <3> QED
      BY <1>1, <3>1 DEF IInv, OneAddressPerKey
  <2> QED
    BY <2>1, <2>2
<1>4. DOMAIN answers' \subseteq Calls /\ Range(answers') \subseteq Answers
  <2>1. DOMAIN answers \subseteq Calls /\ Range(answers) \subseteq Answers
    BY DEF IInv, TypeOK, Answers
  <2> QED
    BY <2>1, PutRange
<1> QED
  BY <1>2, <1>3, <1>4

\* People and their tokens do not touch addresses.
LEMMA AccountsInv ==
  ASSUME IInv, NEW p \in People, Register(p) \/ Login(p), UNCHANGED <<wallet, runs>>
  PROVE  IInv'
<1>1. TypeOK'
  <2>1. CASE Register(p)
    <3>1. userSeq' = userSeq + 1 /\ usersByID' = Put(usersByID, userSeq', p) /\ UNCHANGED tokens
      BY <2>1 DEF Register
    <3>2. DOMAIN usersByID' \subseteq 1 .. userSeq' /\ Range(usersByID') \subseteq People
      <4>1. DOMAIN usersByID \subseteq 1 .. userSeq' /\ userSeq' \in 1 .. userSeq'
        BY <3>1 DEF IInv, TypeOK
      <4> QED
        BY <3>1, <4>1, PutRange DEF IInv, TypeOK
    <3> QED
      BY <3>1, <3>2 DEF IInv, TypeOK, wallet
  <2>2. CASE Login(p)
    BY <2>2 DEF Login, IInv, TypeOK, wallet
  <2> QED
    BY <2>1, <2>2
<1> QED
  BY <1>1 DEF IInv, Engaged, MapsAgree, Counted, Fresh, Ahead, Told, OneAddressPerKey, wallet

\* The first look answers from the maps, or sends the call for an index.
LEMMA LookUpInv ==
  ASSUME IInv, NEW c \in Calls, NEW token \in tokens, NEW asset \in Symbols,
         LookUp(c, token, asset)
  PROVE  IInv'
<1> DEFINE k == <<token[2], asset>>
<1>1. /\ pc[c] = "idle" /\ token[1] \in People /\ k \in Keys
      /\ UNCHANGED <<accounts, userAddr, addrUser, seq, index, runs>>
  BY DEF LookUp, IInv, TypeOK, Keys
<1>2. CASE k \in DOMAIN userAddr
  <2> DEFINE a == [by |-> token[1], key |-> k, addr |-> userAddr[k], run |-> runs]
  <2>1. answers' = Put(answers, c, a) /\ pc' = [pc EXCEPT ![c] = "done"] /\ UNCHANGED key
    BY <1>2 DEF LookUp, Answer
  <2>2. userAddr[k] \in Addresses /\ userAddr[k].index >= 1
    BY <1>2 DEF IInv, TypeOK, MapsAgree, Counted, Range, Addresses
  <2>3. a \in Answers /\ a.run = runs /\ a.addr = userAddr[k] /\ a.key = k
    BY <1>1, <2>2 DEF Answers, IInv, TypeOK
  <2>4. MapsAgree'
    BY <1>1 DEF IInv, MapsAgree
  <2> HIDE DEF a, k
  <2>5. /\ DOMAIN answers' \subseteq Calls /\ Range(answers') \subseteq Answers
        /\ Told' /\ OneAddressPerKey'
    BY <1>1, <1>2, <2>1, <2>2, <2>3, <2>4, AnswerInv
  <2>6. TypeOK'
    BY <1>1, <2>1, <2>5 DEF IInv, TypeOK, accounts, Answers
  <2>7. Engaged' /\ Counted' /\ Fresh' /\ Ahead'
    BY <1>1, <2>1 DEF IInv, TypeOK, Engaged, Counted, Fresh, Ahead
  <2> QED
    BY <2>4, <2>5, <2>6, <2>7 DEF IInv
<1>3. CASE k \notin DOMAIN userAddr
  <2>1. /\ key' = [key EXCEPT ![c] = <<token[1], k>>] /\ pc' = [pc EXCEPT ![c] = "index"]
        /\ UNCHANGED answers
    BY <1>3 DEF LookUp
  <2> HIDE DEF k
  <2>2. TypeOK'
    BY <1>1, <2>1 DEF IInv, TypeOK, accounts
  <2>3. Engaged' /\ Counted' /\ Fresh' /\ Ahead'
    BY <1>1, <2>1 DEF IInv, TypeOK, Engaged, Counted, Fresh, Ahead
  <2>4. MapsAgree' /\ Told' /\ OneAddressPerKey'
    BY <1>1, <2>1 DEF IInv, MapsAgree, Told, OneAddressPerKey
  <2> QED
    BY <2>2, <2>3, <2>4 DEF IInv
<1> QED
  BY <1>2, <1>3

\* The counter goes ahead of every index there is.
LEMMA AddSeqInv ==
  ASSUME IInv, NEW c \in Calls, AddSeq(c)
  PROVE  IInv'
<1> USE DEF AddSeq, IInv
<1>1. TypeOK'
  BY DEF TypeOK, accounts
<1>2. Engaged' /\ Fresh' /\ Counted'
  BY DEF TypeOK, Engaged, Fresh, Counted
<1>3. Ahead'
  BY DEF TypeOK, Ahead, Counted, Fresh, Unlocked
<1>4. MapsAgree' /\ Told' /\ OneAddressPerKey'
  BY DEF MapsAgree, Told, OneAddressPerKey
<1> QED
  BY <1>1, <1>2, <1>3, <1>4

\* What a call reads is fresh, because the counter was ahead.
LEMMA LoadSeqInv ==
  ASSUME IInv, NEW c \in Calls, LoadSeq(c)
  PROVE  IInv'
<1> USE DEF LoadSeq, IInv
<1>1. TypeOK'
  BY DEF TypeOK, accounts
<1>2. Engaged' /\ Counted'
  BY DEF TypeOK, Engaged, Counted
<1>3. Fresh'
  BY DEF TypeOK, Fresh, Ahead, Counted
<1>4. Ahead'
  BY DEF TypeOK, Ahead
<1>5. MapsAgree' /\ Told' /\ OneAddressPerKey'
  BY DEF MapsAgree, Told, OneAddressPerKey
<1> QED
  BY <1>1, <1>2, <1>3, <1>4, <1>5

\* Withdrawals only take the counter further.
LEMMA NumberInv == IInv /\ NumberWithdrawal => IInv'
<1> SUFFICES ASSUME IInv, NumberWithdrawal PROVE IInv'
  OBVIOUS
<1> USE DEF NumberWithdrawal, IInv
<1>1. TypeOK'
  BY DEF TypeOK, accounts
<1>2. Engaged' /\ Counted' /\ Fresh' /\ Ahead'
  BY DEF TypeOK, Engaged, Counted, Fresh, Ahead
<1>3. MapsAgree' /\ Told' /\ OneAddressPerKey'
  BY DEF MapsAgree, Told, OneAddressPerKey
<1> QED
  BY <1>1, <1>2, <1>3

\* The second look: an index that nobody else has becomes an address, unless
\* another call has been faster.
LEMMA StoreInv ==
  ASSUME IInv, NEW c \in Calls, Store(c)
  PROVE  IInv'
<1> DEFINE p == key[c][1]
           k == key[c][2]
           new == Derived(c)
<1>1. /\ pc[c] = "store" /\ UNCHANGED <<accounts, seq, runs>>
      /\ pc' = [pc EXCEPT ![c] = "done"] /\ key' = [key EXCEPT ![c] = Nobody]
      /\ index' = [index EXCEPT ![c] = 0]
      /\ \A d \in Calls : pc[d] # "load"
  BY DEF Store, Leave, Unlocked
<1>2. /\ p \in People /\ k \in Keys /\ k[2] \in Symbols /\ index[c] \in 1 .. seq
      /\ runs \in Nat
  BY <1>1 DEF IInv, TypeOK, Engaged, Fresh, Keys
<1>3. new \in Addresses /\ new.index = index[c]
  BY <1>2, DeriveType DEF Derived
<1>4. \A a \in DOMAIN addrUser : a # new
  BY <1>1, <1>3 DEF IInv, Fresh
<1>5. CASE k \in DOMAIN userAddr
  <2> DEFINE a == [by |-> p, key |-> k, addr |-> userAddr[k], run |-> runs]
  <2>1. answers' = Put(answers, c, a) /\ UNCHANGED <<userAddr, addrUser>>
    BY <1>5 DEF Store, Answer
  <2>2. userAddr[k] \in Addresses /\ userAddr[k].index >= 1
    BY <1>5 DEF IInv, TypeOK, MapsAgree, Counted, Range, Addresses
  <2>3. a \in Answers /\ a.run = runs /\ a.addr = userAddr[k] /\ a.key = k
    BY <1>2, <2>2 DEF Answers, IInv, TypeOK
  <2>4. MapsAgree'
    BY <2>1 DEF IInv, MapsAgree
  <2> HIDE DEF a, k, p, new
  <2>5. /\ DOMAIN answers' \subseteq Calls /\ Range(answers') \subseteq Answers
        /\ Told' /\ OneAddressPerKey'
    BY <1>1, <1>5, <2>1, <2>2, <2>3, <2>4, AnswerInv
  <2>6. TypeOK'
    BY <1>1, <2>1, <2>5 DEF IInv, TypeOK, accounts, Answers
  <2>7. Engaged' /\ Counted' /\ Fresh' /\ Ahead'
    BY <1>1, <2>1 DEF IInv, TypeOK, Engaged, Counted, Fresh, Ahead
  <2> QED
    BY <2>4, <2>5, <2>6, <2>7 DEF IInv
<1>6. CASE k \notin DOMAIN userAddr
  <2> DEFINE a == [by |-> p, key |-> k, addr |-> new, run |-> runs]
  <2>1. /\ answers' = Put(answers, c, a)
        /\ userAddr' = Put(userAddr, k, new) /\ addrUser' = Put(addrUser, new, k)
    BY <1>6 DEF Store, Answer
  <2>2. a \in Answers /\ a.run = runs /\ a.addr = new /\ a.key = k
    BY <1>2, <1>3 DEF Answers, IInv, TypeOK
  <2> HIDE DEF a, k, p, new
  <2>3. /\ DOMAIN userAddr' = DOMAIN userAddr \cup {k} /\ userAddr'[k] = new
        /\ \A j \in DOMAIN userAddr : userAddr'[j] = userAddr[j]
        /\ DOMAIN addrUser' = DOMAIN addrUser \cup {new} /\ addrUser'[new] = k
        /\ \A b \in DOMAIN addrUser : addrUser'[b] = addrUser[b]
    BY <1>4, <1>6, <2>1 DEF Put
  <2>4. MapsAgree'
    BY <2>3 DEF IInv, MapsAgree
  <2>5. /\ DOMAIN answers' \subseteq Calls /\ Range(answers') \subseteq Answers
        /\ Told' /\ OneAddressPerKey'
    BY <1>1, <1>2, <1>3, <2>1, <2>2, <2>3, <2>4, AnswerInv
  <2>6. /\ DOMAIN userAddr' \subseteq Keys /\ Range(userAddr') \subseteq Addresses
        /\ DOMAIN addrUser' \subseteq Addresses /\ Range(addrUser') \subseteq Keys
    <3>1. /\ DOMAIN userAddr \subseteq Keys /\ Range(userAddr) \subseteq Addresses
          /\ DOMAIN addrUser \subseteq Addresses /\ Range(addrUser) \subseteq Keys
      BY DEF IInv, TypeOK
    <3> QED
      BY <1>2, <1>3, <2>1, <3>1, PutRange
  <2>7. TypeOK'
    BY <1>1, <2>5, <2>6 DEF IInv, TypeOK, accounts, Answers
  <2>8. Engaged' /\ Ahead'
    BY <1>1 DEF IInv, TypeOK, Engaged, Ahead
  <2>9. Counted'
    BY <1>1, <1>2, <1>3, <2>3 DEF IInv, Counted
  <2>10. Fresh'
    BY <1>1, <1>3, <2>3 DEF IInv, TypeOK, Fresh
  <2> QED
    BY <2>4, <2>5, <2>7, <2>8, <2>9, <2>10 DEF IInv
<1> QED
  BY <1>5, <1>6

\* A restart forgets everything that answers of the new run will be told from.
LEMMA RestartInv == IInv /\ Restart => IInv'
<1> SUFFICES ASSUME IInv, Restart PROVE IInv'
  OBVIOUS
<1>1. /\ userAddr' = Empty /\ addrUser' = Empty /\ seq' = 0 /\ runs' = runs + 1
      /\ \A c \in Calls : pc'[c] \in {"idle", "done"}
      /\ UNCHANGED answers
  BY DEF Restart
<1>2. TypeOK'
  <2>1. usersByID' = Empty /\ userSeq' = 0 /\ UNCHANGED tokens
    BY DEF Restart, ForgetAccounts
  <2>2. /\ DOMAIN usersByID' \subseteq 1 .. userSeq' /\ Range(usersByID') \subseteq People
        /\ DOMAIN userAddr' \subseteq Keys /\ Range(userAddr') \subseteq Addresses
        /\ DOMAIN addrUser' \subseteq Addresses /\ Range(addrUser') \subseteq Keys
    BY <1>1, <2>1, EmptyFun
  <2>3. /\ key' \in [Calls -> (People \X Keys) \cup {Nobody}]
        /\ pc' \in [Calls -> {"idle", "index", "load", "store", "done"}]
        /\ index' \in [Calls -> Nat]
    BY DEF Restart
  <2>4. runs' \in 0 .. MaxRestarts
    BY AddressAssumption DEF Restart, IInv, TypeOK
  <2> QED
    BY <1>1, <2>1, <2>2, <2>3, <2>4 DEF IInv, TypeOK
<1>3. Engaged' /\ MapsAgree' /\ Counted' /\ Fresh' /\ Ahead'
  BY <1>1, EmptyFun DEF Engaged, MapsAgree, Counted, Fresh, Ahead
<1>4. Told'
  <2> SUFFICES ASSUME NEW c \in DOMAIN answers
               PROVE  answers[c].addr.index >= 1 /\ answers[c].run <= runs + 1
                      /\ answers[c].run # runs + 1
    BY <1>1 DEF Told
  <2>1. answers[c].run \in Nat /\ runs \in Nat
    BY DEF IInv, TypeOK, Range
  <2> QED
    BY <2>1 DEF IInv, Told
<1>5. OneAddressPerKey'
  BY <1>1 DEF IInv, OneAddressPerKey
<1> QED
  BY <1>2, <1>3, <1>4, <1>5 DEF IInv

\* Every step keeps the invariant.
LEMMA NextInv == IInv /\ [Next]_vars => IInv'
<1> SUFFICES ASSUME IInv, [Next]_vars PROVE IInv'
  OBVIOUS
<1>1. CASE UNCHANGED vars
  BY <1>1 DEF vars, accounts, wallet, IInv, TypeOK, Engaged, MapsAgree, Counted, Fresh,
              Ahead, Told, OneAddressPerKey
<1>2. CASE NumberWithdrawal \/ Restart
  BY <1>2, NumberInv, RestartInv
<1>3. ASSUME NEW p \in People, Register(p) \/ Login(p), UNCHANGED <<wallet, runs>>
      PROVE  IInv'
  BY <1>3, AccountsInv
<1>4. ASSUME NEW c \in Calls, Proceed(c) PROVE IInv'
  BY <1>4, AddSeqInv, LoadSeqInv, StoreInv DEF Proceed
<1>5. ASSUME NEW c \in Calls, NEW token \in tokens, NEW asset \in Symbols,
             LookUp(c, token, asset)
      PROVE  IInv'
  BY <1>5, LookUpInv
<1> QED
  BY <1>1, <1>2, <1>3, <1>4, <1>5 DEF Next

\* The invariant holds in every reachable state.
THEOREM Invariance == Spec => []IInv
  BY InitInv, NextInv, PTL DEF Spec

\* All variables keep their types; in particular every stored address is one
\* that DeriveAddress can give.
THEOREM TypeSafe == Spec => []TypeOK
<1>1. IInv => TypeOK
  BY DEF IInv
<1> QED
  BY <1>1, Invariance, PTL

\* GetDepositAddress gives one address for an account and asset, and none
\* twice, however many calls overlap and withdrawals take numbers meanwhile.
THEOREM OneAddressSafe == Spec => []OneAddressPerKey
<1>1. IInv => OneAddressPerKey
  BY DEF IInv
<1> QED
  BY <1>1, Invariance, PTL

\* MatchUser finds the account that an address was returned to, until the
\* program restarts, and nobody was returned the hot wallet's address.
THEOREM AddressLeadsBackSafe == Spec => []AddressLeadsBack
<1>1. IInv => AddressLeadsBack
  <2> SUFFICES ASSUME IInv, NEW c \in DOMAIN answers
               PROVE  /\ answers[c].addr # HotWallet(answers[c].key[2])
                      /\ answers[c].run = runs =>
                           /\ answers[c].addr \in DOMAIN addrUser
                           /\ addrUser[answers[c].addr] = answers[c].key
    BY DEF AddressLeadsBack
  <2>1. answers[c].addr # HotWallet(answers[c].key[2])
    BY DEF IInv, Told, HotWallet, Derive
  <2>2. answers[c].run = runs => /\ answers[c].addr \in DOMAIN addrUser
                                 /\ addrUser[answers[c].addr] = answers[c].key
    BY DEF IInv, Told, MapsAgree
  <2> QED
    BY <2>1, <2>2
<1> QED
  BY <1>1, Invariance, PTL
===============================================================================
