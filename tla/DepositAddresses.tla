--------------------------- MODULE DepositAddresses ---------------------------
(***************************************************************************)
(* How deposit addresses are given out (internal/wallet/service.go, hd.go) *)
(* to the accounts of internal/auth.  Requests run concurrently and look   *)
(* twice: once under the read lock, and again, under the write lock, when  *)
(* they have derived an address of a new index.  Withdrawals take numbers  *)
(* from the same counter without any lock.  Everything is kept in memory:  *)
(* a restart forgets accounts, addresses and counter, and goes on with the *)
(* mnemonic it is given, or with a new one.                                *)
(***************************************************************************)
EXTENDS Accounts

CONSTANTS
  Symbols,     \* assets: symbols that DeriveAddress knows
  Calls,       \* calls of GetDepositAddress, each made once
  Nobody,      \* the key of a call that is not under way
  MaxSeq,      \* bound: withdrawals are numbered while seq is smaller
  MaxRestarts, \* bound: restarts
  Saved        \* is the mnemonic kept over restarts?

ASSUME AddressAssumption ==
  /\ Symbols \subseteq {"ETH", "USDT_ERC20", "USDC", "BSC", "POLYGON", "BTC", "USDT_TRC20", "TRX"}
  /\ MaxSeq \in Nat /\ MaxRestarts \in Nat
  /\ Saved \in BOOLEAN

VARIABLES
  userAddr,   \* userAddr: <<account, asset>> -> address
  addrUser,   \* addrUser: address -> <<account, asset>>
  seq,        \* seq
  key,        \* call -> who makes it, and for which account and asset
  pc,         \* call -> "idle", "index", "load" (holding the lock), "store", "done"
  index,      \* call -> the index it derives its address from
  \* History.
  runs,       \* how often the program has been restarted
  answers     \* answered call -> who made it, in which run, and its address
wallet == <<userAddr, addrUser, seq, key, pc, index, answers>>
vars   == <<accounts, wallet, runs>>

\* The mnemonic of this run.
Mnemonic == IF Saved THEN 0 ELSE runs

CoinType(asset) ==
  CASE asset \in {"ETH", "USDT_ERC20", "USDC", "BSC", "POLYGON"} -> 60
    [] asset = "BTC" -> 0
    [] asset \in {"USDT_TRC20", "TRX"} -> 195

\* DeriveAddress: derivation gives different paths different addresses.
Derive(asset, i) == [mnemonic |-> Mnemonic, coin |-> CoinType(asset), index |-> i]

\* The hot wallet's address has the index 0.
HotWallet(asset) == Derive(asset, 0)

Init ==
  /\ AccountsInit
  /\ userAddr = Empty /\ addrUser = Empty
  /\ seq = 0
  /\ key = [c \in Calls |-> Nobody]
  /\ pc = [c \in Calls |-> "idle"]
  /\ index = [c \in Calls |-> 0]
  /\ runs = 0 /\ answers = Empty

\* Nobody is inside nextIndex, the only part that holds the lock over a step.
Unlocked == \A c \in Calls : pc[c] # "load"

\* Call c, made by p for k, returns addr.
Answer(c, p, k, addr) ==
  answers' = Put(answers, c, [by |-> p, key |-> k, addr |-> addr, run |-> runs])

\* The first look, for the account that the caller's token names.
LookUp(c, token, asset) ==
  /\ pc[c] = "idle" /\ Unlocked
  /\ Accepted(token)
  /\ LET k == <<token[2], asset>> IN
     \/ /\ k \in DOMAIN userAddr
        /\ Answer(c, token[1], k, userAddr[k])
        /\ pc' = [pc EXCEPT ![c] = "done"]
        /\ UNCHANGED key
     \/ /\ k \notin DOMAIN userAddr
        /\ key' = [key EXCEPT ![c] = <<token[1], k>>]
        /\ pc' = [pc EXCEPT ![c] = "index"]
        /\ UNCHANGED answers
  /\ UNCHANGED <<accounts, userAddr, addrUser, seq, index, runs>>

\* Faulty variant: nextIndex does not wait for the lock.
AddSeqUnlocked(c) ==
  /\ pc[c] = "index"
  /\ seq' = seq + 1
  /\ pc' = [pc EXCEPT ![c] = "load"]
  /\ UNCHANGED <<accounts, userAddr, addrUser, key, index, runs, answers>>

\* nextIndex: the counter is advanced, then read.
AddSeq(c) ==
  /\ pc[c] = "index" /\ Unlocked
  /\ seq' = seq + 1
  /\ pc' = [pc EXCEPT ![c] = "load"]
  /\ UNCHANGED <<accounts, userAddr, addrUser, key, index, runs, answers>>

LoadSeq(c) ==
  /\ pc[c] = "load"
  /\ index' = [index EXCEPT ![c] = seq]
  /\ pc' = [pc EXCEPT ![c] = "store"]
  /\ UNCHANGED <<accounts, userAddr, addrUser, seq, key, runs, answers>>

\* SubmitWithdrawal numbers a withdrawal.
NumberWithdrawal ==
  /\ seq < MaxSeq
  /\ seq' = seq + 1
  /\ UNCHANGED <<accounts, userAddr, addrUser, key, pc, index, runs, answers>>

\* Call c returns, and its variables are gone.
Leave(c) ==
  /\ pc' = [pc EXCEPT ![c] = "done"]
  /\ key' = [key EXCEPT ![c] = Nobody]
  /\ index' = [index EXCEPT ![c] = 0]

\* The address that call c has derived.
Derived(c) == Derive(key[c][2][2], index[c])

\* Faulty variant: there is no second look.
StoreBlindly(c) ==
  /\ pc[c] = "store" /\ Unlocked
  /\ userAddr' = Put(userAddr, key[c][2], Derived(c))
  /\ addrUser' = Put(addrUser, Derived(c), key[c][2])
  /\ Answer(c, key[c][1], key[c][2], Derived(c))
  /\ Leave(c)
  /\ UNCHANGED <<accounts, seq, runs>>

\* The second look: who comes late drops its own address.
Store(c) ==
  /\ pc[c] = "store" /\ Unlocked
  /\ LET k == key[c][2] IN
     \/ /\ k \in DOMAIN userAddr
        /\ Answer(c, key[c][1], k, userAddr[k])
        /\ UNCHANGED <<userAddr, addrUser>>
     \/ /\ k \notin DOMAIN userAddr
        /\ userAddr' = Put(userAddr, k, Derived(c))
        /\ addrUser' = Put(addrUser, Derived(c), k)
        /\ Answer(c, key[c][1], k, Derived(c))
  /\ Leave(c)
  /\ UNCHANGED <<accounts, seq, runs>>

\* The program stops, with the calls that are under way, and starts again.
Restart ==
  /\ runs < MaxRestarts
  /\ runs' = runs + 1
  /\ ForgetAccounts
  /\ userAddr' = Empty /\ addrUser' = Empty
  /\ seq' = 0
  /\ pc' = [c \in Calls |-> IF pc[c] = "idle" THEN "idle" ELSE "done"]
  /\ key' = [c \in Calls |-> Nobody] /\ index' = [c \in Calls |-> 0]
  /\ UNCHANGED answers

Proceed(c) == AddSeq(c) \/ LoadSeq(c) \/ Store(c)

Next ==
  \/ NumberWithdrawal \/ Restart
  \/ \E p \in People : (Register(p) \/ Login(p)) /\ UNCHANGED <<wallet, runs>>
  \/ \E c \in Calls :
       Proceed(c) \/ \E token \in tokens, asset \in Symbols : LookUp(c, token, asset)

Spec == Init /\ [][Next]_vars

------------------------------------------------------------------------------
(***************************************************************************)
(* Properties                                                              *)
(***************************************************************************)

Addresses == [mnemonic: Nat, coin: Nat, index: Nat]
Keys == Nat \X Symbols

TypeOK ==
  /\ DOMAIN usersByID \subseteq 1 .. userSeq /\ Range(usersByID) \subseteq People
  /\ userSeq \in Nat /\ tokens \subseteq People \X Nat
  /\ DOMAIN userAddr \subseteq Keys /\ Range(userAddr) \subseteq Addresses
  /\ DOMAIN addrUser \subseteq Addresses /\ Range(addrUser) \subseteq Keys
  /\ seq \in Nat
  /\ key \in [Calls -> (People \X Keys) \cup {Nobody}]
  /\ pc \in [Calls -> {"idle", "index", "load", "store", "done"}]
  /\ index \in [Calls -> Nat]
  /\ runs \in 0 .. MaxRestarts
  /\ DOMAIN answers \subseteq Calls
  /\ Range(answers) \subseteq [by: People, key: Keys, addr: Addresses, run: 0 .. MaxRestarts]

\* All calls for one account and asset return one address, however they overlap,
\* and calls for different ones different addresses, until the program restarts.
OneAddressPerKey ==
  \A c, d \in DOMAIN answers :
    answers[c].run = answers[d].run =>
      (answers[c].key = answers[d].key <=> answers[c].addr = answers[d].addr)

\* A deposit to a returned address is matched, until the program restarts, to
\* the account and asset it was returned for, and the hot wallet's address is
\* returned to nobody.
AddressLeadsBack ==
  \A c \in DOMAIN answers : LET a == answers[c] IN
    /\ a.addr # HotWallet(a.key[2])
    /\ a.run = runs => a.addr \in DOMAIN addrUser /\ addrUser[a.addr] = a.key

------------------------------------------------------------------------------
(***************************************************************************)
(* Statements of the repository that the code does not keep (see README).  *)
(***************************************************************************)

\* One user gets the same address for an asset, always.
SameAddressForGood ==
  \A c, d \in DOMAIN answers :
    answers[c].by = answers[d].by /\ answers[c].key[2] = answers[d].key[2]
      => answers[c].addr = answers[d].addr

\* With the mnemonic saved for restarts, an address still is one person's.
AddressUnshared ==
  \A c, d \in DOMAIN answers :
    answers[c].addr = answers[d].addr => answers[c].by = answers[d].by

\* A token is accepted for the account of the person it was issued to.
TokenNamesHolder ==
  \A token \in tokens : Accepted(token) => usersByID[token[2]] = token[1]
===============================================================================
