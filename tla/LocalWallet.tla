----------------------------- MODULE LocalWallet -----------------------------
(***************************************************************************)
(* localwallet.LocalWallet over the state store, with the node start-up    *)
(* that creates a default key (node.NewLocalWallet) and concurrent CLI     *)
(* requests (ant wallet new | import | setdefault | delete), each served   *)
(* on a goroutine of its own by the daemon's API.                          *)
(*                                                                         *)
(* A key is identified with its Ethereum address, so /wallet/list/<addr>   *)
(* is the set list of keys and /wallet/default holds a key or NoKey.  Each *)
(* datastore Get or Put is atomic and a step of its own; a wallet          *)
(* operation is a sequence of them with no lock around it.  The node may   *)
(* crash between any two steps: the datastore survives, the requests in    *)
(* progress are lost, and start-up runs again.                             *)
(*                                                                         *)
(* The signer (crypto.walletSigner) holds no key: every call re-reads      *)
(* /wallet/default.  Start-up reads it once more to fix the chain's        *)
(* address (node.NewChain), after node.NewLocalWallet.                     *)
(***************************************************************************)
EXTENDS Naturals, FiniteSets

CONSTANTS
    Keys,        \* secp256k1 keys (with their addresses)
    Callers,     \* concurrent CLI requests
    Boot,        \* the start-up goroutine running node.NewLocalWallet
    MaxCrashes,  \* bound on node crashes
    NoKey        \* /wallet/default is absent (datastore.ErrNotFound)

ASSUME /\ Boot \notin Callers
       /\ NoKey \notin Keys
       /\ MaxCrashes \in Nat

Procs == Callers \cup {Boot}

VARIABLES
    list,      \* keys stored under /wallet/list/
    default,   \* the key stored under /wallet/default, or NoKey
    pc,        \* pc[p]: the step process p is at
    arg,       \* arg[p]: the key p is saving, setting or deleting
    crashes,   \* node crashes so far
    signFailed \* ghost: a signer call found no default key

vars == <<list, default, pc, arg, crashes, signFailed>>

SaveSteps == {"saveGetDef", "savePutDef"}
BootSteps == {"start", "chain", "up"} \cup SaveSteps
CallerSteps == {"idle", "setPut", "delDo"} \cup SaveSteps

TypeOK ==
    /\ list \subseteq Keys
    /\ default \in Keys \cup {NoKey}
    /\ pc[Boot] \in BootSteps
    /\ pc \in [Procs -> BootSteps \cup CallerSteps]
    /\ \A c \in Callers : pc[c] \in CallerSteps
    /\ arg \in [Procs -> Keys]
    /\ crashes \in 0..MaxCrashes
    /\ signFailed \in BOOLEAN

\* The step a process returns to when its operation ends.
Done(p) == IF p = Boot THEN "chain" ELSE "idle"

\* The API serves requests only once the node is constructed.
Serving(c) == pc[Boot] = "up" /\ pc[c] = "idle"

Init ==
    /\ list = {}
    /\ default = NoKey
    /\ pc = [p \in Procs |-> IF p = Boot THEN "start" ELSE "idle"]
    /\ arg = [p \in Procs |-> CHOOSE k \in Keys : TRUE]
    /\ crashes = 0
    /\ signFailed = FALSE

-----------------------------------------------------------------------------
\* GetDefaultAddress: Get /wallet/default and decode the key; NoKey is the
\* datastore's ErrNotFound.
GetDefaultAddress == default

(* savePrivateKey(k): Put /wallet/list/<addr>, then GetDefaultAddress, and *)
(* only when that fails Put /wallet/default.  It starts with list' below.  *)
SaveList(p, k) ==
    /\ list' = list \cup {k}
    /\ arg' = [arg EXCEPT ![p] = k]
    /\ pc' = [pc EXCEPT ![p] = "saveGetDef"]

\* if _, err := w.GetDefaultAddress(); err != nil { ... }
SaveGetDef(p) ==
    /\ pc[p] = "saveGetDef"
    /\ pc' = [pc EXCEPT ![p] = IF GetDefaultAddress = NoKey THEN "savePutDef" ELSE Done(p)]
    /\ UNCHANGED <<list, default, arg, crashes, signFailed>>

\* Bug variant: every save returns as a CLI request does.
SavePutDefIdle(p) ==
    /\ pc[p] = "savePutDef"
    /\ default' = arg[p]
    /\ pc' = [pc EXCEPT ![p] = "idle"]
    /\ UNCHANGED <<list, arg, crashes, signFailed>>

\* w.store.Put(defaultAddressKey, EncodePrivateKey(privateKey))
SavePutDef(p) ==
    /\ pc[p] = "savePutDef"
    /\ default' = arg[p]
    /\ pc' = [pc EXCEPT ![p] = Done(p)]
    /\ UNCHANGED <<list, arg, crashes, signFailed>>

-----------------------------------------------------------------------------
\* Bug variant: start-up treats a wallet with any listed key as set up.
BootStartAnyKey ==
    /\ pc[Boot] = "start"
    /\ \/ /\ list # {}
          /\ pc' = [pc EXCEPT ![Boot] = "chain"]
          /\ UNCHANGED <<list, arg>>
       \/ /\ list = {}
          /\ \E k \in Keys \ list : SaveList(Boot, k)
    /\ UNCHANGED <<default, crashes, signFailed>>

(* node.NewLocalWallet: GetDefaultAddress; on ErrNotFound, NewAddress.     *)
BootStart ==
    /\ pc[Boot] = "start"
    /\ \/ /\ GetDefaultAddress # NoKey
          /\ pc' = [pc EXCEPT ![Boot] = "chain"]
          /\ UNCHANGED <<list, arg>>
       \/ /\ GetDefaultAddress = NoKey
          /\ \E k \in Keys \ list : SaveList(Boot, k)
    /\ UNCHANGED <<default, crashes, signFailed>>

(* node.NewChain: the chain's address from signer.EthereumAddress(), which *)
(* re-reads /wallet/default; an ErrNotFound there fails start-up.          *)
BootChain ==
    /\ pc[Boot] = "chain"
    /\ signFailed' = (signFailed \/ GetDefaultAddress = NoKey)
    /\ pc' = [pc EXCEPT ![Boot] = "up"]
    /\ UNCHANGED <<list, default, arg, crashes>>

(* A call of the running node's signer (SignTx for a cashout, Sign,       *)
(* SignTypedData, PublicKey, EthereumAddress): walletSigner.signer() does  *)
(* GetDefaultAddress and wraps the key; ErrNotFound is returned to the     *)
(* caller.                                                                 *)
SignerCall ==
    /\ pc[Boot] = "up"
    /\ signFailed' = (signFailed \/ GetDefaultAddress = NoKey)
    /\ UNCHANGED <<list, default, pc, arg, crashes>>

\* NewAddress: GenerateSecp256k1Key (a key not in the wallet), save it.
NewAddress(c) ==
    /\ Serving(c)
    /\ \E k \in Keys \ list : SaveList(c, k)
    /\ UNCHANGED <<default, crashes, signFailed>>

\* Import(hex): a hex string that decodes to k (one that does not is an
\* error before any datastore access), save it; k may already be listed.
Import(c) ==
    /\ Serving(c)
    /\ \E k \in Keys : SaveList(c, k)
    /\ UNCHANGED <<default, crashes, signFailed>>

(* SetDefaultAddress(a): w.Get(a) reads /wallet/list/<a>; a missing key   *)
(* returns ErrNotFound.                                                    *)
SetDefaultGet(c) ==
    /\ Serving(c)
    /\ \E k \in list :
         /\ arg' = [arg EXCEPT ![c] = k]
         /\ pc' = [pc EXCEPT ![c] = "setPut"]
    /\ UNCHANGED <<list, default, crashes, signFailed>>

\* ... then Put the key read under /wallet/default; return nil.
SetDefaultPut(c) ==
    /\ pc[c] = "setPut"
    /\ default' = arg[c]
    /\ pc' = [pc EXCEPT ![c] = "idle"]
    /\ UNCHANGED <<list, arg, crashes, signFailed>>

(* Delete(a): GetDefaultAddress (its error is returned); the default's    *)
(* address equal to a is "cannot delete default address"; otherwise go on *)
(* to delete.  a need not be listed: deleting a missing key succeeds.     *)
DeleteCheck(c) ==
    /\ Serving(c)
    /\ GetDefaultAddress # NoKey
    /\ \E k \in Keys \ {GetDefaultAddress} :
         /\ arg' = [arg EXCEPT ![c] = k]
         /\ pc' = [pc EXCEPT ![c] = "delDo"]
    /\ UNCHANGED <<list, default, crashes, signFailed>>

\* w.store.Delete(walletKey(addr))
DeleteDo(c) ==
    /\ pc[c] = "delDo"
    /\ list' = list \ {arg[c]}
    /\ pc' = [pc EXCEPT ![c] = "idle"]
    /\ UNCHANGED <<default, arg, crashes, signFailed>>

\* The node crashes: requests in progress are lost, start-up runs again.
Crash ==
    /\ crashes < MaxCrashes
    /\ crashes' = crashes + 1
    /\ pc' = [p \in Procs |-> IF p = Boot THEN "start" ELSE "idle"]
    /\ UNCHANGED <<list, default, arg, signFailed>>

Next ==
    \/ BootStart \/ BootChain \/ SignerCall \/ Crash
    \/ \E p \in Procs : SaveGetDef(p) \/ SavePutDef(p)
    \/ \E c \in Callers :
          \/ NewAddress(c) \/ Import(c) \/ SetDefaultGet(c) \/ SetDefaultPut(c)
          \/ DeleteCheck(c) \/ DeleteDo(c)

Spec == Init /\ [][Next]_vars

-----------------------------------------------------------------------------
(* Properties                                                              *)

(* The spec (section 2, WalletRecord): the default key, if set, is a      *)
(* listed record, so `wallet ls` marks one of the listed accounts and     *)
(* `wallet export` of the default address succeeds.  Delete's guard       *)
(* against deleting the default is meant to keep this.                    *)
DefaultListed == default # NoKey => default \in list

(* The spec (sections 4.3 and 8): the signer always has a key to sign      *)
(* with once the node is up.  No signer call, nor the chain's              *)
(* EthereumAddress at start-up, ever finds /wallet/default missing, even   *)
(* when the node crashed between savePrivateKey's Put of the listed key    *)
(* and its Put of the default, and start-up ran again over that state.     *)
SignerAvailable == ~signFailed

=============================================================================
