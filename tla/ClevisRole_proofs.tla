------------------------- MODULE ClevisRole_proofs -------------------------
(***************************************************************************)
(* Proofs about ClevisRole: no run loses the last keyslot, a binding is    *)
(* only retired behind a proven one, the fallback key outlives its keyslot *)
(* as long as the key tests can be trusted, and a run that ends well has   *)
(* repaired what it found.                                                 *)
(***************************************************************************)
EXTENDS ClevisRole, TLAPS, FiniteSetTheorems, WellFoundedInduction

-----------------------------------------------------------------------------
(* The inductive invariant. *)

\* What the registered slots are while they are worked on.
Registered ==
    /\ match \cup stale # {} => WantsTang
    /\ pc = "idle" => match = {}
    /\ pc \notin {"test", "retire"} => stale = {}
    /\ pc # "untang" => doomed = {}
    /\ pc \in {"list", "reach", "bind", "verify"} => WantsTang
    /\ pc = "untang" => ~WantsTang
    /\ pc \in {"test", "retire"} => match # {} /\ stale # {}
    /\ \A n \in match : Wanted(slot[n])
    /\ \A n \in stale : ~Wanted(slot[n])
    /\ pc = "retire" => proven \cap match # {}

\* A slot is left when the next one is removed.
Spare ==
    /\ Used # {}
    /\ pc = "remove" /\ enrolled => \E m, n \in Used : m # n
    /\ pc = "untang" => \E n \in Used : n \notin doomed

\* The key that is added or removed is there.
HasKey ==
    /\ pc \in {"enrolled", "enrol"} => keyfile # Absent
    /\ pc \in {"count", "remove"} /\ enrolled => keyfile # Absent

SlotInv == TypeOK /\ Registered /\ Spare /\ HasKey

\* The fallback key and its keyslot, as long as the tests do not fail by
\* themselves.
KeyInv ==
    /\ glitch = 0
    /\ FallbackKeyKept
    /\ \A m, n \in Slots : slot[m] \in Keys /\ slot[n] = slot[m] => m = n
    /\ pc \in {"enrol", "count", "remove"} => enrolled = Fits
    /\ pc \in {"dropboot", "dropfiles", "filesrebuild", "shred"} => ~Fits

-----------------------------------------------------------------------------
(* Slots. *)

\* The slot a loop works on is one of those it has left.
LEMMA FirstIn ==
    ASSUME NEW S \in SUBSET Slots, S # {}
    PROVE  First(S) \in S
<1> DEFINE Less == {ss \in Nat \X Nat : ss[1] < ss[2]}
<1>1. IsWellFoundedOn(Less, Nat)
  BY NatLessThanWellFounded, Zenon DEF OpToRel
<1>2. S \subseteq Nat
  BY HeaderAssumption
<1>3. PICK x \in S : \A y \in S : ~(<<y, x>> \in Less)
  <2> HIDE DEF Less
  <2> QED BY <1>1, <1>2, WFMin
<1>4. \A y \in S : x \in Nat /\ y \in Nat /\ ~(y < x)
  BY <1>2, <1>3
<1>5. \A y \in S : x <= y
  BY <1>4
<1> QED BY <1>5 DEF First

\* Two keyslots are in use when more than one is counted.
LEMMA TwoUsed ==
    ASSUME ~Last, Used # {}
    PROVE  \E m, n \in Used : m # n
<1>1. IsFiniteSet(Used)
  BY HeaderAssumption, FS_Subset DEF Used
<1>2. PICK n : n \in Used
  OBVIOUS
<1>3. CASE Used = {n}
  BY <1>1, <1>3, FS_Singleton DEF Last
<1>4. CASE Used # {n}
  BY <1>2, <1>4
<1> QED BY <1>3, <1>4

\* A keyslot outside S is in use when more are counted than S has.
LEMMA OneSpare ==
    ASSUME NEW S \in SUBSET Slots, Survivor(S)
    PROVE  \E n \in Used : n \notin S
<1>1. SUFFICES ASSUME Used \subseteq S PROVE FALSE
  OBVIOUS
<1>2. IsFiniteSet(S) /\ IsFiniteSet(Used)
  BY HeaderAssumption, FS_Subset DEF Used
<1>3. Cardinality(Used) <= Cardinality(S)
  BY <1>1, <1>2, FS_Subset
<1> QED BY <1>2, <1>3, FS_CardinalityType DEF Survivor

-----------------------------------------------------------------------------
(* SlotInv is inductive. *)

\* What an initrd build puts into it.
LEMMA BuildType == ASSUME NEW e \in Etc PROVE Build(e) \in Initrd
BY DEF Etc, Initrd, Build

LEMMA SlotInit == Init => SlotInv
<1> SUFFICES ASSUME Init PROVE SlotInv
  OBVIOUS
<1> USE DEF Init
<1>h. PICK h \in Hosts :
         /\ slot = h.header
         /\ etc = [net |-> FALSE, mod |-> FALSE, conf |-> "none",
                   dracut |-> h.dracut]
  OBVIOUS
<1>a. slot \in [Slots -> Content \cup {Free}]
  BY <1>h, RoleAssumption
<1>b. etc \in Etc
  BY <1>h, RoleAssumption DEF Etc
<1>c. initrd \in Initrd
  BY <1>b, BuildType
<1>1. HeaderTypeOK
  BY <1>a, <1>b, <1>c, RoleAssumption DEF HeaderTypeOK
<1>d. glitch \in 0 .. Glitches
  BY RoleAssumption
<1>2. TangTypeOK /\ KeyTypeOK /\ pc \in Tasks \cup {"idle"}
  BY <1>d, RoleAssumption DEF FactsInit, TangTypeOK, KeyTypeOK
<1>3. Used # {}
  BY <1>h, RoleAssumption DEF Used
<1> QED
  BY <1>1, <1>2, <1>3 DEF SlotInv, TypeOK, Registered, Spare, HasKey, Init,
     FactsInit

\* A binding is neither a key nor free.
LEMMA Kinds ==
    /\ Free \notin Binding /\ Free \notin Keys
    /\ Free # Pass /\ Free # Orphan
    /\ \A k \in Keys : k \notin Binding
    /\ Pass \notin Binding /\ Orphan \notin Binding
    /\ Pass \notin Keys /\ Orphan \notin Keys
BY HeaderAssumption DEF Content

LEMMA ListBindingsStep == SlotInv /\ ListBindings /\ UNCHANGED keyVars => SlotInv'
<1> SUFFICES ASSUME SlotInv, ListBindings, UNCHANGED keyVars PROVE SlotInv'
  OBVIOUS
<1> USE DEF ListBindings, hostVars, tangVars, keyVars
<1>1. HeaderTypeOK'
  BY Kinds, BuildType DEF SlotInv, TypeOK, HeaderTypeOK
<1>2. TangTypeOK' /\ KeyTypeOK' /\ pc' \in Tasks \cup {"idle"}
  BY Kinds DEF SlotInv, TypeOK, TangTypeOK, KeyTypeOK, Clevis, Tasks, Registered, HeaderTypeOK
<1>3. Registered'
  BY Kinds DEF SlotInv, TypeOK, TangTypeOK, Registered, WantsTang, Wanted, Clevis
<1>4. Spare'
  BY Kinds DEF SlotInv, TypeOK, TangTypeOK, HeaderTypeOK, Spare, Used
<1>5. HasKey'
  BY HeaderAssumption DEF SlotInv, HasKey
<1> QED BY <1>1, <1>2, <1>3, <1>4, <1>5 DEF SlotInv, TypeOK

LEMMA CheckServersStep == SlotInv /\ CheckServers /\ UNCHANGED keyVars => SlotInv'
<1> SUFFICES ASSUME SlotInv, CheckServers, UNCHANGED keyVars PROVE SlotInv'
  OBVIOUS
<1> USE DEF CheckServers, hostVars, tangVars, keyVars
<1>1. HeaderTypeOK'
  BY Kinds, BuildType DEF SlotInv, TypeOK, HeaderTypeOK
<1>2. TangTypeOK' /\ KeyTypeOK' /\ pc' \in Tasks \cup {"idle"}
  BY Kinds DEF SlotInv, TypeOK, TangTypeOK, KeyTypeOK, Clevis, Tasks, Registered, HeaderTypeOK
<1>3. Registered'
  BY Kinds DEF SlotInv, TypeOK, TangTypeOK, Registered, WantsTang, Wanted, Clevis
<1>4. Spare'
  BY Kinds DEF SlotInv, TypeOK, TangTypeOK, HeaderTypeOK, Spare, Used
<1>5. HasKey'
  BY HeaderAssumption DEF SlotInv, HasKey
<1> QED BY <1>1, <1>2, <1>3, <1>4, <1>5 DEF SlotInv, TypeOK

LEMMA BindStep == SlotInv /\ Bind /\ UNCHANGED keyVars => SlotInv'
<1> SUFFICES ASSUME SlotInv, Bind, UNCHANGED keyVars PROVE SlotInv'
  OBVIOUS
<1> USE DEF Bind, hostVars, tangVars, keyVars, Put, Used
<1>0. NewBinding \in Binding
  BY DEF SlotInv, TypeOK, TangTypeOK, Want, NewBinding, Binding
<1>1. HeaderTypeOK'
  BY <1>0, Kinds, BuildType DEF SlotInv, TypeOK, HeaderTypeOK, Content
<1>2. TangTypeOK' /\ KeyTypeOK' /\ pc' \in Tasks \cup {"idle"}
  BY <1>0, Kinds DEF SlotInv, TypeOK, TangTypeOK, KeyTypeOK, Clevis, Tasks, Registered, HeaderTypeOK
<1>3. Registered'
  BY <1>0, Kinds DEF SlotInv, TypeOK, TangTypeOK, Registered, WantsTang, Wanted, Clevis
<1>4. Spare'
  BY <1>0, Kinds DEF SlotInv, TypeOK, TangTypeOK, HeaderTypeOK, Spare, Used
<1>5. HasKey'
  BY <1>0, HeaderAssumption DEF SlotInv, HasKey
<1> QED BY <1>1, <1>2, <1>3, <1>4, <1>5 DEF SlotInv, TypeOK

LEMMA BindHalfStep == SlotInv /\ BindHalf /\ UNCHANGED keyVars => SlotInv'
<1> SUFFICES ASSUME SlotInv, BindHalf, UNCHANGED keyVars PROVE SlotInv'
  OBVIOUS
<1> USE DEF BindHalf, hostVars, tangVars, keyVars, Put, Used, Content
<1>1. HeaderTypeOK'
  BY Kinds, BuildType DEF SlotInv, TypeOK, HeaderTypeOK
<1>2. TangTypeOK' /\ KeyTypeOK' /\ pc' \in Tasks \cup {"idle"}
  BY Kinds DEF SlotInv, TypeOK, TangTypeOK, KeyTypeOK, Clevis, Tasks, Registered, HeaderTypeOK
<1>3. Registered'
  BY Kinds DEF SlotInv, TypeOK, TangTypeOK, Registered, WantsTang, Wanted, Clevis
<1>4. Spare'
  BY Kinds DEF SlotInv, TypeOK, TangTypeOK, HeaderTypeOK, Spare, Used
<1>5. HasKey'
  BY HeaderAssumption DEF SlotInv, HasKey
<1> QED BY <1>1, <1>2, <1>3, <1>4, <1>5 DEF SlotInv, TypeOK

LEMMA VerifyStep == SlotInv /\ Verify /\ UNCHANGED keyVars => SlotInv'
<1> SUFFICES ASSUME SlotInv, Verify, UNCHANGED keyVars PROVE SlotInv'
  OBVIOUS
<1> USE DEF Verify, hostVars, tangVars, keyVars, Matching, Stale
<1>1. HeaderTypeOK'
  BY Kinds, BuildType DEF SlotInv, TypeOK, HeaderTypeOK
<1>2. TangTypeOK' /\ KeyTypeOK' /\ pc' \in Tasks \cup {"idle"}
  BY Kinds DEF SlotInv, TypeOK, TangTypeOK, KeyTypeOK, Clevis, Tasks, Registered, HeaderTypeOK
<1>3. Registered'
  BY Kinds DEF SlotInv, TypeOK, TangTypeOK, Registered, WantsTang, Wanted, Clevis
<1>4. Spare'
  BY Kinds DEF SlotInv, TypeOK, TangTypeOK, HeaderTypeOK, Spare, Used
<1>5. HasKey'
  BY HeaderAssumption DEF SlotInv, HasKey
<1> QED BY <1>1, <1>2, <1>3, <1>4, <1>5 DEF SlotInv, TypeOK

LEMMA TestUnlockStep == SlotInv /\ TestUnlock /\ UNCHANGED keyVars => SlotInv'
<1> SUFFICES ASSUME SlotInv, TestUnlock, UNCHANGED keyVars PROVE SlotInv'
  OBVIOUS
<1> USE DEF TestUnlock, hostVars, tangVars, keyVars
<1>0. Tested \in match /\ Tested \in Slots
  BY FirstIn DEF SlotInv, TypeOK, TangTypeOK, Registered, Clevis, Tested
<1>1. HeaderTypeOK'
  BY <1>0, Kinds, BuildType DEF SlotInv, TypeOK, HeaderTypeOK
<1>2. TangTypeOK' /\ KeyTypeOK' /\ pc' \in Tasks \cup {"idle"}
  BY <1>0, Kinds DEF SlotInv, TypeOK, TangTypeOK, KeyTypeOK, Clevis, Tasks, Registered, HeaderTypeOK
<1>3. Registered'
  BY <1>0, Kinds DEF SlotInv, TypeOK, TangTypeOK, Registered, WantsTang, Wanted, Clevis
<1>4. Spare'
  BY <1>0, Kinds DEF SlotInv, TypeOK, TangTypeOK, HeaderTypeOK, Spare, Used
<1>5. HasKey'
  BY <1>0, HeaderAssumption DEF SlotInv, HasKey
<1> QED BY <1>1, <1>2, <1>3, <1>4, <1>5 DEF SlotInv, TypeOK

LEMMA RetireStep == SlotInv /\ Retire /\ UNCHANGED keyVars => SlotInv'
<1> SUFFICES ASSUME SlotInv, Retire, UNCHANGED keyVars PROVE SlotInv'
  OBVIOUS
<1> USE DEF Retire, hostVars, tangVars, keyVars, Unbind, Put, Rest
<1>0. First(stale) \in stale /\ First(stale) \in Slots /\ First(stale) \notin match
  BY FirstIn DEF SlotInv, TypeOK, TangTypeOK, Registered, Clevis
<1>1. HeaderTypeOK'
  BY <1>0, Kinds, BuildType DEF SlotInv, TypeOK, HeaderTypeOK
<1>2. TangTypeOK' /\ KeyTypeOK' /\ pc' \in Tasks \cup {"idle"}
  BY <1>0, Kinds DEF SlotInv, TypeOK, TangTypeOK, KeyTypeOK, Clevis, Tasks, Registered, HeaderTypeOK
<1>3. Registered'
  BY <1>0, Kinds DEF SlotInv, TypeOK, TangTypeOK, Registered, WantsTang, Wanted, Clevis
<1>4. Spare'
  <2>1. PICK n \in match : n # First(stale)
    BY <1>0 DEF SlotInv, Registered
  <2>2. n \in Used'
    BY <1>0, <2>1, Kinds DEF SlotInv, TypeOK, TangTypeOK, HeaderTypeOK, Clevis, Used
  <2> QED BY <2>2 DEF SlotInv, Spare
<1>5. HasKey'
  BY <1>0, HeaderAssumption DEF SlotInv, HasKey
<1> QED BY <1>1, <1>2, <1>3, <1>4, <1>5 DEF SlotInv, TypeOK

LEMMA DeployNetStep == SlotInv /\ DeployNet /\ UNCHANGED keyVars => SlotInv'
<1> SUFFICES ASSUME SlotInv, DeployNet, UNCHANGED keyVars PROVE SlotInv'
  OBVIOUS
<1> USE DEF DeployNet, hostVars, tangVars, keyVars
<1>1. HeaderTypeOK'
  BY Kinds, BuildType DEF SlotInv, TypeOK, HeaderTypeOK, Etc
<1>2. TangTypeOK' /\ KeyTypeOK' /\ pc' \in Tasks \cup {"idle"}
  BY Kinds DEF SlotInv, TypeOK, TangTypeOK, KeyTypeOK, Clevis, Tasks, Registered, HeaderTypeOK
<1>3. Registered'
  BY Kinds DEF SlotInv, TypeOK, TangTypeOK, Registered, WantsTang, Wanted, Clevis
<1>4. Spare'
  BY Kinds DEF SlotInv, TypeOK, TangTypeOK, HeaderTypeOK, Spare, Used
<1>5. HasKey'
  BY HeaderAssumption DEF SlotInv, HasKey
<1> QED BY <1>1, <1>2, <1>3, <1>4, <1>5 DEF SlotInv, TypeOK

LEMMA RebuildStep == SlotInv /\ Rebuild /\ UNCHANGED keyVars => SlotInv'
<1> SUFFICES ASSUME SlotInv, Rebuild, UNCHANGED keyVars PROVE SlotInv'
  OBVIOUS
<1> USE DEF Rebuild, hostVars, tangVars, keyVars
<1>1. HeaderTypeOK'
  BY Kinds, BuildType DEF SlotInv, TypeOK, HeaderTypeOK
<1>2. TangTypeOK' /\ KeyTypeOK' /\ pc' \in Tasks \cup {"idle"}
  BY Kinds DEF SlotInv, TypeOK, TangTypeOK, KeyTypeOK, Clevis, Tasks, Registered, HeaderTypeOK
<1>3. Registered'
  BY Kinds DEF SlotInv, TypeOK, TangTypeOK, Registered, WantsTang, Wanted, Clevis
<1>4. Spare'
  BY Kinds DEF SlotInv, TypeOK, TangTypeOK, HeaderTypeOK, Spare, Used
<1>5. HasKey'
  BY HeaderAssumption DEF SlotInv, HasKey
<1> QED BY <1>1, <1>2, <1>3, <1>4, <1>5 DEF SlotInv, TypeOK

LEMMA CheckNetStep == SlotInv /\ CheckNet /\ UNCHANGED keyVars => SlotInv'
<1> SUFFICES ASSUME SlotInv, CheckNet, UNCHANGED keyVars PROVE SlotInv'
  OBVIOUS
<1> USE DEF CheckNet, hostVars, tangVars, keyVars
<1>1. HeaderTypeOK'
  BY Kinds, BuildType DEF SlotInv, TypeOK, HeaderTypeOK
<1>2. TangTypeOK' /\ KeyTypeOK' /\ pc' \in Tasks \cup {"idle"}
  BY Kinds DEF SlotInv, TypeOK, TangTypeOK, KeyTypeOK, Clevis, Tasks, Registered, HeaderTypeOK
<1>3. Registered'
  BY Kinds DEF SlotInv, TypeOK, TangTypeOK, Registered, WantsTang, Wanted, Clevis
<1>4. Spare'
  BY Kinds DEF SlotInv, TypeOK, TangTypeOK, HeaderTypeOK, Spare, Used
<1>5. HasKey'
  BY HeaderAssumption DEF SlotInv, HasKey
<1> QED BY <1>1, <1>2, <1>3, <1>4, <1>5 DEF SlotInv, TypeOK

LEMMA CollectTangStep == SlotInv /\ CollectTang /\ UNCHANGED keyVars => SlotInv'
<1> SUFFICES ASSUME SlotInv, CollectTang, UNCHANGED keyVars PROVE SlotInv'
  OBVIOUS
<1> USE DEF CollectTang, hostVars, tangVars, keyVars
<1>0. doomed' \subseteq Slots
  BY DEF Clevis
<1>m. \E n \in Used : n \notin doomed'
  BY <1>0, OneSpare
<1>1. HeaderTypeOK'
  BY <1>0, <1>m, Kinds, BuildType DEF SlotInv, TypeOK, HeaderTypeOK
<1>2. TangTypeOK' /\ KeyTypeOK' /\ pc' \in Tasks \cup {"idle"}
  BY <1>0, <1>m, Kinds DEF SlotInv, TypeOK, TangTypeOK, KeyTypeOK, Clevis, Tasks, Registered, HeaderTypeOK
<1>3. Registered'
  BY <1>0, <1>m, Kinds DEF SlotInv, TypeOK, TangTypeOK, Registered, WantsTang, Wanted, Clevis
<1>4. Spare'
  BY <1>0, <1>m, Kinds DEF SlotInv, TypeOK, TangTypeOK, HeaderTypeOK, Spare, Used
<1>5. HasKey'
  BY <1>0, <1>m, HeaderAssumption DEF SlotInv, HasKey
<1> QED BY <1>1, <1>2, <1>3, <1>4, <1>5 DEF SlotInv, TypeOK

LEMMA UnbindTangStep == SlotInv /\ UnbindTang /\ UNCHANGED keyVars => SlotInv'
<1> SUFFICES ASSUME SlotInv, UnbindTang, UNCHANGED keyVars PROVE SlotInv'
  OBVIOUS
<1> USE DEF UnbindTang, hostVars, tangVars, keyVars, Unbind, Put, Rest
<1>0. First(doomed) \in doomed /\ First(doomed) \in Slots
  BY FirstIn DEF SlotInv, TypeOK, TangTypeOK, Clevis
<1>m. match = {} /\ stale = {}
  BY DEF SlotInv, Registered
<1>1. HeaderTypeOK'
  BY <1>0, <1>m, Kinds, BuildType DEF SlotInv, TypeOK, HeaderTypeOK
<1>2. TangTypeOK' /\ KeyTypeOK' /\ pc' \in Tasks \cup {"idle"}
  BY <1>0, <1>m, Kinds DEF SlotInv, TypeOK, TangTypeOK, KeyTypeOK, Clevis, Tasks, Registered, HeaderTypeOK
<1>3. Registered'
  BY <1>0, <1>m, Kinds DEF SlotInv, TypeOK, TangTypeOK, Registered, WantsTang, Wanted, Clevis
<1>4. Spare'
  BY <1>0, <1>m, Kinds DEF SlotInv, TypeOK, TangTypeOK, HeaderTypeOK, Spare, Used
<1>5. HasKey'
  BY <1>0, <1>m, HeaderAssumption DEF SlotInv, HasKey
<1> QED BY <1>1, <1>2, <1>3, <1>4, <1>5 DEF SlotInv, TypeOK

LEMMA GenerateKeyStep == SlotInv /\ GenerateKey /\ UNCHANGED <<want, tangVars>> => SlotInv'
<1> SUFFICES ASSUME SlotInv, GenerateKey, UNCHANGED <<want, tangVars>> PROVE SlotInv'
  OBVIOUS
<1> USE DEF GenerateKey, hostVars, tangVars, keyVars
<1>1. HeaderTypeOK'
  BY Kinds, BuildType DEF SlotInv, TypeOK, HeaderTypeOK
<1>2. TangTypeOK' /\ KeyTypeOK' /\ pc' \in Tasks \cup {"idle"}
  BY Kinds DEF SlotInv, TypeOK, TangTypeOK, KeyTypeOK, Clevis, Tasks, Registered, HeaderTypeOK
<1>3. Registered'
  BY Kinds DEF SlotInv, TypeOK, TangTypeOK, Registered, WantsTang, Wanted, Clevis
<1>4. Spare'
  BY Kinds DEF SlotInv, TypeOK, TangTypeOK, HeaderTypeOK, Spare, Used
<1>5. HasKey'
  BY HeaderAssumption DEF SlotInv, HasKey
<1> QED BY <1>1, <1>2, <1>3, <1>4, <1>5 DEF SlotInv, TypeOK

LEMMA CheckEnrolledStep == SlotInv /\ CheckEnrolled /\ UNCHANGED <<want, tangVars>> => SlotInv'
<1> SUFFICES ASSUME SlotInv, CheckEnrolled, UNCHANGED <<want, tangVars>> PROVE SlotInv'
  OBVIOUS
<1> USE DEF CheckEnrolled, hostVars, tangVars, keyVars, TestKeyfile, Fits
<1>1. HeaderTypeOK'
  BY Kinds, BuildType DEF SlotInv, TypeOK, HeaderTypeOK
<1>2. TangTypeOK' /\ KeyTypeOK' /\ pc' \in Tasks \cup {"idle"}
  <2>1. enrolled' \in BOOLEAN
    BY DEF SlotInv, TypeOK, KeyTypeOK
  <2>2. glitch' \in 0 .. Glitches
    BY RoleAssumption DEF SlotInv, TypeOK, KeyTypeOK
  <2>3. TangTypeOK' /\ kchg' \in BOOLEAN /\ pc' \in Tasks
    BY DEF SlotInv, TypeOK, TangTypeOK, KeyTypeOK, Clevis, Tasks
  <2> QED BY <2>1, <2>2, <2>3 DEF KeyTypeOK
<1>3. Registered'
  BY Kinds DEF SlotInv, TypeOK, TangTypeOK, Registered, WantsTang, Wanted, Clevis
<1>4. Spare'
  BY Kinds DEF SlotInv, TypeOK, TangTypeOK, HeaderTypeOK, Spare, Used
<1>5. HasKey'
  BY HeaderAssumption DEF SlotInv, HasKey
<1> QED BY <1>1, <1>2, <1>3, <1>4, <1>5 DEF SlotInv, TypeOK

LEMMA AddKeyStep == SlotInv /\ AddKey /\ UNCHANGED <<want, tangVars>> => SlotInv'
<1> SUFFICES ASSUME SlotInv, AddKey, UNCHANGED <<want, tangVars>> PROVE SlotInv'
  OBVIOUS
<1> USE DEF AddKey, hostVars, tangVars, keyVars, Put, Used, NeedsSlot, Content
<1>0. keyfile \in Keys
  BY DEF SlotInv, HasKey, TypeOK, HeaderTypeOK
<1>1. HeaderTypeOK'
  BY <1>0, Kinds, BuildType DEF SlotInv, TypeOK, HeaderTypeOK
<1>2. TangTypeOK' /\ KeyTypeOK' /\ pc' \in Tasks \cup {"idle"}
  BY <1>0, Kinds DEF SlotInv, TypeOK, TangTypeOK, KeyTypeOK, Clevis, Tasks, Registered, HeaderTypeOK
<1>3. Registered'
  <2>1. \A n \in match \cup stale : slot'[n] = slot[n]
    BY <1>0, Kinds DEF SlotInv, TypeOK, TangTypeOK, HeaderTypeOK, Clevis
  <2> QED
    BY <2>1 DEF SlotInv, TypeOK, TangTypeOK, Registered, WantsTang, Wanted, Clevis
<1>4. Spare'
  BY <1>0, Kinds DEF SlotInv, TypeOK, TangTypeOK, HeaderTypeOK, Spare, Used
<1>5. HasKey'
  BY <1>0, HeaderAssumption DEF SlotInv, HasKey
<1> QED BY <1>1, <1>2, <1>3, <1>4, <1>5 DEF SlotInv, TypeOK

LEMMA CopyToBootStep == SlotInv /\ CopyToBoot /\ UNCHANGED <<want, tangVars>> => SlotInv'
<1> SUFFICES ASSUME SlotInv, CopyToBoot, UNCHANGED <<want, tangVars>> PROVE SlotInv'
  OBVIOUS
<1> USE DEF CopyToBoot, hostVars, tangVars, keyVars, BootCopy
<1>1. HeaderTypeOK'
  BY Kinds, BuildType DEF SlotInv, TypeOK, HeaderTypeOK
<1>2. TangTypeOK' /\ KeyTypeOK' /\ pc' \in Tasks \cup {"idle"}
  BY Kinds DEF SlotInv, TypeOK, TangTypeOK, KeyTypeOK, Clevis, Tasks, Registered, HeaderTypeOK
<1>3. Registered'
  BY Kinds DEF SlotInv, TypeOK, TangTypeOK, Registered, WantsTang, Wanted, Clevis
<1>4. Spare'
  BY Kinds DEF SlotInv, TypeOK, TangTypeOK, HeaderTypeOK, Spare, Used
<1>5. HasKey'
  BY HeaderAssumption DEF SlotInv, HasKey
<1> QED BY <1>1, <1>2, <1>3, <1>4, <1>5 DEF SlotInv, TypeOK

LEMMA DeployConfStep == SlotInv /\ DeployConf /\ UNCHANGED <<want, tangVars>> => SlotInv'
<1> SUFFICES ASSUME SlotInv, DeployConf, UNCHANGED <<want, tangVars>> PROVE SlotInv'
  OBVIOUS
<1> USE DEF DeployConf, hostVars, tangVars, keyVars
<1>1. HeaderTypeOK'
  BY Kinds, BuildType DEF SlotInv, TypeOK, HeaderTypeOK, Etc
<1>2. TangTypeOK' /\ KeyTypeOK' /\ pc' \in Tasks \cup {"idle"}
  BY Kinds DEF SlotInv, TypeOK, TangTypeOK, KeyTypeOK, Clevis, Tasks, Registered, HeaderTypeOK
<1>3. Registered'
  BY Kinds DEF SlotInv, TypeOK, TangTypeOK, Registered, WantsTang, Wanted, Clevis
<1>4. Spare'
  BY Kinds DEF SlotInv, TypeOK, TangTypeOK, HeaderTypeOK, Spare, Used
<1>5. HasKey'
  BY HeaderAssumption DEF SlotInv, HasKey
<1> QED BY <1>1, <1>2, <1>3, <1>4, <1>5 DEF SlotInv, TypeOK

LEMMA DeployModuleStep == SlotInv /\ DeployModule /\ UNCHANGED <<want, tangVars>> => SlotInv'
<1> SUFFICES ASSUME SlotInv, DeployModule, UNCHANGED <<want, tangVars>> PROVE SlotInv'
  OBVIOUS
<1> USE DEF DeployModule, hostVars, tangVars, keyVars
<1>1. HeaderTypeOK'
  BY Kinds, BuildType DEF SlotInv, TypeOK, HeaderTypeOK, Etc
<1>2. TangTypeOK' /\ KeyTypeOK' /\ pc' \in Tasks \cup {"idle"}
  BY Kinds DEF SlotInv, TypeOK, TangTypeOK, KeyTypeOK, Clevis, Tasks, Registered, HeaderTypeOK
<1>3. Registered'
  BY Kinds DEF SlotInv, TypeOK, TangTypeOK, Registered, WantsTang, Wanted, Clevis
<1>4. Spare'
  BY Kinds DEF SlotInv, TypeOK, TangTypeOK, HeaderTypeOK, Spare, Used
<1>5. HasKey'
  BY HeaderAssumption DEF SlotInv, HasKey
<1> QED BY <1>1, <1>2, <1>3, <1>4, <1>5 DEF SlotInv, TypeOK

LEMMA KeyRebuildStep == SlotInv /\ KeyRebuild /\ UNCHANGED <<want, tangVars>> => SlotInv'
<1> SUFFICES ASSUME SlotInv, KeyRebuild, UNCHANGED <<want, tangVars>> PROVE SlotInv'
  OBVIOUS
<1> USE DEF KeyRebuild, hostVars, tangVars, keyVars, RebuildIfChanged
<1>1. HeaderTypeOK'
  BY Kinds, BuildType DEF SlotInv, TypeOK, HeaderTypeOK
<1>2. TangTypeOK' /\ KeyTypeOK' /\ pc' \in Tasks \cup {"idle"}
  BY Kinds DEF SlotInv, TypeOK, TangTypeOK, KeyTypeOK, Clevis, Tasks, Registered, HeaderTypeOK
<1>3. Registered'
  BY Kinds DEF SlotInv, TypeOK, TangTypeOK, Registered, WantsTang, Wanted, Clevis
<1>4. Spare'
  BY Kinds DEF SlotInv, TypeOK, TangTypeOK, HeaderTypeOK, Spare, Used
<1>5. HasKey'
  BY HeaderAssumption DEF SlotInv, HasKey
<1> QED BY <1>1, <1>2, <1>3, <1>4, <1>5 DEF SlotInv, TypeOK

LEMMA CheckKeyStep == SlotInv /\ CheckKey /\ UNCHANGED <<want, tangVars>> => SlotInv'
<1> SUFFICES ASSUME SlotInv, CheckKey, UNCHANGED <<want, tangVars>> PROVE SlotInv'
  OBVIOUS
<1> USE DEF CheckKey, hostVars, tangVars, keyVars
<1>1. HeaderTypeOK'
  BY Kinds, BuildType DEF SlotInv, TypeOK, HeaderTypeOK
<1>2. TangTypeOK' /\ KeyTypeOK' /\ pc' \in Tasks \cup {"idle"}
  BY Kinds DEF SlotInv, TypeOK, TangTypeOK, KeyTypeOK, Clevis, Tasks, Registered, HeaderTypeOK
<1>3. Registered'
  BY Kinds DEF SlotInv, TypeOK, TangTypeOK, Registered, WantsTang, Wanted, Clevis
<1>4. Spare'
  BY Kinds DEF SlotInv, TypeOK, TangTypeOK, HeaderTypeOK, Spare, Used
<1>5. HasKey'
  BY HeaderAssumption DEF SlotInv, HasKey
<1> QED BY <1>1, <1>2, <1>3, <1>4, <1>5 DEF SlotInv, TypeOK

LEMMA DropModuleStep == SlotInv /\ DropModule /\ UNCHANGED <<want, tangVars>> => SlotInv'
<1> SUFFICES ASSUME SlotInv, DropModule, UNCHANGED <<want, tangVars>> PROVE SlotInv'
  OBVIOUS
<1> USE DEF DropModule, hostVars, tangVars, keyVars
<1>1. HeaderTypeOK'
  <2>1. etc' \in Etc
    BY DEF SlotInv, TypeOK, HeaderTypeOK, Etc
  <2> QED
    BY <2>1 DEF SlotInv, TypeOK, HeaderTypeOK
<1>2. TangTypeOK' /\ KeyTypeOK' /\ pc' \in Tasks \cup {"idle"}
  BY Kinds DEF SlotInv, TypeOK, TangTypeOK, KeyTypeOK, Clevis, Tasks, Registered, HeaderTypeOK, Etc
<1>3. Registered'
  BY Kinds DEF SlotInv, TypeOK, TangTypeOK, Registered, WantsTang, Wanted, Clevis
<1>4. Spare'
  BY Kinds DEF SlotInv, TypeOK, TangTypeOK, HeaderTypeOK, Spare, Used
<1>5. HasKey'
  BY HeaderAssumption DEF SlotInv, HasKey
<1> QED BY <1>1, <1>2, <1>3, <1>4, <1>5 DEF SlotInv, TypeOK

LEMMA DropRebuildStep == SlotInv /\ DropRebuild /\ UNCHANGED <<want, tangVars>> => SlotInv'
<1> SUFFICES ASSUME SlotInv, DropRebuild, UNCHANGED <<want, tangVars>> PROVE SlotInv'
  OBVIOUS
<1> USE DEF DropRebuild, hostVars, tangVars, keyVars, RebuildIfChanged
<1>1. HeaderTypeOK'
  BY Kinds, BuildType DEF SlotInv, TypeOK, HeaderTypeOK
<1>2. TangTypeOK' /\ KeyTypeOK' /\ pc' \in Tasks \cup {"idle"}
  BY Kinds DEF SlotInv, TypeOK, TangTypeOK, KeyTypeOK, Clevis, Tasks, Registered, HeaderTypeOK
<1>3. Registered'
  BY Kinds DEF SlotInv, TypeOK, TangTypeOK, Registered, WantsTang, Wanted, Clevis
<1>4. Spare'
  BY Kinds DEF SlotInv, TypeOK, TangTypeOK, HeaderTypeOK, Spare, Used
<1>5. HasKey'
  BY HeaderAssumption DEF SlotInv, HasKey
<1> QED BY <1>1, <1>2, <1>3, <1>4, <1>5 DEF SlotInv, TypeOK

LEMMA CheckStillEnrolledStep == SlotInv /\ CheckStillEnrolled /\ UNCHANGED <<want, tangVars>> => SlotInv'
<1> SUFFICES ASSUME SlotInv, CheckStillEnrolled, UNCHANGED <<want, tangVars>> PROVE SlotInv'
  OBVIOUS
<1> USE DEF CheckStillEnrolled, hostVars, tangVars, keyVars, TestKeyfile, Fits
<1>1. HeaderTypeOK'
  BY Kinds, BuildType DEF SlotInv, TypeOK, HeaderTypeOK
<1>2. TangTypeOK' /\ KeyTypeOK' /\ pc' \in Tasks \cup {"idle"}
  <2>1. enrolled' \in BOOLEAN
    BY DEF SlotInv, TypeOK, KeyTypeOK
  <2>2. glitch' \in 0 .. Glitches
    BY RoleAssumption DEF SlotInv, TypeOK, KeyTypeOK
  <2>3. TangTypeOK' /\ kchg' \in BOOLEAN /\ pc' \in Tasks
    BY DEF SlotInv, TypeOK, TangTypeOK, KeyTypeOK, Clevis, Tasks
  <2> QED BY <2>1, <2>2, <2>3 DEF KeyTypeOK
<1>3. Registered'
  BY Kinds DEF SlotInv, TypeOK, TangTypeOK, Registered, WantsTang, Wanted, Clevis
<1>4. Spare'
  BY Kinds DEF SlotInv, TypeOK, TangTypeOK, HeaderTypeOK, Spare, Used
<1>5. HasKey'
  BY HeaderAssumption DEF SlotInv, HasKey
<1> QED BY <1>1, <1>2, <1>3, <1>4, <1>5 DEF SlotInv, TypeOK

LEMMA RefuseLastStep == SlotInv /\ RefuseLast /\ UNCHANGED <<want, tangVars>> => SlotInv'
<1> SUFFICES ASSUME SlotInv, RefuseLast, UNCHANGED <<want, tangVars>> PROVE SlotInv'
  OBVIOUS
<1> USE DEF RefuseLast, hostVars, tangVars, keyVars
<1>0. enrolled => \E m, n \in Used : m # n
  BY TwoUsed DEF SlotInv, Spare
<1>1. HeaderTypeOK'
  BY <1>0, Kinds, BuildType DEF SlotInv, TypeOK, HeaderTypeOK
<1>2. TangTypeOK' /\ KeyTypeOK' /\ pc' \in Tasks \cup {"idle"}
  BY <1>0, Kinds DEF SlotInv, TypeOK, TangTypeOK, KeyTypeOK, Clevis, Tasks, Registered, HeaderTypeOK
<1>3. Registered'
  BY <1>0, Kinds DEF SlotInv, TypeOK, TangTypeOK, Registered, WantsTang, Wanted, Clevis
<1>4. Spare'
  BY <1>0, Kinds DEF SlotInv, TypeOK, TangTypeOK, HeaderTypeOK, Spare, Used
<1>5. HasKey'
  BY <1>0, HeaderAssumption DEF SlotInv, HasKey
<1> QED BY <1>1, <1>2, <1>3, <1>4, <1>5 DEF SlotInv, TypeOK

LEMMA RemoveSlotStep == SlotInv /\ RemoveSlot /\ UNCHANGED <<want, tangVars>> => SlotInv'
<1> SUFFICES ASSUME SlotInv, RemoveSlot, UNCHANGED <<want, tangVars>> PROVE SlotInv'
  OBVIOUS
<1> USE DEF RemoveSlot, hostVars, tangVars, keyVars, Unbind, Put, Holding
<1>0. enrolled => keyfile \in Keys
  BY DEF SlotInv, HasKey, TypeOK, HeaderTypeOK
<1>1. HeaderTypeOK'
  BY <1>0, Kinds, BuildType DEF SlotInv, TypeOK, HeaderTypeOK
<1>2. TangTypeOK' /\ KeyTypeOK' /\ pc' \in Tasks \cup {"idle"}
  BY <1>0, Kinds DEF SlotInv, TypeOK, TangTypeOK, KeyTypeOK, Clevis, Tasks, Registered, HeaderTypeOK
<1>3. Registered'
  <2>1. \A n \in match \cup stale : slot'[n] = slot[n]
    BY <1>0, Kinds DEF SlotInv, TypeOK, TangTypeOK, HeaderTypeOK, Clevis
  <2> QED
    BY <2>1 DEF SlotInv, TypeOK, TangTypeOK, Registered, WantsTang, Wanted, Clevis
<1>4. Spare'
  BY <1>0, Kinds DEF SlotInv, TypeOK, TangTypeOK, HeaderTypeOK, Spare, Used
<1>5. HasKey'
  BY <1>0, HeaderAssumption DEF SlotInv, HasKey
<1> QED BY <1>1, <1>2, <1>3, <1>4, <1>5 DEF SlotInv, TypeOK

LEMMA DropBootStep == SlotInv /\ DropBoot /\ UNCHANGED <<want, tangVars>> => SlotInv'
<1> SUFFICES ASSUME SlotInv, DropBoot, UNCHANGED <<want, tangVars>> PROVE SlotInv'
  OBVIOUS
<1> USE DEF DropBoot, hostVars, tangVars, keyVars
<1>1. HeaderTypeOK'
  BY Kinds, BuildType DEF SlotInv, TypeOK, HeaderTypeOK
<1>2. TangTypeOK' /\ KeyTypeOK' /\ pc' \in Tasks \cup {"idle"}
  BY Kinds DEF SlotInv, TypeOK, TangTypeOK, KeyTypeOK, Clevis, Tasks, Registered, HeaderTypeOK
<1>3. Registered'
  BY Kinds DEF SlotInv, TypeOK, TangTypeOK, Registered, WantsTang, Wanted, Clevis
<1>4. Spare'
  BY Kinds DEF SlotInv, TypeOK, TangTypeOK, HeaderTypeOK, Spare, Used
<1>5. HasKey'
  BY HeaderAssumption DEF SlotInv, HasKey
<1> QED BY <1>1, <1>2, <1>3, <1>4, <1>5 DEF SlotInv, TypeOK

LEMMA DropFilesStep == SlotInv /\ DropFiles /\ UNCHANGED <<want, tangVars>> => SlotInv'
<1> SUFFICES ASSUME SlotInv, DropFiles, UNCHANGED <<want, tangVars>> PROVE SlotInv'
  OBVIOUS
<1> USE DEF DropFiles, hostVars, tangVars, keyVars
<1>1. HeaderTypeOK'
  BY Kinds, BuildType DEF SlotInv, TypeOK, HeaderTypeOK, Etc
<1>2. TangTypeOK' /\ KeyTypeOK' /\ pc' \in Tasks \cup {"idle"}
  BY Kinds DEF SlotInv, TypeOK, TangTypeOK, KeyTypeOK, Clevis, Tasks, Registered, HeaderTypeOK
<1>3. Registered'
  BY Kinds DEF SlotInv, TypeOK, TangTypeOK, Registered, WantsTang, Wanted, Clevis
<1>4. Spare'
  BY Kinds DEF SlotInv, TypeOK, TangTypeOK, HeaderTypeOK, Spare, Used
<1>5. HasKey'
  BY HeaderAssumption DEF SlotInv, HasKey
<1> QED BY <1>1, <1>2, <1>3, <1>4, <1>5 DEF SlotInv, TypeOK

LEMMA FilesRebuildStep == SlotInv /\ FilesRebuild /\ UNCHANGED <<want, tangVars>> => SlotInv'
<1> SUFFICES ASSUME SlotInv, FilesRebuild, UNCHANGED <<want, tangVars>> PROVE SlotInv'
  OBVIOUS
<1> USE DEF FilesRebuild, hostVars, tangVars, keyVars, RebuildIfChanged
<1>1. HeaderTypeOK'
  BY Kinds, BuildType DEF SlotInv, TypeOK, HeaderTypeOK
<1>2. TangTypeOK' /\ KeyTypeOK' /\ pc' \in Tasks \cup {"idle"}
  BY Kinds DEF SlotInv, TypeOK, TangTypeOK, KeyTypeOK, Clevis, Tasks, Registered, HeaderTypeOK
<1>3. Registered'
  BY Kinds DEF SlotInv, TypeOK, TangTypeOK, Registered, WantsTang, Wanted, Clevis
<1>4. Spare'
  BY Kinds DEF SlotInv, TypeOK, TangTypeOK, HeaderTypeOK, Spare, Used
<1>5. HasKey'
  BY HeaderAssumption DEF SlotInv, HasKey
<1> QED BY <1>1, <1>2, <1>3, <1>4, <1>5 DEF SlotInv, TypeOK

LEMMA ShredStep == SlotInv /\ Shred /\ UNCHANGED <<want, tangVars>> => SlotInv'
<1> SUFFICES ASSUME SlotInv, Shred, UNCHANGED <<want, tangVars>> PROVE SlotInv'
  OBVIOUS
<1> USE DEF Shred, hostVars, tangVars, keyVars
<1>1. HeaderTypeOK'
  BY Kinds, BuildType DEF SlotInv, TypeOK, HeaderTypeOK
<1>2. TangTypeOK' /\ KeyTypeOK' /\ pc' \in Tasks \cup {"idle"}
  BY Kinds DEF SlotInv, TypeOK, TangTypeOK, KeyTypeOK, Clevis, Tasks, Registered, HeaderTypeOK
<1>3. Registered'
  BY Kinds DEF SlotInv, TypeOK, TangTypeOK, Registered, WantsTang, Wanted, Clevis
<1>4. Spare'
  BY Kinds DEF SlotInv, TypeOK, TangTypeOK, HeaderTypeOK, Spare, Used
<1>5. HasKey'
  BY HeaderAssumption DEF SlotInv, HasKey
<1> QED BY <1>1, <1>2, <1>3, <1>4, <1>5 DEF SlotInv, TypeOK

LEMMA StartRunStep == SlotInv /\ StartRun => SlotInv'
<1> SUFFICES ASSUME SlotInv, StartRun PROVE SlotInv'
  OBVIOUS
<1> USE DEF StartRun, hostVars, tangVars, keyVars
<1>0. opt' \in Options /\ want' \in Want
  BY RoleAssumption
<1>1. HeaderTypeOK'
  BY <1>0, Kinds, BuildType DEF SlotInv, TypeOK, HeaderTypeOK
<1>2. TangTypeOK' /\ KeyTypeOK' /\ pc' \in Tasks \cup {"idle"}
  BY <1>0, Kinds DEF SlotInv, TypeOK, TangTypeOK, KeyTypeOK, Clevis, Tasks, Registered, HeaderTypeOK
<1>3. Registered'
  BY <1>0, Kinds DEF SlotInv, TypeOK, TangTypeOK, Registered, WantsTang, Wanted, Clevis
<1>4. Spare'
  BY <1>0, Kinds DEF SlotInv, TypeOK, TangTypeOK, HeaderTypeOK, Spare, Used
<1>5. HasKey'
  BY <1>0, HeaderAssumption DEF SlotInv, HasKey
<1> QED BY <1>1, <1>2, <1>3, <1>4, <1>5 DEF SlotInv, TypeOK

LEMMA StartKeyfileStep == SlotInv /\ StartKeyfile => SlotInv'
<1> SUFFICES ASSUME SlotInv, StartKeyfile PROVE SlotInv'
  OBVIOUS
<1> USE DEF StartKeyfile, hostVars, tangVars, keyVars
<1>0. pc' \in {"tang", "keygen", "dropmodule"}
  BY DEF SlotInv, TypeOK, HeaderTypeOK, Options
<1>1. HeaderTypeOK'
  BY <1>0, Kinds, BuildType DEF SlotInv, TypeOK, HeaderTypeOK
<1>2. TangTypeOK' /\ KeyTypeOK' /\ pc' \in Tasks \cup {"idle"}
  BY <1>0, Kinds DEF SlotInv, TypeOK, TangTypeOK, KeyTypeOK, Clevis, Tasks, Registered, HeaderTypeOK
<1>3. Registered'
  BY <1>0, Kinds DEF SlotInv, TypeOK, TangTypeOK, Registered, WantsTang, Wanted, Clevis
<1>4. Spare'
  BY <1>0, Kinds DEF SlotInv, TypeOK, TangTypeOK, HeaderTypeOK, Spare, Used
<1>5. HasKey'
  BY <1>0, HeaderAssumption DEF SlotInv, HasKey
<1> QED BY <1>1, <1>2, <1>3, <1>4, <1>5 DEF SlotInv, TypeOK

LEMMA StartTeardownStep == SlotInv /\ StartTeardown => SlotInv'
<1> SUFFICES ASSUME SlotInv, StartTeardown PROVE SlotInv'
  OBVIOUS
<1> USE DEF StartTeardown, hostVars, tangVars, keyVars
<1>1. HeaderTypeOK'
  BY Kinds, BuildType DEF SlotInv, TypeOK, HeaderTypeOK
<1>2. TangTypeOK' /\ KeyTypeOK' /\ pc' \in Tasks \cup {"idle"}
  BY Kinds DEF SlotInv, TypeOK, TangTypeOK, KeyTypeOK, Clevis, Tasks, Registered, HeaderTypeOK
<1>3. Registered'
  BY Kinds DEF SlotInv, TypeOK, TangTypeOK, Registered, WantsTang, Wanted, Clevis
<1>4. Spare'
  BY Kinds DEF SlotInv, TypeOK, TangTypeOK, HeaderTypeOK, Spare, Used
<1>5. HasKey'
  BY HeaderAssumption DEF SlotInv, HasKey
<1> QED BY <1>1, <1>2, <1>3, <1>4, <1>5 DEF SlotInv, TypeOK

LEMMA FinishStep == SlotInv /\ Finish => SlotInv'
<1> SUFFICES ASSUME SlotInv, Finish PROVE SlotInv'
  OBVIOUS
<1> USE DEF Finish, hostVars, tangVars, keyVars, EndRun
<1>1. HeaderTypeOK'
  BY Kinds, BuildType DEF SlotInv, TypeOK, HeaderTypeOK
<1>2. TangTypeOK' /\ KeyTypeOK' /\ pc' \in Tasks \cup {"idle"}
  BY Kinds DEF SlotInv, TypeOK, TangTypeOK, KeyTypeOK, Clevis, Tasks, Registered, HeaderTypeOK
<1>3. Registered'
  BY Kinds DEF SlotInv, TypeOK, TangTypeOK, Registered, WantsTang, Wanted, Clevis
<1>4. Spare'
  BY Kinds DEF SlotInv, TypeOK, TangTypeOK, HeaderTypeOK, Spare, Used
<1>5. HasKey'
  BY HeaderAssumption DEF SlotInv, HasKey
<1> QED BY <1>1, <1>2, <1>3, <1>4, <1>5 DEF SlotInv, TypeOK

LEMMA AbortStep == SlotInv /\ Abort => SlotInv'
<1> SUFFICES ASSUME SlotInv, Abort PROVE SlotInv'
  OBVIOUS
<1> USE DEF Abort, hostVars, tangVars, keyVars, EndRun
<1>1. HeaderTypeOK'
  BY Kinds, BuildType DEF SlotInv, TypeOK, HeaderTypeOK
<1>2. TangTypeOK' /\ KeyTypeOK' /\ pc' \in Tasks \cup {"idle"}
  BY Kinds DEF SlotInv, TypeOK, TangTypeOK, KeyTypeOK, Clevis, Tasks, Registered, HeaderTypeOK
<1>3. Registered'
  BY Kinds DEF SlotInv, TypeOK, TangTypeOK, Registered, WantsTang, Wanted, Clevis
<1>4. Spare'
  BY Kinds DEF SlotInv, TypeOK, TangTypeOK, HeaderTypeOK, Spare, Used
<1>5. HasKey'
  BY HeaderAssumption DEF SlotInv, HasKey
<1> QED BY <1>1, <1>2, <1>3, <1>4, <1>5 DEF SlotInv, TypeOK

LEMMA ReachStep ==
    ASSUME SlotInv, NEW s \in Servers, Reach(s), UNCHANGED <<want, tangVars, keyVars>>
    PROVE  SlotInv'
<1> USE DEF Reach, hostVars, tangVars, keyVars
<1>1. TypeOK'
  BY DEF SlotInv, TypeOK, HeaderTypeOK, TangTypeOK, KeyTypeOK, Clevis
<1>2. Registered' /\ Spare' /\ HasKey'
  BY DEF SlotInv, Registered, Spare, HasKey, WantsTang, Wanted, Used
<1> QED BY <1>1, <1>2 DEF SlotInv

\* What a server that was set up anew leaves of a binding.
LEMMA Without ==
    ASSUME NEW b \in Binding, NEW s \in Servers
    PROVE  LET c == [b EXCEPT !.live = @ \ {s}]
           IN  c \in Binding /\ (Wanted(c) <=> Wanted(b))
BY DEF Binding, Wanted

LEMMA RekeySlots ==
    ASSUME SlotInv, NEW s \in Servers, Rekey(s)
    PROVE  /\ slot' \in [Slots -> Content \cup {Free}]
           /\ \A n \in Slots :
                 /\ slot[n] \notin Binding => slot'[n] = slot[n]
                 /\ slot[n] \in Binding => /\ slot'[n] \in Binding
                                           /\ Wanted(slot'[n]) <=> Wanted(slot[n])
<1> USE DEF Rekey
<1> DEFINE c(n) == [slot[n] EXCEPT !.live = @ \ {s}]
<1>1. \A n \in Slots : slot'[n] = IF slot[n] \in Binding THEN c(n) ELSE slot[n]
  OBVIOUS
<1>2. \A n \in Slots : slot[n] \in Binding =>
         c(n) \in Binding /\ (Wanted(c(n)) <=> Wanted(slot[n]))
  BY Without
<1>3. slot \in [Slots -> Content \cup {Free}]
  BY DEF SlotInv, TypeOK, HeaderTypeOK
<1>4. \A n \in Slots : slot'[n] \in Content \cup {Free}
  <2> HIDE DEF c
  <2> QED BY <1>1, <1>2, <1>3 DEF Content
<1>5. slot' \in [Slots -> Content \cup {Free}]
  BY <1>4
<1> QED
  <2> HIDE DEF c
  <2> QED BY <1>1, <1>2, <1>5

LEMMA RekeyStep ==
    ASSUME SlotInv, NEW s \in Servers, Rekey(s), UNCHANGED <<want, tangVars, keyVars>>
    PROVE  SlotInv'
<1> USE DEF tangVars, keyVars
<1>1. UNCHANGED <<up, keyfile, bootcopy, etc, initrd, opt, pc, ended>>
  BY DEF Rekey
<1>2. Clevis' = Clevis /\ Used' = Used
  BY RekeySlots, Kinds DEF SlotInv, TypeOK, HeaderTypeOK, Clevis, Used
<1>3. HeaderTypeOK'
  BY <1>1, RekeySlots DEF SlotInv, TypeOK, HeaderTypeOK
<1>4. TypeOK'
  BY <1>1, <1>2, <1>3 DEF SlotInv, TypeOK, TangTypeOK, KeyTypeOK
<1>5. \A n \in match \cup stale : Wanted(slot'[n]) <=> Wanted(slot[n])
  BY RekeySlots DEF SlotInv, TypeOK, TangTypeOK, Clevis
<1>6. \A n \in match \cup stale : Wanted(slot[n])' <=> Wanted(slot'[n])
  BY DEF Wanted
<1>7. Registered'
  BY <1>1, <1>5, <1>6 DEF SlotInv, Registered, WantsTang
<1>8. Spare' /\ HasKey'
  BY <1>1, <1>2 DEF SlotInv, Spare, HasKey
<1> QED BY <1>4, <1>7, <1>8 DEF SlotInv

LEMMA SlotNext == SlotInv /\ [Next]_vars => SlotInv'
<1> SUFFICES ASSUME SlotInv, [Next]_vars PROVE SlotInv'
  OBVIOUS
<1>1. CASE TangStep /\ UNCHANGED keyVars
  BY <1>1, ListBindingsStep, CheckServersStep, BindStep, BindHalfStep, VerifyStep, TestUnlockStep, RetireStep, DeployNetStep, RebuildStep, CheckNetStep, CollectTangStep, UnbindTangStep
     DEF TangStep
<1>2. CASE KeyStep /\ UNCHANGED <<want, tangVars>>
  BY <1>2, GenerateKeyStep, CheckEnrolledStep, AddKeyStep, CopyToBootStep, DeployConfStep, DeployModuleStep, KeyRebuildStep, CheckKeyStep, DropModuleStep, DropRebuildStep, CheckStillEnrolledStep, RefuseLastStep, RemoveSlotStep, DropBootStep, DropFilesStep, FilesRebuildStep, ShredStep
     DEF KeyStep
<1>3. CASE StartRun \/ StartKeyfile \/ StartTeardown \/ Finish \/ Abort
  BY <1>3, StartRunStep, StartKeyfileStep, StartTeardownStep, FinishStep, AbortStep
<1>4. CASE \E s \in Servers : (Reach(s) \/ Rekey(s))
                               /\ UNCHANGED <<want, tangVars, keyVars>>
  BY <1>4, ReachStep, RekeyStep
<1>5. CASE UNCHANGED vars
  BY <1>5 DEF vars, hostVars, tangVars, keyVars, SlotInv, TypeOK, HeaderTypeOK,
     TangTypeOK, KeyTypeOK, Registered, Spare, HasKey, WantsTang, Wanted, Used,
     Clevis
<1> QED BY <1>1, <1>2, <1>3, <1>4, <1>5 DEF Next

\* The types, the registered slots and the spare keyslot, in every state.
THEOREM RoleInvariant == Spec => []SlotInv
<1>1. Init => SlotInv
  BY SlotInit
<1>2. SlotInv /\ [Next]_vars => SlotInv'
  BY SlotNext
<1> QED BY <1>1, <1>2, PTL DEF Spec

\* The header, the servers' keys and the role's own facts keep their types.
THEOREM RoleTyped == Spec => []TypeOK
<1>1. SlotInv => TypeOK
  BY DEF SlotInv
<1> QED BY <1>1, RoleInvariant, PTL

\* No run of the role takes the last keyslot, wherever it is stopped and
\* whatever earlier runs have left.
THEOREM KeyslotAlwaysRemains == Spec => []KeyslotRemains
<1>1. SlotInv => KeyslotRemains
  BY DEF SlotInv, Spare, KeyslotRemains
<1> QED BY <1>1, RoleInvariant, PTL

-----------------------------------------------------------------------------
(* A binding is retired behind a proven one. *)

RetiredBehindProof ==
    \A n \in Slots :
        slot[n] \in Binding /\ slot'[n] = Free /\ pc # "untang" =>
            \E m \in proven : /\ slot[m] \in Binding /\ Wanted(slot[m])
                              /\ slot'[m] = slot[m]

\* Bindings that stay bound need no proof.
LEMMA KeptBindings ==
    ASSUME \A n \in Slots : slot[n] \in Binding => slot'[n] \in Binding
    PROVE  RetiredBehindProof
BY Kinds DEF RetiredBehindProof

LEMMA RetireBehindProof == SlotInv /\ Retire => RetiredBehindProof
<1> SUFFICES ASSUME SlotInv, Retire PROVE RetiredBehindProof
  OBVIOUS
<1>1. First(stale) \in stale /\ First(stale) \notin match
  BY FirstIn DEF SlotInv, TypeOK, TangTypeOK, Registered, Retire, Clevis
<1>2. PICK m \in match : m \in proven
  BY DEF SlotInv, Registered, Retire
<1>3. slot[m] \in Binding /\ Wanted(slot[m])
  BY <1>2 DEF SlotInv, TypeOK, TangTypeOK, Registered, Clevis
<1>4. slot'[m] = slot[m]
  BY <1>1, <1>2 DEF SlotInv, TypeOK, HeaderTypeOK, TangTypeOK, Clevis, Retire,
     Unbind, Put
<1> QED BY <1>2, <1>3, <1>4 DEF RetiredBehindProof

LEMMA RemoveBehindProof == SlotInv /\ RemoveSlot => RetiredBehindProof
<1> SUFFICES ASSUME SlotInv, RemoveSlot PROVE RetiredBehindProof
  OBVIOUS
<1>1. enrolled => keyfile \in Keys
  BY DEF SlotInv, HasKey, TypeOK, HeaderTypeOK, RemoveSlot
<1>2. \A n \in Slots : slot[n] \in Binding => slot'[n] = slot[n]
  BY <1>1, Kinds DEF SlotInv, TypeOK, HeaderTypeOK, RemoveSlot, Unbind, Put, Holding
<1> QED BY <1>2, KeptBindings

LEMMA RetireNext == SlotInv /\ [Next]_vars => RetiredBehindProof
<1> SUFFICES ASSUME SlotInv, [Next]_vars PROVE RetiredBehindProof
  OBVIOUS
<1>1. CASE Retire
  BY <1>1, RetireBehindProof
<1>2. CASE RemoveSlot
  BY <1>2, RemoveBehindProof
<1>3. CASE UnbindTang
  BY <1>3 DEF UnbindTang, RetiredBehindProof
<1>4. CASE Bind \/ BindHalf
  BY <1>4, Kinds, KeptBindings DEF SlotInv, TypeOK, HeaderTypeOK, Bind, BindHalf,
     Put, Used
<1>5. CASE AddKey
  BY <1>5, Kinds, KeptBindings DEF SlotInv, TypeOK, HeaderTypeOK, AddKey, Put, Used
<1>6. CASE \E s \in Servers : Rekey(s)
  BY <1>6, RekeySlots, KeptBindings
<1>7. CASE UNCHANGED slot
  BY <1>7, KeptBindings
<1>8. CASE TangStep
  BY <1>8, <1>1, <1>3, <1>4, <1>7 DEF TangStep, ListBindings, CheckServers,
     Verify, TestUnlock, DeployNet, Rebuild, CheckNet, CollectTang, hostVars
<1>9. CASE KeyStep
  <2>1. CASE AddKey \/ RemoveSlot
    BY <2>1, <1>2, <1>5
  <2>2. CASE UNCHANGED slot
    BY <2>2, <1>7
  <2> QED
    BY <1>9, <2>1, <2>2 DEF KeyStep, GenerateKey, CheckEnrolled, CopyToBoot,
       DeployConf, DeployModule, KeyRebuild, CheckKey, DropModule, DropRebuild,
       CheckStillEnrolled, RefuseLast, DropBoot, DropFiles, FilesRebuild, Shred,
       hostVars
<1>10. CASE StartRun \/ StartKeyfile \/ StartTeardown \/ Finish \/ Abort
  BY <1>7, <1>10 DEF StartRun, StartKeyfile, StartTeardown, Finish, Abort, hostVars
<1>11. CASE \E s \in Servers : Reach(s)
  BY <1>7, <1>11 DEF Reach, hostVars
<1>12. CASE UNCHANGED vars
  BY <1>7, <1>12 DEF vars, hostVars
<1> QED BY <1>6, <1>8, <1>9, <1>10, <1>11, <1>12 DEF Next

\* Outside the teardown no binding is unbound but behind a wanted one that this
\* run has unlocked the device through.
THEOREM RetiredOnlyAfterProof == Spec => RetiredAfterProof
<1>1. SlotInv /\ [Next]_vars => [RetiredBehindProof]_vars
  BY RetireNext
<1> QED BY <1>1, RoleInvariant, PTL DEF Spec, RetiredAfterProof, RetiredBehindProof

-----------------------------------------------------------------------------
(* The fallback key outlives its keyslot. *)

\* Nothing happens to the fallback key and its slot.
LEMMA KeyFrame ==
    ASSUME KeyInv, TypeOK, UNCHANGED <<keyfile, glitch>>,
           \A n \in Slots : slot[n] \in Keys \/ slot'[n] \in Keys
                                => slot'[n] = slot[n],
           pc' \in {"enrol", "count", "remove"} => enrolled' = Fits,
           pc' \in {"dropboot", "dropfiles", "filesrebuild", "shred"} => ~Fits
    PROVE  KeyInv'
<1>1. \A k \in Keys : Holding(k)' = Holding(k)
  BY DEF Holding
<1>2. keyfile \in Keys \cup {Absent}
  BY DEF TypeOK, HeaderTypeOK
<1>3. Fits' <=> Fits
  BY <1>1, <1>2 DEF Fits
<1>4. FallbackKeyKept'
  BY <1>1 DEF KeyInv, FallbackKeyKept
<1>5. \A m, n \in Slots : slot'[m] \in Keys /\ slot'[n] = slot'[m] => m = n
  BY DEF KeyInv
<1>6. pc' \in {"enrol", "count", "remove"} => enrolled' = Fits'
  BY <1>3 DEF Fits
<1> QED BY <1>3, <1>4, <1>5, <1>6 DEF KeyInv

LEMMA KeyInit == Glitches = 0 /\ Init => KeyInv
<1> SUFFICES ASSUME Init PROVE KeyInv
  OBVIOUS
<1>1. \A n \in Slots : slot[n] \notin Keys
  BY RoleAssumption DEF Init
<1>2. \A k \in Keys : Holding(k) = {}
  BY <1>1 DEF Holding
<1> QED BY <1>1, <1>2 DEF KeyInv, FallbackKeyKept, Init

LEMMA TangKeepsKey ==
    ASSUME SlotInv, KeyInv, TangStep, UNCHANGED keyVars
    PROVE  KeyInv'
<1>1. UNCHANGED <<keyfile, glitch>>
  BY DEF TangStep, ListBindings, CheckServers, Bind, BindHalf, Verify, TestUnlock,
     Retire, DeployNet, Rebuild, CheckNet, CollectTang, UnbindTang, keyVars, hostVars
<1>2. pc' \notin {"enrol", "count", "remove", "dropboot", "dropfiles",
                  "filesrebuild", "shred"}
  BY DEF TangStep, ListBindings, CheckServers, Bind, BindHalf, Verify, TestUnlock,
     Retire, DeployNet, Rebuild, CheckNet, CollectTang, UnbindTang
<1> DEFINE Same == \A n \in Slots : slot[n] \in Keys \/ slot'[n] \in Keys
                                      => slot'[n] = slot[n]
<1>3. CASE Bind \/ BindHalf
  <2>1. NewBinding \in Binding
    BY DEF SlotInv, TypeOK, TangTypeOK, Want, NewBinding, Binding
  <2>2. Same
    BY <1>3, <2>1, Kinds DEF SlotInv, TypeOK, HeaderTypeOK, Bind, BindHalf, Put, Used
  <2> QED BY <1>1, <1>2, <2>2, KeyFrame DEF SlotInv
<1>4. CASE Retire \/ UnbindTang
  <2>1. \A S : S \subseteq Clevis /\ S # {} => First(S) \in Clevis
    BY FirstIn DEF Clevis
  <2>2. \E n \in Clevis : slot' = [slot EXCEPT ![n] = Free]
    BY <1>4, <2>1 DEF SlotInv, TypeOK, TangTypeOK, Retire, UnbindTang, Unbind, Put
  <2>3. Same
    BY <2>2, Kinds DEF SlotInv, TypeOK, HeaderTypeOK, Clevis
  <2> QED BY <1>1, <1>2, <2>3, KeyFrame DEF SlotInv
<1>5. CASE UNCHANGED slot
  BY <1>1, <1>2, <1>5, KeyFrame DEF SlotInv
<1> QED
  BY <1>3, <1>4, <1>5 DEF TangStep, ListBindings, CheckServers, Verify, TestUnlock,
     DeployNet, Rebuild, CheckNet, CollectTang, hostVars

LEMMA KeyStepKeeps ==
    ASSUME SlotInv, KeyInv, Glitches = 0, KeyStep
    PROVE  KeyInv'
<1> USE DEF hostVars, keyVars
<1>1. CASE GenerateKey
  <2>1. CASE keyfile = Absent
    <3>1. \A k \in Keys : Holding(k) = {}
      BY <2>1, HeaderAssumption DEF KeyInv, FallbackKeyKept
    <3>2. FallbackKeyKept'
      BY <1>1, <3>1 DEF GenerateKey, FallbackKeyKept, Holding
    <3> QED BY <1>1, <3>2 DEF GenerateKey, KeyInv
  <2>2. CASE keyfile # Absent
    BY <1>1, <2>2, KeyFrame DEF GenerateKey, SlotInv
  <2> QED BY <2>1, <2>2
<1>2. CASE CheckEnrolled \/ CheckStillEnrolled
  <2>1. enrolled' = Fits /\ UNCHANGED glitch
    BY <1>2 DEF CheckEnrolled, CheckStillEnrolled, TestKeyfile, KeyInv
  <2> QED
    BY <1>2, <2>1, KeyFrame DEF CheckEnrolled, CheckStillEnrolled, SlotInv
<1>3. CASE AddKey
  <2>1. enrolled = Fits /\ keyfile \in Keys
    BY <1>3 DEF AddKey, KeyInv, SlotInv, HasKey, TypeOK, HeaderTypeOK
  <2>2. CASE NeedsSlot
    <3>1. \A k \in Keys : Holding(k) = {}
      BY <2>1, <2>2, HeaderAssumption DEF NeedsSlot, Fits, KeyInv, FallbackKeyKept
    <3>2. \A n \in Slots : slot[n] \notin Keys
      BY <3>1 DEF Holding
    <3>3. PICK n \in Slots : slot' = [slot EXCEPT ![n] = keyfile]
      BY <1>3, <2>2 DEF AddKey, Put
    <3>4. \A m \in Slots : slot'[m] \in Keys => m = n /\ slot'[m] = keyfile
      BY <3>2, <3>3 DEF SlotInv, TypeOK, HeaderTypeOK
    <3>5. UNCHANGED <<keyfile, glitch>> /\ pc' = "bootcopy"
      BY <1>3 DEF AddKey
    <3>6. FallbackKeyKept'
      BY <3>4, <3>5 DEF FallbackKeyKept, Holding
    <3> QED BY <3>4, <3>5, <3>6 DEF KeyInv
  <2>3. CASE ~NeedsSlot
    BY <1>3, <2>3, KeyFrame DEF AddKey, SlotInv
  <2> QED BY <2>2, <2>3
<1>4. CASE RefuseLast
  BY <1>4, KeyFrame DEF RefuseLast, SlotInv, KeyInv
<1>5. CASE RemoveSlot
  <2>1. enrolled = Fits /\ (enrolled => keyfile \in Keys)
    BY <1>5 DEF RemoveSlot, KeyInv, SlotInv, HasKey, TypeOK, HeaderTypeOK
  <2>2. UNCHANGED <<keyfile, glitch>> /\ pc' = "dropboot"
    BY <1>5 DEF RemoveSlot
  <2>3. CASE enrolled
    <3>1. PICK n \in Holding(keyfile) : slot' = [slot EXCEPT ![n] = Free]
      BY <1>5, <2>3 DEF RemoveSlot, Unbind, Put
    <3>2. \A m \in Slots : slot[m] \in Keys => m = n
      BY <2>1, <2>3, <3>1 DEF KeyInv, FallbackKeyKept, Holding
    <3>3. \A m \in Slots : slot'[m] \notin Keys
      BY <3>1, <3>2, Kinds DEF SlotInv, TypeOK, HeaderTypeOK, Holding
    <3>4. \A k \in Keys : Holding(k)' = {}
      BY <3>3 DEF Holding
    <3>5. Fits' = FALSE
      BY <2>1, <2>2, <2>3, <3>4 DEF Fits
    <3> QED BY <2>2, <3>3, <3>4, <3>5 DEF KeyInv, FallbackKeyKept
  <2>4. CASE ~enrolled
    BY <1>5, <2>1, <2>4, KeyFrame DEF RemoveSlot, SlotInv
  <2> QED BY <2>3, <2>4
<1>6. CASE DropBoot \/ DropFiles \/ FilesRebuild
  BY <1>6, KeyFrame DEF DropBoot, DropFiles, FilesRebuild, SlotInv, KeyInv
<1>7. CASE Shred
  <2>1. \A k \in Keys : Holding(k) = {}
    BY <1>7, HeaderAssumption DEF Shred, KeyInv, FallbackKeyKept, Fits
  <2>2. UNCHANGED <<slot, glitch>> /\ pc' = "tang"
    BY <1>7 DEF Shred
  <2> QED BY <2>1, <2>2 DEF KeyInv, FallbackKeyKept, Holding
<1>8. CASE CopyToBoot \/ DeployConf \/ DeployModule \/ KeyRebuild \/ CheckKey
           \/ DropModule \/ DropRebuild
  BY <1>8, KeyFrame DEF CopyToBoot, DeployConf, DeployModule, KeyRebuild, CheckKey,
     DropModule, DropRebuild, SlotInv
<1> QED
  BY <1>1, <1>2, <1>3, <1>4, <1>5, <1>6, <1>7, <1>8 DEF KeyStep

LEMMA KeyNext == SlotInv /\ KeyInv /\ Glitches = 0 /\ [Next]_vars => KeyInv'
<1> SUFFICES ASSUME SlotInv, KeyInv, Glitches = 0, [Next]_vars PROVE KeyInv'
  OBVIOUS
<1>1. CASE TangStep /\ UNCHANGED keyVars
  BY <1>1, TangKeepsKey
<1>2. CASE KeyStep
  BY <1>2, KeyStepKeeps
<1>3. CASE StartRun \/ StartKeyfile \/ StartTeardown \/ Finish \/ Abort
  <2>1. UNCHANGED <<slot, keyfile, glitch>>
    BY <1>3 DEF StartRun, StartKeyfile, StartTeardown, Finish, Abort, hostVars, keyVars
  <2>2. pc' \in {"idle", "list", "keyfile", "tang", "keygen", "dropmodule", "teardown"}
    BY <1>3 DEF StartRun, StartKeyfile, StartTeardown, Finish, Abort, EndRun,
       SlotInv, TypeOK, HeaderTypeOK, Options
  <2> QED BY <2>1, <2>2, KeyFrame DEF SlotInv
<1>4. CASE \E s \in Servers : Reach(s) /\ UNCHANGED keyVars
  BY <1>4, KeyFrame DEF Reach, SlotInv, hostVars, keyVars, KeyInv
<1>5. CASE \E s \in Servers : Rekey(s) /\ UNCHANGED keyVars
  <2>1. \A n \in Slots : slot[n] \in Keys \/ slot'[n] \in Keys => slot'[n] = slot[n]
    BY <1>5, RekeySlots, Kinds
  <2>2. UNCHANGED <<keyfile, glitch, enrolled, pc>>
    BY <1>5 DEF Rekey, keyVars
  <2> QED BY <2>1, <2>2, KeyFrame DEF SlotInv, KeyInv
<1>6. CASE UNCHANGED vars
  BY <1>6, KeyFrame DEF vars, hostVars, keyVars, SlotInv, KeyInv
<1> QED BY <1>1, <1>2, <1>3, <1>4, <1>5, <1>6 DEF Next

\* The key of a fallback keyslot is never destroyed before the slot, provided
\* no key test fails by itself.
THEOREM FallbackKeyOutlivesSlot == Glitches = 0 => (Spec => []FallbackKeyKept)
<1> SUFFICES ASSUME Glitches = 0 PROVE Spec => []FallbackKeyKept
  OBVIOUS
<1>1. Init => KeyInv
  BY KeyInit
<1>2. SlotInv /\ KeyInv /\ [Next]_vars => KeyInv'
  BY KeyNext
<1>3. KeyInv => FallbackKeyKept
  BY DEF KeyInv
<1> QED BY <1>1, <1>2, <1>3, RoleInvariant, PTL DEF Spec

\* The header keeps a keyslot and, if no key test fails by itself, the fallback
\* key outlives its slot.
THEOREM KeysAlwaysRemain == Spec => []KeysRemain
<1>1. CASE Glitches = 0
  <2>1. KeyslotRemains /\ FallbackKeyKept => KeysRemain
    BY DEF KeysRemain
  <2> QED BY <1>1, <2>1, KeyslotAlwaysRemains, FallbackKeyOutlivesSlot, PTL
<1>2. CASE Glitches # 0
  <2>1. KeyslotRemains => KeysRemain
    BY <1>2 DEF KeysRemain
  <2> QED BY <2>1, KeyslotAlwaysRemains, PTL
<1> QED BY <1>1, <1>2


-----------------------------------------------------------------------------
(* A run that ends well repairs what earlier runs were stopped at. *)

\* The bindings of the host are the wanted ones: one is there, and none of the
\* others is drift.
Drifted(n) == slot[n].pin = "sss" /\ slot[n].urls # {} /\ ~Wanted(slot[n])
Repaired == /\ \E n \in Clevis : Wanted(slot[n])
            /\ \A n \in Clevis : ~Drifted(n)

TangTasks == {"list", "reach", "bind", "bindfailed", "verify", "test", "retire",
              "net", "rebuild", "checknet"}
BindTasks == TangTasks \ {"net", "rebuild", "checknet"}

\* A run is beyond these tasks, or it has ended well.
Beyond(tasks) == Finished \/ pc \notin tasks \cup {"idle"}

\* Only what is registered as stale drifts while it is retired; what the tang
\* tasks have put right stays so through the keyfile tasks.
DriftInv ==
    /\ pc \in {"test", "retire"} => \A n \in Clevis : Drifted(n) => n \in stale
    /\ TangRun /\ Beyond(BindTasks) => Repaired
    /\ TangRun /\ Beyond(BindTasks \cup {"net"}) => etc.net
    /\ TangRun /\ Beyond(TangTasks) /\ Dracut => initrd.net

Installing == {"keygen", "enrolled", "enrol", "bootcopy", "conf", "module",
               "krebuild", "checkkey"}
TearingDown == {"dropmodule", "droprebuild", "still", "count", "remove", "dropboot",
                "dropfiles", "filesrebuild", "shred"}

\* The tasks of the keyfile part are behind the run.
KeyfileOver == Finished \/ pc \in {"tang", "teardown", "untang"}

InstallInv ==
    /\ pc \in Installing => opt.key = "install"
    /\ pc = "enrol" /\ enrolled => Fits
    /\ opt.key = "install" =>
        /\ KeyfileOver \/ pc \in {"bootcopy", "conf", "module", "krebuild", "checkkey"} => Fits
        /\ KeyfileOver \/ pc \in {"conf", "module", "krebuild", "checkkey"} => bootcopy = BootCopy
        /\ KeyfileOver \/ pc \in {"module", "krebuild", "checkkey"} =>
                etc.conf = IF opt.boot THEN "boot" ELSE "usb"
        /\ KeyfileOver \/ pc \in {"krebuild", "checkkey"} => etc.mod

TeardownInv ==
    /\ pc \in TearingDown => opt.key = "teardown"
    /\ pc \in TearingDown \ {"dropmodule"} => (Dracut => ~etc.mod)
    /\ opt.key = "teardown" =>
        /\ KeyfileOver \/ pc \in {"dropfiles", "filesrebuild", "shred"} => bootcopy = Absent
        /\ KeyfileOver \/ pc \in {"filesrebuild", "shred"} => ~etc.mod /\ etc.conf = "none"
        /\ KeyfileOver => keyfile = Absent

RepairInv == DriftInv /\ InstallInv /\ TeardownInv

\* The bindings stay what they are, whichever servers still know them.
SameBindings ==
    /\ \A n \in Slots : slot'[n] \in Binding <=> slot[n] \in Binding
    /\ \A n \in Clevis : /\ slot'[n].pin = slot[n].pin /\ slot'[n].mixed = slot[n].mixed
                         /\ slot'[n].t = slot[n].t /\ slot'[n].urls = slot[n].urls
    /\ want' = want

\* The keyslots of fallback keys stay what they are.
SameKeys ==
    /\ \A n \in Slots : slot[n] \in Keys \/ slot'[n] \in Keys => slot'[n] = slot[n]
    /\ keyfile' = keyfile

LEMMA SameBindingsKeep ==
    ASSUME SameBindings
    PROVE  /\ Clevis' = Clevis
           /\ \A n \in Clevis : Wanted(slot[n])' = Wanted(slot[n])
           /\ \A n \in Clevis : Drifted(n)' = Drifted(n)
           /\ Repaired' = Repaired
<1>1. Clevis' = Clevis
  BY DEF SameBindings, Clevis
<1>2. \A n \in Clevis : Wanted(slot[n])' = Wanted(slot[n])
  BY DEF SameBindings, Wanted
<1>3. \A n \in Clevis : Drifted(n)' = Drifted(n)
  BY <1>2 DEF SameBindings, Drifted
<1> QED
  BY <1>1, <1>2, <1>3 DEF Repaired

LEMMA SameKeysKeep ==
    ASSUME TypeOK, SameKeys PROVE Fits' = Fits
<1>1. keyfile \in Keys => Holding(keyfile)' = Holding(keyfile)
  BY DEF SameKeys, Holding
<1> QED
  BY <1>1 DEF Fits, SameKeys, TypeOK, HeaderTypeOK

LEMMA SlotUnchanged ==
    ASSUME UNCHANGED <<slot, want, keyfile>> PROVE SameBindings /\ SameKeys
BY DEF SameBindings, SameKeys, Clevis

LEMMA RekeySame ==
    ASSUME NEW s \in Servers, Rekey(s), UNCHANGED want, SlotInv
    PROVE  SameBindings /\ SameKeys
<1>1. \A n \in Slots : slot'[n] = IF slot[n] \in Binding THEN [slot[n] EXCEPT !.live = @ \ {s}] ELSE slot[n]
  BY DEF Rekey
<1>2. ASSUME NEW n \in Slots, slot[n] \in Binding
      PROVE  /\ slot'[n] \in Binding
             /\ slot'[n].pin = slot[n].pin /\ slot'[n].mixed = slot[n].mixed
             /\ slot'[n].t = slot[n].t /\ slot'[n].urls = slot[n].urls
  <2>1. slot'[n] = [slot[n] EXCEPT !.live = @ \ {s}]
    BY <1>1, <1>2
  <2>2. slot'[n] \in Binding
    BY <1>2, RekeySlots
  <2>3. slot[n] = [pin |-> slot[n].pin, mixed |-> slot[n].mixed, t |-> slot[n].t,
                   urls |-> slot[n].urls, live |-> slot[n].live]
    BY <1>2 DEF Binding
  <2> QED
    BY <2>1, <2>2, <2>3
<1>3. \A n \in Slots : slot[n] \notin Binding => slot'[n] = slot[n]
  BY <1>1
<1>4. keyfile' = keyfile
  BY DEF Rekey
<1> QED
  BY <1>2, <1>3, <1>4, Kinds DEF SameBindings, SameKeys, Clevis

\* The keyfile tasks touch no binding.
LEMMA KeyStepSame ==
    ASSUME SlotInv, KeyStep, UNCHANGED want
    PROVE  SameBindings
<1>1. CASE UNCHANGED slot
  BY <1>1 DEF SameBindings
<1>2. CASE AddKey
  <2>1. keyfile \in Keys
    BY <1>2 DEF AddKey, SlotInv, HasKey, TypeOK, HeaderTypeOK
  <2>2. \A n \in Slots : slot'[n] = slot[n] \/ (slot[n] = Free /\ slot'[n] = keyfile)
    BY <1>2 DEF AddKey, Put, Used, SlotInv, TypeOK, HeaderTypeOK
  <2> QED
    BY <2>1, <2>2, Kinds DEF SameBindings, Clevis
<1>3. CASE RemoveSlot
  <2>1. enrolled => keyfile \in Keys
    BY <1>3 DEF RemoveSlot, SlotInv, HasKey, TypeOK, HeaderTypeOK
  <2>2. \A n \in Slots : slot'[n] = slot[n] \/ (enrolled /\ slot[n] = keyfile /\ slot'[n] = Free)
    BY <1>3 DEF RemoveSlot, Unbind, Put, Holding, SlotInv, TypeOK, HeaderTypeOK
  <2> QED
    BY <2>1, <2>2, Kinds DEF SameBindings, Clevis
<1> QED
  BY <1>1, <1>2, <1>3 DEF KeyStep, GenerateKey, CheckEnrolled, CopyToBoot, DeployConf, DeployModule,
     KeyRebuild, CheckKey, DropModule, DropRebuild, CheckStillEnrolled, RefuseLast, DropBoot, DropFiles,
     FilesRebuild, Shred, hostVars

\* A slot that is bound or unbound holds no fallback key.
LEMMA TangStepSame ==
    ASSUME SlotInv, TangStep
    PROVE  SameKeys
<1>1. keyfile' = keyfile
  BY DEF TangStep, ListBindings, CheckServers, Bind, BindHalf, Verify, TestUnlock,
     Retire, DeployNet, Rebuild, CheckNet, CollectTang, UnbindTang, hostVars
<1>2. CASE UNCHANGED slot
  BY <1>1, <1>2 DEF SameKeys
<1>3. CASE Bind \/ BindHalf
  <2>1. NewBinding \in Binding
    BY DEF SlotInv, TypeOK, TangTypeOK, Want, NewBinding, Binding
  <2> QED
    BY <1>1, <1>3, <2>1, Kinds DEF SameKeys, SlotInv, TypeOK, HeaderTypeOK, Bind, BindHalf, Put, Used
<1>4. CASE Retire \/ UnbindTang
  <2>1. \A S : S \subseteq Clevis /\ S # {} => First(S) \in Clevis
    BY FirstIn DEF Clevis
  <2>2. \E n \in Clevis : slot' = [slot EXCEPT ![n] = Free]
    BY <1>4, <2>1 DEF SlotInv, TypeOK, TangTypeOK, Retire, UnbindTang, Unbind, Put
  <2> QED
    BY <1>1, <2>2, Kinds DEF SameKeys, SlotInv, TypeOK, HeaderTypeOK, Clevis
<1> QED
  BY <1>2, <1>3, <1>4 DEF TangStep, ListBindings, CheckServers, Verify, TestUnlock,
     DeployNet, Rebuild, CheckNet, CollectTang, hostVars

LEMMA RepairStart == Init => RepairInv
BY DEF Init, RepairInv, DriftInv, InstallInv, TeardownInv, Beyond, Finished, KeyfileOver,
   Installing, TearingDown

-----------------------------------------------------------------------------
(* Bindings and network *)

\* Up to the listing that must succeed nothing is claimed.
LEMMA BindDrift ==
    ASSUME ListBindings \/ CheckServers \/ Bind \/ BindHalf PROVE DriftInv'
<1>1. pc' \in {"reach", "bind", "bindfailed", "verify"}
  BY DEF ListBindings, CheckServers, Bind, BindHalf
<1> QED
  BY <1>1 DEF DriftInv, Beyond, Finished, BindTasks, TangTasks

LEMMA VerifyDrift == ASSUME SlotInv, Verify PROVE DriftInv'
<1>1. /\ UNCHANGED <<slot, want>>
      /\ stale' = {n \in Clevis : Drifted(n)}
      /\ \E n \in Clevis : Wanted(slot[n])
      /\ pc' = IF stale' = {} THEN "net" ELSE "test"
  BY DEF Verify, hostVars, Matching, Stale, Drifted
<1>2. Clevis' = Clevis /\ \A n \in Clevis : Drifted(n)' = Drifted(n) /\ Wanted(slot[n])' = Wanted(slot[n])
  BY <1>1 DEF Clevis, Drifted, Wanted
<1>3. CASE stale' = {}
  <2>1. Repaired'
    BY <1>1, <1>2, <1>3 DEF Repaired
  <2> QED
    BY <1>1, <1>3, <2>1 DEF DriftInv, Beyond, Finished, BindTasks, TangTasks
<1>4. CASE stale' # {}
  BY <1>1, <1>2, <1>4 DEF DriftInv, Beyond, Finished, BindTasks, TangTasks
<1> QED
  BY <1>3, <1>4

LEMMA TestDrift == ASSUME DriftInv, TestUnlock PROVE DriftInv'
<1>1. pc = "test" /\ pc' = "retire" /\ UNCHANGED <<slot, want, stale, keyfile>>
  BY DEF TestUnlock, hostVars
<1>2. Clevis' = Clevis /\ \A n \in Clevis : Drifted(n)' = Drifted(n)
  BY <1>1, SlotUnchanged, SameBindingsKeep
<1> QED
  BY <1>1, <1>2 DEF DriftInv, Beyond, Finished, BindTasks, TangTasks

\* What is unbound is registered as stale; the registered match stays.
LEMMA RetireDrift == ASSUME SlotInv, DriftInv, Retire PROVE DriftInv'
<1>1. /\ pc = "retire" /\ want' = want /\ stale' = stale \ {First(stale)}
      /\ slot' = [slot EXCEPT ![First(stale)] = Free]
      /\ pc' = IF stale' = {} THEN "net" ELSE "retire"
  BY DEF Retire, Unbind, Put, Rest
<1>2. First(stale) \in stale /\ First(stale) \notin match
  BY FirstIn DEF SlotInv, TypeOK, TangTypeOK, Registered, Retire, Clevis
<1>3. ASSUME NEW n \in Clevis'
      PROVE  n \in Clevis /\ n # First(stale) /\ slot'[n] = slot[n]
  BY <1>1, <1>2, Kinds DEF Clevis, SlotInv, TypeOK, HeaderTypeOK
<1>4. \A n \in Clevis' : Drifted(n)' => n \in stale'
  BY <1>1, <1>3 DEF DriftInv, Drifted, Wanted
<1>5. \E n \in Clevis' : Wanted(slot[n])'
  <2>1. PICK n \in match : TRUE
    BY <1>1 DEF SlotInv, Registered
  <2>2. n \in Clevis /\ Wanted(slot[n]) /\ n # First(stale)
    BY <1>2 DEF SlotInv, TypeOK, TangTypeOK, Registered
  <2>3. slot'[n] = slot[n]
    BY <1>1, <2>2 DEF Clevis, SlotInv, TypeOK, HeaderTypeOK
  <2> QED
    BY <1>1, <2>2, <2>3 DEF Clevis, Wanted
<1>6. CASE stale' = {}
  BY <1>1, <1>4, <1>5, <1>6 DEF DriftInv, Beyond, Finished, BindTasks, TangTasks, Repaired
<1>7. CASE stale' # {}
  BY <1>1, <1>4, <1>7 DEF DriftInv, Beyond, Finished, BindTasks, TangTasks
<1> QED
  BY <1>6, <1>7

LEMMA NetDrift == ASSUME SlotInv, DriftInv, DeployNet \/ Rebuild \/ CheckNet PROVE DriftInv'
<1>1. UNCHANGED <<slot, want, opt, keyfile, ended>>
  BY DEF DeployNet, Rebuild, CheckNet, hostVars
<1>2. Repaired' = Repaired /\ TangRun' = TangRun
  BY <1>1, SlotUnchanged, SameBindingsKeep DEF TangRun, WantsTang
<1>3. pc \in {"net", "rebuild", "checknet"} /\ pc' \in {"rebuild", "checknet", "keyfile"}
  BY DEF DeployNet, Rebuild, CheckNet
<1>4. TangRun' => Repaired'
  BY <1>2, <1>3 DEF DriftInv, Beyond, BindTasks, TangTasks
<1>5. TangRun' => etc'.net
  BY <1>2 DEF DeployNet, Rebuild, CheckNet, hostVars, DriftInv, Beyond, BindTasks, TangTasks,
     SlotInv, TypeOK, HeaderTypeOK, Etc
<1>6. pc' = "keyfile" /\ Dracut' => initrd'.net
  BY DEF DeployNet, Rebuild, CheckNet, NetPresent, hostVars, Dracut
<1> QED
  BY <1>3, <1>4, <1>5, <1>6 DEF DriftInv, Beyond, Finished, BindTasks, TangTasks

\* The tang teardown is refused to a run that wants tang.
LEMMA TeardownDrift == ASSUME SlotInv, CollectTang \/ UnbindTang PROVE DriftInv'
<1>1. ~WantsTang /\ pc' = "untang" /\ UNCHANGED <<want, opt>>
  BY DEF CollectTang, UnbindTang, SlotInv, Registered
<1> QED
  BY <1>1 DEF DriftInv, TangRun, WantsTang

LEMMA KeyStepDrift == ASSUME SlotInv, DriftInv, KeyStep, UNCHANGED <<want, tangVars>> PROVE DriftInv'
<1>1. SameBindings
  BY KeyStepSame
<1>2. Repaired' = Repaired
  BY <1>1, SameBindingsKeep
<1>3. UNCHANGED <<opt, ended>> /\ TangRun' = TangRun
  BY DEF KeyStep, GenerateKey, CheckEnrolled, AddKey, CopyToBoot, DeployConf, DeployModule,
     KeyRebuild, CheckKey, DropModule, DropRebuild, CheckStillEnrolled, RefuseLast, RemoveSlot,
     DropBoot, DropFiles, FilesRebuild, Shred, TangRun, WantsTang
<1>4. pc \notin TangTasks \cup {"idle"} /\ pc' \notin TangTasks \cup {"idle"}
  BY DEF KeyStep, GenerateKey, CheckEnrolled, AddKey, CopyToBoot, DeployConf, DeployModule,
     KeyRebuild, CheckKey, DropModule, DropRebuild, CheckStillEnrolled, RefuseLast, RemoveSlot,
     DropBoot, DropFiles, FilesRebuild, Shred, TangTasks
<1>5. etc'.net = etc.net /\ etc'.dracut = etc.dracut /\ initrd'.net \in {initrd.net, etc.net}
  <2>1. etc \in Etc
    BY DEF SlotInv, TypeOK, HeaderTypeOK
  <2>2. CASE UNCHANGED <<etc, initrd>>
    BY <2>2
  <2>3. CASE DeployConf \/ DeployModule \/ DropModule \/ DropFiles
    BY <2>1, <2>3 DEF DeployConf, DeployModule, DropModule, DropFiles, Etc
  <2>4. CASE KeyRebuild \/ DropRebuild \/ FilesRebuild
    BY <2>4 DEF KeyRebuild, DropRebuild, FilesRebuild, RebuildIfChanged, Build
  <2> QED
    BY <2>2, <2>3, <2>4 DEF KeyStep, GenerateKey, CheckEnrolled, AddKey, CopyToBoot, CheckKey,
       CheckStillEnrolled, RefuseLast, RemoveSlot, DropBoot, Shred, hostVars
<1> QED
  BY <1>2, <1>3, <1>4, <1>5 DEF DriftInv, Beyond, Finished, BindTasks, TangTasks, Dracut

LEMMA RunDrift ==
    ASSUME SlotInv, DriftInv, StartRun \/ StartKeyfile \/ StartTeardown \/ Finish \/ Abort
    PROVE  DriftInv'
<1>1. UNCHANGED <<slot, keyfile, etc, initrd>>
  BY DEF StartRun, StartKeyfile, StartTeardown, Finish, Abort, hostVars
<1>2. CASE StartRun
  <2>1. pc' \in {"list", "keyfile"} /\ (pc' = "keyfile" => ~TangRun')
    BY <1>2 DEF StartRun, TangRun, WantsTang
  <2> QED
    BY <2>1 DEF DriftInv, Beyond, Finished, BindTasks, TangTasks
<1>3. CASE Abort
  BY <1>3 DEF Abort, EndRun, DriftInv, Beyond, Finished
<1>4. CASE StartKeyfile \/ StartTeardown \/ Finish
  <2>1. UNCHANGED <<opt, want>>
    BY <1>4 DEF StartKeyfile, StartTeardown, Finish
  <2>2. pc \notin TangTasks \cup {"idle"} /\ pc' \notin TangTasks
    BY <1>4 DEF StartKeyfile, StartTeardown, Finish, EndRun, TangTasks, SlotInv, TypeOK, HeaderTypeOK, Options
  <2>3. Repaired' = Repaired /\ TangRun' = TangRun
    BY <1>1, <2>1, SlotUnchanged, SameBindingsKeep DEF TangRun, WantsTang
  <2> QED
    BY <1>1, <2>2, <2>3 DEF DriftInv, Beyond, BindTasks, TangTasks, Dracut
<1> QED
  BY <1>2, <1>3, <1>4

LEMMA DriftFrame ==
    ASSUME DriftInv, SameBindings, UNCHANGED <<pc, ended, opt, stale, etc, initrd>>
    PROVE  DriftInv'
<1>1. /\ Clevis' = Clevis /\ \A n \in Clevis : Drifted(n)' = Drifted(n)
      /\ Repaired' = Repaired /\ TangRun' = TangRun
  BY SameBindingsKeep DEF SameBindings, TangRun, WantsTang
<1> QED
  BY <1>1 DEF DriftInv, Beyond, Finished, Dracut

LEMMA DriftStep == SlotInv /\ DriftInv /\ [Next]_vars => DriftInv'
<1> SUFFICES ASSUME SlotInv, DriftInv, [Next]_vars PROVE DriftInv'
  OBVIOUS
<1>1. CASE TangStep
  BY <1>1, BindDrift, VerifyDrift, TestDrift, RetireDrift, NetDrift, TeardownDrift DEF TangStep
<1>2. CASE KeyStep /\ UNCHANGED <<want, tangVars>>
  BY <1>2, KeyStepDrift
<1>3. CASE StartRun \/ StartKeyfile \/ StartTeardown \/ Finish \/ Abort
  BY <1>3, RunDrift
<1>4. ASSUME NEW s \in Servers, Reach(s) \/ Rekey(s), UNCHANGED <<want, tangVars>>
      PROVE  DriftInv'
  <2>1. SameBindings
    BY <1>4, RekeySame, SlotUnchanged DEF Reach, hostVars, SlotInv
  <2> QED
    BY <1>4, <2>1, DriftFrame DEF Reach, Rekey, hostVars, tangVars
<1>5. CASE UNCHANGED vars
  <2>1. SameBindings
    BY <1>5, SlotUnchanged DEF vars, hostVars
  <2> QED
    BY <1>5, <2>1, DriftFrame DEF vars, hostVars, tangVars
<1> QED
  BY <1>1, <1>2, <1>3, <1>4, <1>5 DEF Next


-----------------------------------------------------------------------------
(* The keyfile tasks *)

\* Where the keyfile tasks stand is not disturbed.
LEMMA KeyfileFrame ==
    ASSUME SlotInv, InstallInv, TeardownInv, SameKeys, UNCHANGED <<opt, etc, bootcopy>>,
           \/ UNCHANGED <<pc, ended, enrolled>>
           \/ pc' \notin Installing \cup TearingDown /\ ~KeyfileOver'
           \/ pc' \notin Installing \cup TearingDown /\ KeyfileOver
    PROVE  InstallInv' /\ TeardownInv'
<1>1. Fits' = Fits /\ keyfile' = keyfile
  BY SameKeysKeep DEF SlotInv, SameKeys
<1>2. CASE UNCHANGED <<pc, ended, enrolled>>
  BY <1>1, <1>2 DEF InstallInv, TeardownInv, KeyfileOver, Finished, BootCopy, Dracut
<1>3. CASE pc' \notin Installing \cup TearingDown /\ ~KeyfileOver'
  BY <1>3 DEF InstallInv, TeardownInv, Installing, TearingDown
<1>4. CASE pc' \notin Installing \cup TearingDown /\ KeyfileOver
  BY <1>1, <1>4 DEF InstallInv, TeardownInv, Installing, TearingDown, BootCopy
<1> QED
  BY <1>2, <1>3, <1>4

LEMMA TangKeepsKeyfile ==
    ASSUME SlotInv, InstallInv, TeardownInv, TangStep PROVE InstallInv' /\ TeardownInv'
<1>1. SameKeys
  BY TangStepSame
<1>2. UNCHANGED <<opt, bootcopy>>
  BY DEF TangStep, ListBindings, CheckServers, Bind, BindHalf, Verify, TestUnlock,
     Retire, DeployNet, Rebuild, CheckNet, CollectTang, UnbindTang, hostVars
<1>3. CASE DeployNet
  <2>1. pc' = "rebuild"
    BY <1>3 DEF DeployNet
  <2> QED
    BY <2>1 DEF InstallInv, TeardownInv, Installing, TearingDown, KeyfileOver, Finished
<1>4. CASE CollectTang \/ UnbindTang
  <2>1. etc' = etc /\ KeyfileOver /\ pc' = "untang"
    BY <1>4 DEF CollectTang, UnbindTang, hostVars, KeyfileOver
  <2> QED
    BY <1>1, <1>2, <2>1, KeyfileFrame DEF Installing, TearingDown
<1>5. CASE ListBindings \/ CheckServers \/ Bind \/ BindHalf \/ Verify \/ TestUnlock \/ Retire
           \/ Rebuild \/ CheckNet
  <2>1. etc' = etc /\ pc' \in TangTasks \cup {"keyfile"}
    BY <1>5 DEF ListBindings, CheckServers, Bind, BindHalf, Verify, TestUnlock,
       Retire, Rebuild, CheckNet, hostVars, TangTasks
  <2>2. pc' \notin Installing \cup TearingDown /\ ~KeyfileOver'
    BY <2>1 DEF TangTasks, Installing, TearingDown, KeyfileOver, Finished
  <2> QED
    BY <1>1, <1>2, <2>1, <2>2, KeyfileFrame
<1> QED
  BY <1>3, <1>4, <1>5 DEF TangStep

\* An accepted key needs no slot; one that is not accepted gets it.
LEMMA InstallSteps ==
    ASSUME SlotInv, InstallInv, TeardownInv,
           GenerateKey \/ CheckEnrolled \/ AddKey \/ CopyToBoot \/ DeployConf \/ DeployModule
           \/ KeyRebuild \/ CheckKey
    PROVE  InstallInv' /\ TeardownInv'
<1>1. pc \in Installing /\ opt' = opt /\ opt.key = "install"
  BY DEF GenerateKey, CheckEnrolled, AddKey, CopyToBoot, DeployConf, DeployModule, KeyRebuild, CheckKey,
     hostVars, InstallInv, Installing
<1>2. pc' \in Installing \cup {"tang"}
  BY DEF GenerateKey, CheckEnrolled, AddKey, CopyToBoot, DeployConf, DeployModule, KeyRebuild, CheckKey,
     Installing
<1>3. TeardownInv'
  BY <1>1, <1>2 DEF TeardownInv, Installing, TearingDown
<1>4. CASE GenerateKey
  <2>1. pc' = "enrolled"
    BY <1>4 DEF GenerateKey
  <2> QED
    BY <1>1, <1>3, <2>1 DEF InstallInv, Installing, KeyfileOver, Finished
<1>5. CASE CheckEnrolled
  <2>1. enrolled' => Fits
    BY <1>5 DEF CheckEnrolled, TestKeyfile
  <2>2. Fits' = Fits
    BY <1>5, SameKeysKeep DEF CheckEnrolled, hostVars, SameKeys, SlotInv
  <2> QED
    BY <1>1, <1>3, <1>5, <2>1, <2>2 DEF CheckEnrolled, InstallInv, Installing, KeyfileOver, Finished
<1>6. CASE AddKey
  <2>1. pc = "enrol" /\ pc' = "bootcopy" /\ keyfile' = keyfile /\ keyfile # Absent
    BY <1>6 DEF AddKey, SlotInv, HasKey
  <2>2. CASE NeedsSlot
    <3>1. PICK n \in Slots \ Used : slot' = [slot EXCEPT ![n] = keyfile]
      BY <1>6, <2>2 DEF AddKey, Put
    <3>2. slot'[n] = keyfile
      BY <3>1 DEF SlotInv, TypeOK, HeaderTypeOK
    <3> QED
      BY <1>1, <1>3, <2>1, <3>2 DEF InstallInv, Installing, KeyfileOver, Finished, Fits, Holding
  <2>3. CASE ~NeedsSlot
    <3>1. Fits' = Fits
      BY <1>6, <2>3, SameKeysKeep DEF AddKey, SameKeys, SlotInv
    <3>2. Fits
      BY <2>1, <2>3 DEF NeedsSlot, InstallInv
    <3> QED
      BY <1>1, <1>3, <2>1, <3>1, <3>2 DEF InstallInv, Installing, KeyfileOver, Finished
  <2> QED
    BY <2>2, <2>3
<1>7. CASE CopyToBoot \/ DeployConf \/ DeployModule \/ KeyRebuild \/ CheckKey
  <2>1. UNCHANGED <<slot, keyfile>>
    BY <1>7 DEF CopyToBoot, DeployConf, DeployModule, KeyRebuild, CheckKey, hostVars
  <2>2. Fits' /\ pc' # "enrol"
    BY <1>1, <1>7, <2>1, SameKeysKeep
       DEF SameKeys, SlotInv, InstallInv, CopyToBoot, DeployConf, DeployModule, KeyRebuild, CheckKey
  <2>3. etc \in Etc
    BY DEF SlotInv, TypeOK, HeaderTypeOK
  <2>4. pc' # "conf" => bootcopy' = BootCopy
    BY <1>1, <1>7 DEF CopyToBoot, DeployConf, DeployModule, KeyRebuild, CheckKey, hostVars, InstallInv
  <2>5. bootcopy' = BootCopy'
    <3>1. bootcopy' = BootCopy
      BY <1>7, <2>4 DEF CopyToBoot, DeployConf, DeployModule, KeyRebuild, CheckKey
    <3> QED
      BY <1>1, <2>1, <3>1 DEF BootCopy
  <2>6. pc' \in {"module", "krebuild", "checkkey", "tang"} => etc'.conf = IF opt.boot THEN "boot" ELSE "usb"
    BY <1>1, <1>7, <2>3
       DEF CopyToBoot, DeployConf, DeployModule, KeyRebuild, CheckKey, hostVars, InstallInv, Etc
  <2>7. pc' \in {"krebuild", "checkkey", "tang"} => etc'.mod
    BY <1>1, <1>7, <2>3
       DEF CopyToBoot, DeployConf, DeployModule, KeyRebuild, CheckKey, hostVars, InstallInv, Etc
  <2>8. pc' \in {"conf", "module", "krebuild", "checkkey", "tang"}
    BY <1>7 DEF CopyToBoot, DeployConf, DeployModule, KeyRebuild, CheckKey
  <2> QED
    BY <1>1, <1>3, <2>2, <2>5, <2>6, <2>7, <2>8 DEF InstallInv, Installing, KeyfileOver, Finished
<1> QED
  BY <1>4, <1>5, <1>6, <1>7

\* The teardown takes the module, the boot copy, the configuration and the key,
\* whether or not its key test found the slot.
LEMMA TeardownSteps ==
    ASSUME SlotInv, InstallInv, TeardownInv,
           DropModule \/ DropRebuild \/ CheckStillEnrolled \/ RefuseLast \/ RemoveSlot \/ DropBoot
           \/ DropFiles \/ FilesRebuild \/ Shred
    PROVE  InstallInv' /\ TeardownInv'
<1>1. pc \in TearingDown /\ opt' = opt /\ opt.key = "teardown" /\ ended' = ended
  BY DEF DropModule, DropRebuild, CheckStillEnrolled, RefuseLast, RemoveSlot, DropBoot, DropFiles,
     FilesRebuild, Shred, hostVars, TeardownInv, TearingDown
<1>2. pc' \in (TearingDown \ {"dropmodule"}) \cup {"tang"}
  BY DEF DropModule, DropRebuild, CheckStillEnrolled, RefuseLast, RemoveSlot, DropBoot, DropFiles,
     FilesRebuild, Shred, TearingDown
<1>3. InstallInv'
  BY <1>1, <1>2 DEF InstallInv, Installing, TearingDown
<1>4. etc \in Etc
  BY DEF SlotInv, TypeOK, HeaderTypeOK
<1>5. etc'.dracut = etc.dracut /\ (etc.dracut => ~etc'.mod)
  BY <1>1, <1>4 DEF DropModule, DropRebuild, CheckStillEnrolled, RefuseLast, RemoveSlot, DropBoot, DropFiles,
     FilesRebuild, Shred, hostVars, TeardownInv, TearingDown, Dracut, Etc
<1>6. pc' \in {"dropfiles", "filesrebuild", "shred", "tang"} => bootcopy' = Absent
  BY <1>1 DEF DropModule, DropRebuild, CheckStillEnrolled, RefuseLast, RemoveSlot, DropBoot, DropFiles,
     FilesRebuild, Shred, hostVars, TeardownInv
<1>7. pc' \in {"filesrebuild", "shred", "tang"} => ~etc'.mod /\ etc'.conf = "none"
  <2>1. CASE DropFiles
    BY <1>1, <1>4, <2>1 DEF DropFiles, TeardownInv, TearingDown, Dracut, Etc
  <2>2. CASE FilesRebuild \/ Shred
    BY <1>1, <2>2 DEF FilesRebuild, Shred, hostVars, TeardownInv
  <2> QED
    BY <2>1, <2>2 DEF DropModule, DropRebuild, CheckStillEnrolled, RefuseLast, RemoveSlot, DropBoot
<1>8. pc' = "tang" => keyfile' = Absent
  BY DEF DropModule, DropRebuild, CheckStillEnrolled, RefuseLast, RemoveSlot, DropBoot, DropFiles,
     FilesRebuild, Shred
<1> QED
  BY <1>1, <1>2, <1>3, <1>5, <1>6, <1>7, <1>8 DEF TeardownInv, TearingDown, KeyfileOver, Finished, Dracut

LEMMA RunKeepsKeyfile ==
    ASSUME SlotInv, InstallInv, TeardownInv,
           StartRun \/ StartKeyfile \/ StartTeardown \/ Finish \/ Abort
    PROVE  InstallInv' /\ TeardownInv'
<1>1. UNCHANGED <<slot, keyfile, etc, bootcopy>>
  BY DEF StartRun, StartKeyfile, StartTeardown, Finish, Abort, hostVars
<1>2. SameKeys
  BY <1>1 DEF SameKeys
<1>3. CASE StartRun
  <2>1. pc' \in {"list", "keyfile"}
    BY <1>3 DEF StartRun
  <2> QED
    BY <2>1 DEF InstallInv, TeardownInv, Installing, TearingDown, KeyfileOver, Finished
<1>4. CASE Abort
  BY <1>4 DEF Abort, EndRun, InstallInv, TeardownInv, Installing, TearingDown, KeyfileOver, Finished
<1>5. CASE StartTeardown \/ Finish
  <2>1. KeyfileOver /\ pc' \in {"teardown", "idle"} /\ opt' = opt
    BY <1>5 DEF StartTeardown, Finish, EndRun, KeyfileOver
  <2> QED
    BY <1>1, <1>2, <2>1, KeyfileFrame DEF Installing, TearingDown
<1>6. CASE StartKeyfile
  <2>1. opt' = opt /\ \/ opt.key = "off" /\ pc' = "tang"
                      \/ opt.key = "install" /\ pc' = "keygen"
                      \/ opt.key = "teardown" /\ pc' = "dropmodule"
    BY <1>6 DEF StartKeyfile, SlotInv, TypeOK, HeaderTypeOK, Options
  <2> QED
    BY <2>1 DEF InstallInv, TeardownInv, Installing, TearingDown, KeyfileOver, Finished
<1> QED
  BY <1>3, <1>4, <1>5, <1>6

LEMMA KeyfileStep == SlotInv /\ InstallInv /\ TeardownInv /\ [Next]_vars => InstallInv' /\ TeardownInv'
<1> SUFFICES ASSUME SlotInv, InstallInv, TeardownInv, [Next]_vars PROVE InstallInv' /\ TeardownInv'
  OBVIOUS
<1>1. CASE TangStep
  BY <1>1, TangKeepsKeyfile
<1>2. CASE KeyStep
  BY <1>2, InstallSteps, TeardownSteps DEF KeyStep
<1>3. CASE StartRun \/ StartKeyfile \/ StartTeardown \/ Finish \/ Abort
  BY <1>3, RunKeepsKeyfile
<1>4. ASSUME NEW s \in Servers, Reach(s) \/ Rekey(s), UNCHANGED <<want, tangVars, keyVars>>
      PROVE  InstallInv' /\ TeardownInv'
  <2>1. SameKeys
    BY <1>4, RekeySame, SlotUnchanged DEF Reach, hostVars, SlotInv
  <2> QED
    BY <1>4, <2>1, KeyfileFrame DEF Reach, Rekey, hostVars, keyVars
<1>5. CASE UNCHANGED vars
  <2>1. SameKeys
    BY <1>5, SlotUnchanged DEF vars, hostVars
  <2> QED
    BY <1>5, <2>1, KeyfileFrame DEF vars, hostVars, keyVars
<1> QED
  BY <1>1, <1>2, <1>3, <1>4, <1>5 DEF Next

\* The invariant behind the repairs: how far each run has come with its binding,
\* its key and its initrd (the tasks of roles/clevis, in their order).
THEOREM RepairInvariant == Spec => []RepairInv
<1>1. SlotInv /\ RepairInv /\ [Next]_vars => RepairInv'
  BY DriftStep, KeyfileStep DEF RepairInv
<1> QED BY <1>1, RepairStart, RoleInvariant, PTL DEF Spec

\* A tang run that ends well leaves a wanted binding, no drifted one and, on
\* dracut, an initrd with the network, whatever earlier runs were stopped at
\* and however key tests fail.
THEOREM DriftIsRepaired == Spec => [](DriftRepaired /\ InitrdVerified)
<1>1. RepairInv => DriftRepaired /\ InitrdVerified
  BY DEF RepairInv, DriftInv, Beyond, DriftRepaired, InitrdVerified, Repaired, Drifted
<1> QED BY <1>1, RepairInvariant, PTL

\* What a run that ends well leaves is what its variables say; that a torn down
\* key has no slot left needs key tests that do not fail by themselves.
THEOREM RunsDoRepair == Glitches = 0 => (Spec => []RunsRepair)
<1> SUFFICES ASSUME Glitches = 0 PROVE Spec => []RunsRepair
  OBVIOUS
<1>1. ASSUME RepairInv, FallbackKeyKept PROVE RunsRepair
  <2>1. KeyfileRunComplete
    BY <1>1, HeaderAssumption
       DEF RepairInv, InstallInv, TeardownInv, KeyfileOver, KeyfileRunComplete, BootCopy, FallbackKeyKept
  <2>2. DriftRepaired /\ InitrdVerified
    BY <1>1 DEF RepairInv, DriftInv, Beyond, DriftRepaired, InitrdVerified, Repaired, Drifted
  <2> QED
    BY <2>1, <2>2 DEF RunsRepair
<1> QED BY <1>1, RepairInvariant, FallbackKeyOutlivesSlot, PTL

=============================================================================
