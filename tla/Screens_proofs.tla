--------------------------- MODULE Screens_proofs ---------------------------
(***************************************************************************)
(* Proofs about Screens: what the pages show and what emissions do, for any *)
(* number of items and mutations; the last section is about Feeds, for      *)
(* pages of any size, any number of rows and any bounds.                    *)
(***************************************************************************)
EXTENDS Screens, Feeds, FiniteSetTheorems, WellFoundedInduction, TLAPS

LEMMA HookShape ==
    ASSUME page \in Pages, NEW h \in Hooks[page]
    PROVE  /\ h.op \in {"create", "insert", "update", "delete", "reorder", "set", "read", "readAll"}
           /\ h.answer \in {"none", "echo", "item", "list"}
           /\ h.then \in {"map", "filter", "prepend", "set", "refetch", "toggle"}
           /\ h.then = "map" => h.op = "update" /\ h.answer \in {"item", "echo"}
           /\ h.then = "filter" => h.op = "delete" /\ h.answer = "none"
           /\ h.then = "prepend" => h.op = "create" /\ h.answer = "echo"
           /\ h.then = "set" => h.answer = "list" /\ h.op # "insert"
           /\ h.then = "set" /\ h.op = "create" => page \in {"event", "clan"}
           /\ h.then = "refetch" => h.answer = "none"
           /\ h.answer = "list" => h.then = "set"
           /\ h.then = "toggle" <=> page = "preferences"
           /\ h.op = "set" <=> page = "preferences"
           /\ h.op \in {"read", "readAll"} => h.then = "refetch"
PROOF
<1>1. CASE page = "roles" BY <1>1 DEF Hooks, RolesHooks, Hook
<1>2. CASE page = "members" BY <1>2 DEF Hooks, MembersHooks, Hook
<1>3. CASE page = "invites" BY <1>3 DEF Hooks, InvitesHooks, Hook
<1>4. CASE page = "eventInvites" BY <1>4 DEF Hooks, EventInvitesHooks, Hook
<1>5. CASE page = "games" BY <1>5 DEF Hooks, GamesHooks, Hook
<1>6. CASE page = "event" BY <1>6 DEF Hooks, RegisterHooks, ManageHooks, Hook
<1>7. CASE page = "profile" BY <1>7 DEF Hooks, ProfileHooks, Hook
<1>8. CASE page = "preferences" BY <1>8 DEF Hooks, PreferencesHooks, Hook
<1>9. CASE page = "clans" BY <1>9 DEF Hooks, ClansHooks, Hook
<1>10. CASE page = "events" BY <1>10 DEF Hooks, EventsHooks, Hook
<1>11. CASE page = "clan" BY <1>11 DEF Hooks, ClanHooks, Hook
<1>12. CASE page = "notifications" BY <1>12 DEF Hooks, NotificationsHooks, Hook
<1> QED BY <1>1, <1>2, <1>3, <1>4, <1>5, <1>6, <1>7, <1>8, <1>9, <1>10, <1>11, <1>12 DEF Pages, Hooks

-----------------------------------------------------------------------------

LEMMA ViewType ==
    ASSUME NEW r \in Rows
    PROVE  /\ View(r) \in Rows /\ View(r) # None /\ r # None
           /\ page # "preferences" => View(r) = r
BY NoneAssumption DEF View, Rows

LEMMA InitTypeOK == Init => TypeOK /\ MutationsComplete /\ FetchComplete /\ EmissionWarranted /\ RowsAreUsed
PROOF
<1> SUFFICES ASSUME Init PROVE TypeOK /\ MutationsComplete /\ FetchComplete /\ EmissionWarranted /\ RowsAreUsed
    OBVIOUS
<1>1. row \in Rows /\ used \subseteq Ids /\ RowsAreUsed BY NoneAssumption DEF Init, Rows, RowsAreUsed
<1>2. mut \in [Mutations -> MutationStates] BY DEF Init, MutationStates, Idle, Stages
<1>3. fetch \in FetchStates /\ em \in EmissionStates BY DEF Init, FetchStates, EmissionStates, NoFetch, NoEmission
<1>a. acts \in 0 .. MaxActs /\ faults \in 0 .. MaxFaults BY BoundsAssumption DEF Init
<1>b. inbox \in [Ids -> Nat] BY DEF Init
<1>c. invalid \in BOOLEAN /\ open \in BOOLEAN /\ calm \in BOOLEAN BY DEF Init
<1>d. page \in Pages /\ data \in Rows \cup {None} /\ twice \subseteq Ids BY DEF Init
<1>4. TypeOK BY <1>1, <1>2, <1>3, <1>a, <1>b, <1>c, <1>d DEF TypeOK
<1>5. MutationsComplete /\ FetchComplete /\ EmissionWarranted
    BY DEF Init, MutationsComplete, FetchComplete, EmissionWarranted, Idle, NoFetch, NoEmission
<1> QED BY <1>1, <1>4, <1>5

(* What happens to one mutation keeps the types. *)
LEMMA StageTypes ==
    ASSUME TypeOK, NEW m \in Mutations, NEW s \in Stages, NEW g \in BOOLEAN \cup {None}
    PROVE  [mut[m] EXCEPT !.stage = s, !.got = g] \in MutationStates
BY DEF TypeOK, MutationStates

LEMMA CutTypes ==
    ASSUME TypeOK, NEW m \in Mutations
    PROVE  [mut[m] EXCEPT !.cut = TRUE] \in MutationStates
BY DEF TypeOK, MutationStates

LEMMA IdleTypes == Idle \in MutationStates
BY DEF Idle, MutationStates, Stages

LEMMA ListTypes ==
    ASSUME TypeOK, NEW m \in Mutations, NEW r \in Rows
    PROVE  [mut[m] EXCEPT !.stage = "ready", !.list = r] \in MutationStates
BY DEF TypeOK, MutationStates, Stages

LEMMA SentTypes ==
    ASSUME NEW h \in Hooks[page], NEW i \in Ids, NEW v \in BOOLEAN, NEW l \in Rows \cup {None}
    PROVE  [Idle EXCEPT !.stage = "sent", !.hook = h, !.id = i, !.val = v, !.list = l] \in MutationStates
BY DEF Idle, MutationStates, Stages

LEMMA MutTypes ==
    ASSUME TypeOK, NEW m \in Mutations, NEW q \in MutationStates, mut' = [mut EXCEPT ![m] = q]
    PROVE  mut' \in [Mutations -> MutationStates]
BY DEF TypeOK

LEMMA RowUpdate ==
    ASSUME NEW r \in Rows, NEW i, NEW v \in BOOLEAN \cup {None}
    PROVE  [r EXCEPT ![i] = v] \in Rows
BY DEF Rows

LEMMA EmptyRows == [i \in Ids |-> None] \in Rows
BY DEF Rows

LEMMA WrittenType ==
    ASSUME TypeOK, NEW q, q.val \in BOOLEAN, q.hook.op \in {"create", "insert", "update", "delete", "reorder", "set", "read", "readAll"}
    PROVE  Written(q) \in Rows
PROOF
<1>1. Moved \in Rows BY DEF TypeOK, Rows, Moved
<1>2. AllRead \in Rows BY DEF TypeOK, Rows, AllRead
<1> QED BY <1>1, <1>2, RowUpdate DEF Written, TypeOK

LEMMA WatchedType ==
    ASSUME TypeOK, NEW r
    PROVE  Watched(r) \in EmissionStates
BY DEF TypeOK, Watched, EmissionStates

LEMMA TypeStep ==
    ASSUME TypeOK, MutationsComplete, FetchComplete, Next
    PROVE  TypeOK'
PROOF
<1>0. page' = page => MutationStates' = MutationStates BY DEF MutationStates
<1>1. ASSUME NEW old \in BOOLEAN, Mount(old) PROVE TypeOK'
  <2>1. calm' \in BOOLEAN BY <1>1 DEF TypeOK, Mount
  <2>2. fetch' \in FetchStates BY <1>1 DEF TypeOK, FetchStates, Started, NoFetch, Joined, Mount
  <2>3. open' \in BOOLEAN BY <1>1 DEF Mount
  <2> QED BY <2>1, <2>2, <2>3, <1>1, <1>0 DEF Mount, cache, OnServer, TypeOK
<1>2. ASSUME Reconnect PROVE TypeOK'
  <2>1. calm' \in BOOLEAN BY <1>2 DEF TypeOK, Reconnect
  <2>2. fetch' \in FetchStates BY <1>2 DEF TypeOK, FetchStates, Started, NoFetch, Joined, Reconnect
  <2>3. acts' \in 0 .. MaxActs BY <1>2, BoundsAssumption DEF TypeOK, Act, Reconnect
  <2> QED BY <2>1, <2>2, <2>3, <1>2, <1>0 DEF Reconnect, cache, OnServer, TypeOK
<1>3. ASSUME Unmount PROVE TypeOK'
  <2>1. calm' \in BOOLEAN BY <1>3 DEF TypeOK, Unmount
  <2>2. open' \in BOOLEAN BY <1>3 DEF Unmount
  <2>3. acts' \in 0 .. MaxActs BY <1>3, BoundsAssumption DEF TypeOK, Act, Unmount
  <2> QED BY <2>1, <2>2, <2>3, <1>3, <1>0 DEF Unmount, cache, OnServer, TypeOK
<1>4. ASSUME ReadList PROVE TypeOK'
  <2>1. calm' \in BOOLEAN BY <1>4 DEF TypeOK, ReadList
  <2>2. fetch' \in FetchStates BY <1>4, ViewType DEF TypeOK, FetchStates, ReadList
  <2> QED BY <2>1, <2>2, <1>4, <1>0 DEF ReadList, cache, OnServer, TypeOK
<1>5. ASSUME ListArrives PROVE TypeOK'
  <2>1. fetch' \in FetchStates BY <1>5 DEF TypeOK, FetchStates, Started, NoFetch, Joined, ListArrives
  <2>2. data' \in Rows \cup {None} BY <1>5 DEF TypeOK, FetchStates, ListArrives
  <2> QED BY <2>1, <2>2, <1>5, <1>0 DEF ListArrives, cache, OnServer, TypeOK
<1>6. ASSUME FetchFails PROVE TypeOK'
  <2>1. fetch' \in FetchStates BY <1>6 DEF TypeOK, FetchStates, Started, NoFetch, Joined, FetchFails
  <2>2. faults' \in 0 .. MaxFaults BY <1>6, BoundsAssumption DEF TypeOK, Fault, FetchFails
  <2> QED BY <2>1, <2>2, <1>6, <1>0 DEF FetchFails, cache, OnServer, TypeOK
<1>7. ASSUME NEW m \in Mutations, NEW h \in Hooks[page], NEW i \in Ids, NEW v \in BOOLEAN, Send(m, h, i, v) PROVE TypeOK'
  <2>1. mut' \in [Mutations -> MutationStates] BY <1>7, SentTypes, MutTypes DEF Send, TypeOK
  <2>2. h.then = "toggle" => data \in Rows BY <1>7, HookShape DEF Send, Offered, TypeOK
  <2>3. h.then = "toggle" => data' = [data EXCEPT ![i] = v] BY <1>7 DEF Send, Show
  <2>4. h.then # "toggle" => data' = data BY <1>7 DEF Send, Show
  <2>5. [data EXCEPT ![i] = v] \in Rows \/ h.then # "toggle" BY <2>2, RowUpdate
  <2>6. data' \in Rows \cup {None} BY <2>3, <2>4, <2>5 DEF TypeOK
  <2>7. fetch' \in FetchStates BY <1>7 DEF Send, Show, NoFetch, FetchStates, TypeOK
  <2>8. invalid' \in BOOLEAN BY <1>7 DEF Send, Show, TypeOK
  <2>9. calm' \in BOOLEAN BY <1>7 DEF Send
  <2>10. acts' \in 0 .. MaxActs BY <1>7, BoundsAssumption DEF TypeOK, Act, Send
  <2> QED BY <2>1, <2>2, <2>3, <2>4, <2>5, <2>6, <2>7, <2>8, <2>9, <2>10, <1>7, <1>0 DEF Send, cache, OnServer, TypeOK
<1>8. ASSUME NEW m \in Mutations, Cut(m) PROVE TypeOK'
  <2>1. mut' \in [Mutations -> MutationStates] BY <1>8, CutTypes, IdleTypes, MutTypes DEF Cut
  <2>2. data' \in Rows \cup {None} BY <1>8 DEF Cut, Restore, TypeOK, MutationStates
  <2>3. fetch' \in FetchStates BY <1>8 DEF Cut, Restore, Invalidate, Started, Joined, FetchStates, TypeOK
  <2>4. invalid' \in BOOLEAN BY <1>8 DEF Cut, Restore, Invalidate, TypeOK
  <2>5. calm' \in BOOLEAN BY <1>8 DEF Cut
  <2>6. faults' \in 0 .. MaxFaults BY <1>8, BoundsAssumption DEF TypeOK, Fault, Cut
  <2> QED BY <2>1, <2>2, <2>3, <2>4, <2>5, <2>6, <1>8, <1>0 DEF Cut, cache, OnServer, TypeOK
<1>9. ASSUME NEW m \in Mutations, Refused(m) PROVE TypeOK'
  <2>1. mut' \in [Mutations -> MutationStates] BY <1>9, IdleTypes, MutTypes DEF Refused, Done
  <2>2. data' \in Rows \cup {None} BY <1>9 DEF Refused, Restore, TypeOK, MutationStates
  <2>3. fetch' \in FetchStates BY <1>9 DEF Refused, Restore, Invalidate, Started, Joined, FetchStates, TypeOK
  <2>4. invalid' \in BOOLEAN BY <1>9 DEF Refused, Restore, Invalidate, TypeOK
  <2> QED BY <2>1, <2>2, <2>3, <2>4, <1>9, <1>0 DEF Refused, cache, OnServer, TypeOK
<1>10. ASSUME NEW m \in Mutations, RefetchList(m) PROVE TypeOK'
  <2>1. mut' \in [Mutations -> MutationStates] BY <1>10, IdleTypes, MutTypes DEF RefetchList, Answered, Done
  <2>2. fetch' \in FetchStates BY <1>10 DEF RefetchList, Invalidate, Started, Joined, FetchStates, TypeOK
  <2>3. invalid' \in BOOLEAN BY <1>10 DEF RefetchList, Invalidate, TypeOK
  <2> QED BY <2>1, <2>2, <2>3, <1>10, <1>0 DEF RefetchList, Answered, cache, OnServer, TypeOK
<1>11. ASSUME NEW m \in Mutations, WriteItem(m) PROVE TypeOK'
  <2>1. mut[m].got \in BOOLEAN \cup {None} /\ mut[m].list \in Rows \cup {None} /\ mut[m].id \in Ids \cup {None} BY DEF TypeOK, MutationStates
  <2>2. mut' \in [Mutations -> MutationStates] BY <1>11, IdleTypes, MutTypes DEF WriteItem, Answered, Done
  <2>3. data' \in Rows \cup {None} BY <1>11, <2>1, RowUpdate DEF WriteItem, SetQueryData, TypeOK
  <2>4. invalid' \in BOOLEAN BY <1>11 DEF WriteItem, SetQueryData, TypeOK
  <2>5. mut[m].id \in Ids BY <1>11 DEF WriteItem, Answered, MutationsComplete
  <2>6. twice' \subseteq Ids BY <1>11, <2>5 DEF WriteItem, TypeOK
  <2> QED BY <2>1, <2>2, <2>3, <2>4, <2>5, <2>6, <1>11, <1>0 DEF WriteItem, Answered, SetQueryData, cache, OnServer, TypeOK
<1>12. ASSUME NEW m \in Mutations, PrependItem(m) PROVE TypeOK'
  <2>1. mut[m].got \in BOOLEAN \cup {None} /\ mut[m].list \in Rows \cup {None} /\ mut[m].id \in Ids \cup {None} BY DEF TypeOK, MutationStates
  <2>2. mut' \in [Mutations -> MutationStates] BY <1>12, IdleTypes, MutTypes DEF PrependItem, Answered, Done
  <2>3. data' \in Rows \cup {None} BY <1>12, <2>1, RowUpdate, EmptyRows DEF PrependItem, SetQueryData, TypeOK
  <2>4. invalid' \in BOOLEAN BY <1>12 DEF PrependItem, SetQueryData, TypeOK
  <2>5. mut[m].id \in Ids BY <1>12 DEF PrependItem, Answered, MutationsComplete
  <2>6. twice' \subseteq Ids BY <1>12, <2>5 DEF PrependItem, TypeOK
  <2> QED BY <2>1, <2>2, <2>3, <2>4, <2>5, <2>6, <1>12, <1>0 DEF PrependItem, Answered, SetQueryData, cache, OnServer, TypeOK
<1>13. ASSUME NEW m \in Mutations, FilterItem(m) PROVE TypeOK'
  <2>1. mut[m].got \in BOOLEAN \cup {None} /\ mut[m].list \in Rows \cup {None} /\ mut[m].id \in Ids \cup {None} BY DEF TypeOK, MutationStates
  <2>2. mut' \in [Mutations -> MutationStates] BY <1>13, IdleTypes, MutTypes DEF FilterItem, Answered, Done
  <2>3. data' \in Rows \cup {None} BY <1>13, <2>1, RowUpdate DEF FilterItem, SetQueryData, TypeOK
  <2>4. invalid' \in BOOLEAN BY <1>13 DEF FilterItem, SetQueryData, TypeOK
  <2>5. mut[m].id \in Ids BY <1>13 DEF FilterItem, Answered, MutationsComplete
  <2>6. twice' \subseteq Ids BY <1>13, <2>5 DEF FilterItem, TypeOK
  <2> QED BY <2>1, <2>2, <2>3, <2>4, <2>5, <2>6, <1>13, <1>0 DEF FilterItem, Answered, SetQueryData, cache, OnServer, TypeOK
<1>14. ASSUME NEW m \in Mutations, WriteList(m) PROVE TypeOK'
  <2>1. mut[m].got \in BOOLEAN \cup {None} /\ mut[m].list \in Rows \cup {None} /\ mut[m].id \in Ids \cup {None} BY DEF TypeOK, MutationStates
  <2>2. mut' \in [Mutations -> MutationStates] BY <1>14, IdleTypes, MutTypes DEF WriteList, Answered, Done
  <2>3. data' \in Rows \cup {None} BY <1>14, <2>1, RowUpdate DEF WriteList, SetQueryData, TypeOK
  <2>4. invalid' \in BOOLEAN BY <1>14 DEF WriteList, SetQueryData, TypeOK
  <2>5. mut[m].id \in Ids BY <1>14 DEF WriteList, Answered, MutationsComplete
  <2>6. twice' \subseteq Ids BY <1>14, <2>5 DEF WriteList, TypeOK
  <2> QED BY <2>1, <2>2, <2>3, <2>4, <2>5, <2>6, <1>14, <1>0 DEF WriteList, Answered, SetQueryData, cache, OnServer, TypeOK
<1>15. ASSUME NEW m \in Mutations, Store(m) PROVE TypeOK'
  <2>1. mut' \in [Mutations -> MutationStates] BY <1>15, StageTypes, IdleTypes, MutTypes DEF Store, Step, Stages
  <2>2. mut[m].val \in BOOLEAN /\ mut[m].id \in Ids /\ mut[m].hook \in Hooks[page] BY <1>15 DEF Store, MutationsComplete
  <2>3. row' \in Rows BY <1>15, <2>2, HookShape, WrittenType DEF Store, TypeOK
  <2>4. used' \subseteq Ids BY <1>15 DEF Store, TypeOK
  <2> QED BY <2>1, <2>2, <2>3, <2>4, <1>15, <1>0 DEF Store, cache, OnServer, TypeOK
<1>16. ASSUME NEW m \in Mutations, FindPreference(m) PROVE TypeOK'
  <2>1. mut[m].id \in Ids BY <1>16 DEF FindPreference, MutationsComplete
  <2>2. row[mut[m].id] \in BOOLEAN \cup {None} BY <2>1 DEF TypeOK, Rows
  <2>3. mut' \in [Mutations -> MutationStates] BY <1>16, <2>2, StageTypes, IdleTypes, MutTypes DEF FindPreference, Step, Stages
  <2> QED BY <2>1, <2>2, <2>3, <1>16, <1>0 DEF FindPreference, cache, OnServer, TypeOK
<1>17. ASSUME NEW m \in Mutations, StorePreference(m) PROVE TypeOK'
  <2>1. mut' \in [Mutations -> MutationStates] BY <1>17, StageTypes, IdleTypes, MutTypes DEF StorePreference, Step, Stages
  <2>2. mut[m].val \in BOOLEAN /\ mut[m].id \in Ids /\ mut[m].hook \in Hooks[page] BY <1>17 DEF StorePreference, MutationsComplete
  <2>3. row' \in Rows BY <1>17, <2>2, HookShape, WrittenType DEF StorePreference, TypeOK
  <2>4. used' \subseteq Ids BY <1>17, <2>2 DEF StorePreference, TypeOK
  <2>5. em' \in EmissionStates BY <1>17, WatchedType DEF StorePreference, TypeOK
  <2> QED BY <2>1, <2>2, <2>3, <2>4, <2>5, <1>17, <1>0 DEF StorePreference, cache, OnServer, TypeOK
<1>18. ASSUME NEW m \in Mutations, Refuse(m) PROVE TypeOK'
  <2>1. mut' \in [Mutations -> MutationStates] BY <1>18, StageTypes, IdleTypes, MutTypes DEF Refuse, Step, Stages
  <2>2. faults' \in 0 .. MaxFaults BY <1>18, BoundsAssumption DEF TypeOK, Fault, Refuse
  <2> QED BY <2>1, <2>2, <1>18, <1>0 DEF Refuse, cache, OnServer, TypeOK
<1>19. ASSUME NEW m \in Mutations, Answer(m) PROVE TypeOK'
  <2>1. mut[m].id \in Ids /\ mut[m].hook \in Hooks[page] BY <1>19 DEF Answer, MutationsComplete
  <2>2. row[mut[m].id] \in BOOLEAN \cup {None} /\ mut[m].val \in BOOLEAN \cup {None} BY <2>1 DEF TypeOK, Rows, MutationStates
  <2>3. mut' = [mut EXCEPT ![m].stage = "ready", ![m].list = row] => mut' = [mut EXCEPT ![m] = [mut[m] EXCEPT !.stage = "ready", !.list = row]] BY DEF TypeOK, MutationStates
  <2>4. mut[m].hook.answer = "list" => mut' \in [Mutations -> MutationStates] BY <2>3, <1>19, ListTypes, MutTypes DEF Answer, TypeOK
  <2>5. mut[m].hook.answer \in {"none", "echo", "item", "list"} BY <2>1, HookShape DEF TypeOK
  <2>6. mut[m].hook.answer # "list" => \E s \in {"ready", "refused"}, g \in BOOLEAN \cup {None} : Step(m, s, g) BY <1>19, <2>2, <2>5 DEF Answer
  <2>7. mut[m].hook.answer # "list" => mut' \in [Mutations -> MutationStates] BY <2>6, StageTypes, IdleTypes, MutTypes DEF Step, Stages
  <2> QED BY <2>1, <2>2, <2>3, <2>4, <2>5, <2>6, <2>7, <1>19, <1>0 DEF Answer, cache, OnServer, TypeOK
<1>20. ASSUME Others PROVE TypeOK'
  <2>1. PICK j \in Ids, w \in BOOLEAN \cup {None} : row' = [row EXCEPT ![j] = w] /\ used' = used \cup {j} BY <1>20 DEF Others
  <2>2. row' \in Rows BY <2>1, RowUpdate DEF TypeOK
  <2>3. used' \subseteq Ids BY <2>1 DEF TypeOK
  <2>4. em' \in EmissionStates BY <1>20, WatchedType DEF Others, TypeOK
  <2>5. acts' \in 0 .. MaxActs BY <1>20, BoundsAssumption DEF TypeOK, Act, Others
  <2>6. calm' \in BOOLEAN BY <1>20 DEF Others
  <2> QED BY <2>1, <2>2, <2>3, <2>4, <2>5, <2>6, <1>20, <1>0 DEF Others, cache, OnServer, TypeOK
<1>21. ASSUME NEW i \in Ids, Emit(i) PROVE TypeOK'
  <2>1. View(row)[i] \in BOOLEAN BY <1>21 DEF Emit, View
  <2>2. em' \in EmissionStates BY <1>21, <2>1 DEF Emit, EmissionStates
  <2>3. acts' \in 0 .. MaxActs BY <1>21, BoundsAssumption DEF TypeOK, Act, Emit
  <2> QED BY <2>1, <2>2, <2>3, <1>21, <1>0 DEF Emit, cache, OnServer, TypeOK
<1>22. ASSUME CheckPreference PROVE TypeOK'
  <2>1. em' \in EmissionStates BY <1>22 DEF CheckPreference, TypeOK, EmissionStates, NoEmission
  <2> QED BY <2>1, <1>22, <1>0 DEF CheckPreference, cache, OnServer, TypeOK
<1>23. ASSUME Notify PROVE TypeOK'
  <2>1. em' \in EmissionStates BY <1>23 DEF Notify, EmissionStates, NoEmission
  <2>2. \A i \in Ids : inbox[i] \in Nat /\ inbox[i] + 1 \in Nat BY DEF TypeOK
  <2>3. inbox' = [inbox EXCEPT ![em.id] = inbox[em.id] + 1] BY <1>23 DEF Notify
  <2>4. inbox' \in [Ids -> Nat] BY <2>2, <2>3 DEF TypeOK
  <2> QED BY <2>1, <2>2, <2>3, <2>4, <1>23, <1>0 DEF Notify, cache, OnServer, TypeOK
<1>24. ASSUME EmitFails PROVE TypeOK'
  <2>1. em' \in EmissionStates BY <1>24 DEF EmitFails, TypeOK, EmissionStates, NoEmission
  <2>2. faults' \in 0 .. MaxFaults BY <1>24, BoundsAssumption DEF TypeOK, Fault, EmitFails
  <2> QED BY <2>1, <2>2, <1>24, <1>0 DEF EmitFails, cache, OnServer, TypeOK
<1> QED BY <1>1, <1>2, <1>3, <1>4, <1>5, <1>6, <1>7, <1>8, <1>9, <1>10, <1>11, <1>12, <1>13, <1>14, <1>15, <1>16, <1>17, <1>18, <1>19, <1>20, <1>21, <1>22, <1>23, <1>24 DEF Next

-----------------------------------------------------------------------------
(* What is under way is complete. *)

LEMMA DoneComplete ==
    ASSUME TypeOK, MutationsComplete, NEW m \in Mutations, Done(m), page' = page
    PROVE  MutationsComplete'
BY DEF TypeOK, MutationsComplete, Done, Idle

LEMMA StepComplete ==
    ASSUME TypeOK, MutationsComplete, NEW m \in Mutations, mut[m].stage # "free", page' = page,
           NEW s \in {"found", "stored", "ready", "refused"}, NEW g, Step(m, s, g),
           s = "ready" => ~mut[m].cut, s = "found" => page = "preferences"
    PROVE  MutationsComplete'
PROOF
<1> SUFFICES ASSUME NEW n \in Mutations
             PROVE  /\ mut'[n].stage # "free" =>
                          /\ mut'[n].hook \in Hooks[page] /\ mut'[n].id \in Ids /\ mut'[n].val \in BOOLEAN
                          /\ mut'[n].hook.op = "set" => mut'[n].list # None
                    /\ mut'[n].cut => mut'[n].stage \in {"sent", "found"}
                    /\ mut'[n].stage = "found" => page = "preferences"
    BY DEF MutationsComplete
<1>1. CASE n # m BY <1>1 DEF Step, MutationsComplete, TypeOK
<1>2. CASE n = m /\ mut'[m] = Idle BY <1>2 DEF Idle
<1>3. CASE n = m /\ mut'[m] # Idle
  <2>1. mut'[m] = [mut[m] EXCEPT !.stage = s, !.got = g] /\ ~(mut[m].cut /\ s \in {"stored", "refused"})
      BY <1>3 DEF Step, TypeOK
  <2>2. /\ mut'[m].stage = s /\ mut'[m].hook = mut[m].hook /\ mut'[m].id = mut[m].id
        /\ mut'[m].val = mut[m].val /\ mut'[m].list = mut[m].list /\ mut'[m].cut = mut[m].cut
      BY <2>1 DEF TypeOK, MutationStates
  <2> QED BY <1>3, <2>1, <2>2 DEF MutationsComplete
<1> QED BY <1>1, <1>2, <1>3

LEMMA CompletePlain ==
    ASSUME TypeOK, MutationsComplete, UNCHANGED <<mut, page>>
    PROVE  MutationsComplete'
BY DEF MutationsComplete

LEMMA MutationsStep ==
    ASSUME TypeOK, MutationsComplete, Next
    PROVE  MutationsComplete'
PROOF
<1>1. ASSUME NEW old \in BOOLEAN, Mount(old) PROVE MutationsComplete' BY <1>1, CompletePlain DEF Mount
<1>2. CASE Reconnect BY <1>2, CompletePlain DEF Reconnect
<1>3. CASE Unmount BY <1>3, CompletePlain DEF Unmount
<1>4. CASE ReadList BY <1>4, CompletePlain DEF ReadList
<1>5. CASE ListArrives BY <1>5, CompletePlain DEF ListArrives
<1>6. CASE FetchFails BY <1>6, CompletePlain DEF FetchFails
<1>7. ASSUME NEW m \in Mutations, NEW h \in Hooks[page], NEW i \in Ids, NEW v \in BOOLEAN, Send(m, h, i, v)
      PROVE MutationsComplete'
  <2>1. mut' = [mut EXCEPT ![m] = [Idle EXCEPT !.stage = "sent", !.hook = h, !.id = i, !.val = v,
                                  !.list = IF h.op \in {"set", "reorder"} THEN data ELSE None]]
      BY <1>7 DEF Send
  <2>2. h.op = "set" => data # None BY <1>7 DEF Send, Offered
  <2>3. /\ mut'[m].stage = "sent" /\ mut'[m].hook = h /\ mut'[m].id = i /\ mut'[m].val = v
        /\ mut'[m].list = (IF h.op \in {"set", "reorder"} THEN data ELSE None)
      BY <2>1 DEF TypeOK, Idle
  <2>4. mut'[m].cut = FALSE BY <2>1 DEF TypeOK, Idle
  <2>5. \A n \in Mutations : n # m => mut'[n] = mut[n] BY <2>1 DEF TypeOK
  <2>6. page' = page BY <1>7 DEF Send
  <2> QED BY <2>2, <2>3, <2>4, <2>5, <2>6 DEF MutationsComplete
<1>8. ASSUME NEW m \in Mutations, Cut(m) PROVE MutationsComplete'
  <2>1. page' = page BY <1>8 DEF Cut
  <2>2. CASE mut[m].stage \in {"sent", "found"}
    <3>1. mut' = [mut EXCEPT ![m] = [mut[m] EXCEPT !.cut = TRUE]] BY <1>8, <2>2 DEF Cut
    <3>2. /\ mut'[m].stage = mut[m].stage /\ mut'[m].hook = mut[m].hook /\ mut'[m].id = mut[m].id
          /\ mut'[m].val = mut[m].val /\ mut'[m].list = mut[m].list
        BY <3>1 DEF TypeOK, MutationStates
    <3>3. \A n \in Mutations : n # m => mut'[n] = mut[n] BY <3>1 DEF TypeOK
    <3> QED BY <2>1, <2>2, <3>2, <3>3 DEF MutationsComplete
  <2>3. CASE mut[m].stage \notin {"sent", "found"}
    <3>1. Done(m) BY <1>8, <2>3 DEF Cut, Done
    <3> QED BY <2>1, <3>1, DoneComplete
  <2> QED BY <2>2, <2>3
<1>9. ASSUME NEW m \in Mutations, Refused(m) PROVE MutationsComplete' BY <1>9, DoneComplete DEF Refused
<1>10. ASSUME NEW m \in Mutations, RefetchList(m) \/ WriteItem(m) \/ PrependItem(m) \/ FilterItem(m) \/ WriteList(m)
       PROVE MutationsComplete'
    BY <1>10, DoneComplete DEF RefetchList, WriteItem, PrependItem, FilterItem, WriteList, Answered
<1>11. ASSUME NEW m \in Mutations, Store(m) PROVE MutationsComplete'
    BY <1>11, StepComplete DEF Store, OnServer
<1>12. ASSUME NEW m \in Mutations, FindPreference(m) PROVE MutationsComplete'
  <2>1. mut[m].stage = "sent" /\ mut[m].hook.op = "set" /\ page' = page BY <1>12 DEF FindPreference, OnServer
  <2>2. page = "preferences" BY <2>1, HookShape DEF TypeOK, MutationsComplete
  <2> QED BY <1>12, <2>1, <2>2, StepComplete DEF FindPreference
<1>13. ASSUME NEW m \in Mutations, StorePreference(m) PROVE MutationsComplete'
    BY <1>13, StepComplete DEF StorePreference, OnServer
<1>14. ASSUME NEW m \in Mutations, Refuse(m) PROVE MutationsComplete'
    BY <1>14, StepComplete DEF Refuse, OnServer
<1>15. ASSUME NEW m \in Mutations, Answer(m) PROVE MutationsComplete'
  <2>1. ~mut[m].cut /\ mut[m].stage # "free" /\ page' = page BY <1>15 DEF Answer, MutationsComplete, OnServer
  <2>2. CASE mut[m].hook.answer = "list"
    <3>1. mut' = [mut EXCEPT ![m] = [mut[m] EXCEPT !.stage = "ready", !.list = row]]
        BY <1>15, <2>2 DEF Answer, TypeOK, MutationStates
    <3>2. /\ mut'[m].stage = "ready" /\ mut'[m].hook = mut[m].hook /\ mut'[m].id = mut[m].id
          /\ mut'[m].val = mut[m].val /\ mut'[m].list = row /\ mut'[m].cut = mut[m].cut
        BY <3>1 DEF TypeOK, MutationStates
    <3>3. \A n \in Mutations : n # m => mut'[n] = mut[n] BY <3>1 DEF TypeOK
    <3>4. row # None BY ViewType DEF TypeOK
    <3> QED BY <2>1, <3>2, <3>3, <3>4 DEF MutationsComplete
  <2>3. CASE mut[m].hook.answer # "list"
    <3>1. mut[m].hook.answer \in {"none", "echo", "item", "list"}
        BY <2>1, HookShape DEF TypeOK, MutationsComplete
    <3>2. PICK s \in {"ready", "refused"}, g \in {None, mut[m].val, row[mut[m].id]} : Step(m, s, g)
        BY <1>15, <2>3, <3>1 DEF Answer
    <3> QED BY <2>1, <3>2, StepComplete
  <2> QED BY <2>2, <2>3
<1>16. CASE Others BY <1>16, CompletePlain DEF Others
<1>17. ASSUME NEW i \in Ids, Emit(i) PROVE MutationsComplete' BY <1>17, CompletePlain DEF Emit
<1>18. CASE CheckPreference BY <1>18, CompletePlain DEF CheckPreference
<1>19. CASE Notify BY <1>19, CompletePlain DEF Notify
<1>20. CASE EmitFails BY <1>20, CompletePlain DEF EmitFails
<1> QED BY <1>1, <1>2, <1>3, <1>4, <1>5, <1>6, <1>7, <1>8, <1>9, <1>10, <1>11, <1>12, <1>13, <1>14, <1>15,
           <1>16, <1>17, <1>18, <1>19, <1>20 DEF Next

LEMMA FetchStep ==
    ASSUME TypeOK, FetchComplete, Next
    PROVE  FetchComplete'
PROOF
<1>1. fetch' \in {fetch, Started, NoFetch, [stage |-> "read", got |-> View(row)]}
    BY DEF Next, Mount, Reconnect, Unmount, ReadList, ListArrives, FetchFails, Send, Cut, Refused, RefetchList, WriteItem, PrependItem, FilterItem, WriteList, Store, FindPreference, StorePreference, Refuse, Answer, Others, Emit, CheckPreference, Notify, EmitFails,
           Show, Restore, Invalidate, Joined, SetQueryData, Answered, OnServer, cache
<1>2. View(row) # None BY ViewType DEF TypeOK
<1> QED BY <1>1, <1>2 DEF FetchComplete, Started, NoFetch

LEMMA RowsStep ==
    ASSUME TypeOK, MutationsComplete, RowsAreUsed, Next
    PROVE  RowsAreUsed'
PROOF
<1>1. UNCHANGED <<row, used>> => RowsAreUsed' BY DEF RowsAreUsed
<1>2. ASSUME NEW m \in Mutations, Store(m) PROVE RowsAreUsed'
    BY <1>2 DEF Store, RowsAreUsed
<1>3. ASSUME NEW m \in Mutations, StorePreference(m) PROVE RowsAreUsed'
  <2>1. mut[m].hook \in Hooks[page] BY <1>3 DEF StorePreference, MutationsComplete
  <2>2. mut[m].hook.op \in {"create", "insert", "update", "delete", "reorder", "set", "read", "readAll"} BY <2>1, HookShape DEF TypeOK
  <2>3. ASSUME NEW i \in Ids, Written(mut[m])[i] # None PROVE row[i] # None \/ i = mut[m].id
      BY <2>2, <2>3 DEF Written, Moved, AllRead, TypeOK, Rows
  <2>4. (row' = Written(mut[m]) /\ used' = used \cup {mut[m].id}) \/ UNCHANGED <<row, used>>
      BY <1>3 DEF StorePreference
  <2> QED BY <1>1, <2>3, <2>4 DEF RowsAreUsed
<1>4. CASE Others BY <1>4 DEF Others, RowsAreUsed, TypeOK, Rows
<1>5. CASE ~Others /\ ~(\E m \in Mutations : Store(m) \/ StorePreference(m))
  <2>1. UNCHANGED <<row, used>>
      BY <1>5 DEF Next, Mount, Reconnect, Unmount, ReadList, ListArrives, FetchFails, Send, Cut, Refused, RefetchList, WriteItem, PrependItem, FilterItem, WriteList, FindPreference, Refuse, Answer, Emit, CheckPreference, Notify, EmitFails, Answered, OnServer
  <2> QED BY <1>1, <2>1
<1> QED BY <1>2, <1>3, <1>4, <1>5

-----------------------------------------------------------------------------
(* Emissions.                                                              *)

(* Whatever the server writes, an emission under way has seen it. *)
LEMMA WatchedWarrants ==
    ASSUME TypeOK, EmissionWarranted, NEW r, em' = Watched(r), row' = r, page' = page
    PROVE  EmissionWarranted'
PROOF
<1>1. CASE em.stage = "none" BY <1>1 DEF Watched, EmissionWarranted
<1>2. CASE em.stage # "none"
  <2>1. /\ em'.stage = em.stage /\ em'.id = em.id
        /\ em'.on = (em.on \/ r[em.id] # FALSE) /\ em'.off = (em.off \/ r[em.id] = FALSE)
      BY <1>2 DEF Watched, TypeOK, EmissionStates
  <2>2. em'.stage # "none" => page' = "preferences" /\ em'.id \in Ids BY <2>1, <1>2 DEF EmissionWarranted
  <2>3. em'.stage = "begun" => (row'[em'.id] = FALSE => em'.off) /\ (row'[em'.id] # FALSE => em'.on)
      BY <2>1
  <2>4. em'.stage = "allowed" => em'.on BY <2>1 DEF EmissionWarranted
  <2> QED BY <2>2, <2>3, <2>4 DEF EmissionWarranted
<1> QED BY <1>1, <1>2

LEMMA EmissionStep ==
    ASSUME TypeOK, EmissionWarranted, MutationsComplete, Next
    PROVE  EmissionWarranted'
PROOF
<1>1. UNCHANGED <<row, em, page>> => EmissionWarranted' BY DEF EmissionWarranted
<1>2. ASSUME NEW m \in Mutations, Store(m) PROVE EmissionWarranted'
  <2>1. page # "preferences"
      BY <1>2, HookShape DEF Store, MutationsComplete, TypeOK
  <2> QED BY <1>2, <2>1 DEF Store, OnServer, EmissionWarranted
<1>3. ASSUME NEW m \in Mutations, StorePreference(m) PROVE EmissionWarranted'
  <2>1. CASE em' = Watched(row') BY <1>3, <2>1, WatchedWarrants DEF StorePreference, OnServer
  <2>2. CASE UNCHANGED <<row, em>> BY <1>3, <2>2, <1>1 DEF StorePreference, OnServer
  <2> QED BY <1>3, <2>1, <2>2 DEF StorePreference
<1>4. CASE Others BY <1>4, WatchedWarrants DEF Others
<1>5. ASSUME NEW i \in Ids, Emit(i) PROVE EmissionWarranted'
  <2>1. page = "preferences" /\ page' = page /\ row' = row BY <1>5 DEF Emit
  <2>2. /\ em'.stage = "begun" /\ em'.id = i /\ em'.on = View(row)[i] /\ em'.off = ~View(row)[i]
      BY <1>5 DEF Emit
  <2>3. View(row)[i] = (row[i] # FALSE) BY <2>1 DEF View
  <2>4. (row'[i] = FALSE => em'.off) /\ (row'[i] # FALSE => em'.on) BY <2>1, <2>2, <2>3
  <2> QED BY <2>1, <2>2, <2>4 DEF EmissionWarranted
<1>6. CASE CheckPreference
  <2>1. page' = page /\ row' = row BY <1>6 DEF CheckPreference
  <2>2. CASE row[em.id] = FALSE BY <1>6, <2>2 DEF CheckPreference, EmissionWarranted, NoEmission
  <2>3. CASE row[em.id] # FALSE
    <3>1. em' = [em EXCEPT !.stage = "allowed"] /\ em.stage = "begun" BY <1>6, <2>3 DEF CheckPreference
    <3>2. em'.stage = "allowed" /\ em'.id = em.id /\ em'.on = em.on BY <3>1 DEF TypeOK, EmissionStates
    <3> QED BY <2>1, <2>3, <3>1, <3>2 DEF EmissionWarranted
  <2> QED BY <2>2, <2>3
<1>7. CASE Notify BY <1>7 DEF Notify, EmissionWarranted, NoEmission
<1>8. CASE EmitFails BY <1>8 DEF EmitFails, EmissionWarranted, NoEmission
<1>9. CASE ~Others /\ ~CheckPreference /\ ~Notify /\ ~EmitFails /\ ~(\E i \in Ids : Emit(i))
           /\ ~(\E m \in Mutations : Store(m) \/ StorePreference(m))
  <2>1. UNCHANGED <<row, em, page>>
      BY <1>9 DEF Next, Mount, Reconnect, Unmount, ReadList, ListArrives, FetchFails, Send, Cut, Refused, RefetchList, WriteItem, PrependItem, FilterItem, WriteList, FindPreference, Refuse, Answer, Answered, OnServer
  <2> QED BY <1>1, <2>1
<1> QED BY <1>2, <1>3, <1>4, <1>5, <1>6, <1>7, <1>8, <1>9

-----------------------------------------------------------------------------
(* A calm page follows the server.                                         *)

(* What a step leaves alone, the invariant does not see. *)
LEMMA CalmKept ==
    ASSUME CalmPage, calm' => calm, UNCHANGED <<page, row, data, twice, invalid, open, fetch, mut>>
    PROVE  CalmPage'
PROOF
<1> SUFFICES ASSUME calm' PROVE PageFollows' /\ WritesStayApart' BY DEF CalmPage
<1>1. PageFollows /\ WritesStayApart BY DEF CalmPage
<1>2. PageFollows' BY <1>1 DEF PageFollows, NothingStored, InFlight, View
<1>3. WritesStayApart' BY <1>1 DEF WritesStayApart, Writing, Differs
<1> QED BY <1>2, <1>3

(* Nothing is written where something is fetched again. *)
LEMMA WritersMeetWriters ==
    ASSUME WritesStayApart, NEW m \in Mutations, mut[m].stage # "free", mut[m].hook.then \in Refetching
    PROVE  \A n \in Mutations : ~Writing(n)
BY DEF WritesStayApart, Writing

LEMMA NoWriters ==
    ASSUME \A n \in Mutations : ~Writing(n)'
    PROVE  WritesStayApart'
BY DEF WritesStayApart

(* The fetch of a page beside mutations that fetch again. *)
LEMMA BesideRefetches ==
    ASSUME CalmPage, calm, \A m \in InFlight : MayRunBesideFetch(mut[m].hook)
    PROVE  /\ \A m \in Mutations : ~Writing(m)
           /\ InFlight # {} => data # None
BY DEF MayRunBesideFetch, Writing, InFlight

LEMMA MountCalm ==
    ASSUME TypeOK, CalmPage, NEW old \in BOOLEAN, Mount(old)
    PROVE  CalmPage'
PROOF
<1> SUFFICES ASSUME calm' PROVE PageFollows' /\ WritesStayApart' BY DEF CalmPage
<1>1. UNCHANGED <<page, row, data, twice, invalid, mut>> /\ ~open /\ open' BY DEF Mount
<1>2. CASE fetch' = fetch /\ ~invalid /\ data # None /\ calm
    BY <1>1, <1>2 DEF CalmPage, PageFollows, WritesStayApart, NothingStored, InFlight, Writing, Differs, View
<1>3. CASE fetch' = Joined /\ calm /\ \A m \in InFlight : MayRunBesideFetch(mut[m].hook)
  <2>1. PageFollows BY <1>3 DEF CalmPage
  <2>2. (\A m \in Mutations : ~Writing(m)) /\ (InFlight # {} => data # None) BY <1>3, BesideRefetches
  <2>3. fetch'.stage # "none" /\ (fetch'.stage = "read" => fetch' = fetch) BY <1>3 DEF Joined, Started
  <2>4. PageFollows' BY <1>1, <2>1, <2>2, <2>3 DEF PageFollows, NothingStored, InFlight, View
  <2>5. WritesStayApart' BY <1>1, <2>2, NoWriters DEF Writing
  <2> QED BY <2>4, <2>5
<1> QED BY <1>2, <1>3 DEF Mount

LEMMA ReconnectCalm ==
    ASSUME TypeOK, CalmPage, Reconnect
    PROVE  CalmPage'
PROOF
<1> SUFFICES ASSUME calm' PROVE PageFollows' /\ WritesStayApart' BY DEF CalmPage
<1>1. UNCHANGED <<page, row, data, twice, invalid, open, mut>> /\ open /\ fetch' = Started BY DEF Reconnect
<1>2. calm /\ \A m \in InFlight : MayRunBesideFetch(mut[m].hook) BY DEF Reconnect
<1>3. PageFollows BY <1>2 DEF CalmPage
<1>4. (\A m \in Mutations : ~Writing(m)) /\ (InFlight # {} => data # None) BY <1>2, BesideRefetches
<1>5. PageFollows' BY <1>1, <1>3, <1>4 DEF PageFollows, NothingStored, InFlight, View, Started
<1>6. WritesStayApart' BY <1>1, <1>4, NoWriters DEF Writing
<1> QED BY <1>5, <1>6

LEMMA UnmountCalm ==
    ASSUME TypeOK, CalmPage, Unmount
    PROVE  CalmPage'
PROOF
<1> SUFFICES ASSUME calm' PROVE PageFollows' /\ WritesStayApart' BY DEF CalmPage
<1>1. UNCHANGED <<page, row, data, twice, invalid, fetch, mut>> /\ ~open' BY DEF Unmount
<1>2. calm /\ (fetch.stage = "none" \/ InFlight = {}) BY DEF Unmount
<1>3. PageFollows /\ WritesStayApart BY <1>2 DEF CalmPage
<1>4. PageFollows' BY <1>1, <1>2, <1>3 DEF PageFollows, NothingStored, InFlight, View
<1>5. WritesStayApart' BY <1>1, <1>3 DEF WritesStayApart, Writing, Differs
<1> QED BY <1>4, <1>5

LEMMA ReadListCalm ==
    ASSUME TypeOK, MutationsComplete, CalmPage, ReadList
    PROVE  CalmPage'
PROOF
<1> SUFFICES ASSUME calm' PROVE PageFollows' /\ WritesStayApart' BY DEF CalmPage
<1>1. UNCHANGED <<page, row, data, twice, invalid, open, mut>> /\ fetch.stage = "sent" BY DEF ReadList
<1>2. fetch'.stage = "read" /\ fetch'.got = View(row) /\ View(row)' = View(row) BY <1>1 DEF ReadList, View
<1>3. CASE InFlight = {}
  <2>1. \A m \in Mutations : mut[m].stage = "free" /\ ~mut[m].cut BY <1>3 DEF InFlight, MutationsComplete
  <2>2. PageFollows' BY <1>1, <1>2, <2>1 DEF PageFollows, NothingStored, InFlight
  <2>3. WritesStayApart' BY <1>1, <2>1, NoWriters DEF Writing
  <2> QED BY <2>2, <2>3
<1>4. CASE calm
  <2>1. PageFollows /\ WritesStayApart BY <1>4 DEF CalmPage
  <2>2. PageFollows' BY <1>1, <1>2, <2>1 DEF PageFollows, NothingStored, InFlight
  <2>3. WritesStayApart' BY <1>1, <2>1, NoWriters DEF WritesStayApart, Writing
  <2> QED BY <2>2, <2>3
<1> QED BY <1>3, <1>4 DEF ReadList

LEMMA ListArrivesCalm ==
    ASSUME TypeOK, FetchComplete, CalmPage, ListArrives
    PROVE  CalmPage'
PROOF
<1> SUFFICES ASSUME calm' PROVE PageFollows' /\ WritesStayApart' BY DEF CalmPage
<1>1. /\ UNCHANGED <<page, row, open, mut>> /\ calm
      /\ fetch.stage = "read" /\ data' = fetch.got /\ twice' = {} /\ invalid' = FALSE /\ fetch' = NoFetch
    BY DEF ListArrives
<1>2. PageFollows /\ WritesStayApart BY <1>1 DEF CalmPage
<1>3. View(row)' = View(row) /\ data' # None BY <1>1 DEF View, FetchComplete
<1>4. PageFollows' BY <1>1, <1>2, <1>3 DEF PageFollows, NothingStored, InFlight, NoFetch
<1>5. WritesStayApart' BY <1>1, <1>2, NoWriters DEF WritesStayApart, Writing
<1> QED BY <1>4, <1>5

(* A mutation that is taken back, or fetches again. *)
LEMMA RestartCalm ==
    ASSUME TypeOK, CalmPage, calm, NEW m \in Mutations, mut[m].stage # "free", Done(m),
           mut[m].hook.then \in Refetching, UNCHANGED <<page, row, twice, open>>,
           data' = None <=> data = None, Invalidate
    PROVE  PageFollows' /\ WritesStayApart'
PROOF
<1>1. PageFollows /\ WritesStayApart BY DEF CalmPage
<1>2. \A n \in Mutations : ~Writing(n) BY <1>1, WritersMeetWriters
<1>3. mut'[m].stage = "free" /\ ~mut'[m].cut /\ \A n \in Mutations : n # m => mut'[n] = mut[n]
    BY DEF Done, Idle, TypeOK
<1>4. WritesStayApart' BY <1>2, <1>3, NoWriters DEF Writing
<1>5. m \in InFlight /\ InFlight' \subseteq InFlight BY <1>3 DEF InFlight
<1>6. invalid' = TRUE BY DEF Invalidate
<1>7. CASE open
  <2>1. fetch' = Started \/ (data = None /\ fetch' = Joined) BY <1>7 DEF Invalidate
  <2>2. data = None => fetch.stage = "none" /\ InFlight' = {}
      BY <1>1, <1>3, <1>5 DEF PageFollows, InFlight
  <2>3. fetch'.stage = "sent" BY <2>1, <2>2 DEF Joined, Started
  <2> QED BY <1>1, <1>3, <1>4, <1>6, <1>7, <2>2, <2>3 DEF PageFollows
<1>8. CASE ~open
  <2>1. fetch' = fetch /\ fetch.stage = "none" BY <1>1, <1>5, <1>8 DEF Invalidate, PageFollows
  <2> QED BY <1>1, <1>3, <1>4, <1>5, <1>6, <1>8, <2>1 DEF PageFollows
<1> QED BY <1>7, <1>8

LEMMA RefetchListCalm ==
    ASSUME TypeOK, CalmPage, NEW m \in Mutations, RefetchList(m)
    PROVE  CalmPage'
PROOF
<1> SUFFICES ASSUME calm' PROVE PageFollows' /\ WritesStayApart' BY DEF CalmPage
<1>1. /\ calm /\ mut[m].stage # "free" /\ Done(m) /\ mut[m].hook.then \in Refetching
      /\ UNCHANGED <<page, row, twice, open, data>> /\ Invalidate
    BY DEF RefetchList, Answered
<1> QED BY <1>1, RestartCalm

LEMMA ToggleRestoresCalm ==
    ASSUME TypeOK, MutationsComplete, CalmPage, calm, NEW m \in Mutations, mut[m].stage # "free", Done(m),
           mut[m].hook.then = "toggle", UNCHANGED <<page, row, twice, open>>, Restore(m)
    PROVE  PageFollows' /\ WritesStayApart'
PROOF
<1>1. mut[m].list # None BY HookShape DEF MutationsComplete, TypeOK
<1>2. data' = mut[m].list /\ Invalidate BY DEF Restore
<1>3. CASE data # None BY <1>1, <1>2, <1>3, RestartCalm DEF Refetching
<1>4. CASE data = None
  <2>1. PageFollows BY DEF CalmPage
  <2>2. \A n \in Mutations : ~Writing(n) BY WritersMeetWriters DEF CalmPage, Refetching
  <2>3. mut'[m].stage = "free" /\ ~mut'[m].cut /\ \A n \in Mutations : n # m => mut'[n] = mut[n]
      BY DEF Done, Idle, TypeOK
  <2>4. WritesStayApart' BY <2>2, <2>3, NoWriters DEF Writing
  <2>5. m \in InFlight BY DEF InFlight
  <2>6. \A n \in InFlight : n = m BY <1>4, <2>1, <2>5 DEF PageFollows
  <2>7. InFlight' = {} BY <2>3, <2>6 DEF InFlight
  <2>8. fetch.stage = "none" BY <1>4, <2>1, <2>5 DEF PageFollows
  <2>9. invalid' = TRUE /\ fetch' = (IF open THEN Started ELSE fetch) BY <1>1, <1>2 DEF Invalidate
  <2> QED BY <2>1, <2>3, <2>4, <2>7, <2>8, <2>9 DEF PageFollows, Started
<1> QED BY <1>3, <1>4

LEMMA CutCalm ==
    ASSUME TypeOK, MutationsComplete, CalmPage, NEW m \in Mutations, Cut(m)
    PROVE  CalmPage'
PROOF
<1> SUFFICES ASSUME calm' PROVE PageFollows' /\ WritesStayApart' BY DEF CalmPage
<1>1. calm /\ mut[m].hook.then = "toggle" /\ mut[m].stage \in {"stored", "ready"} BY DEF Cut
<1>2. Done(m) /\ mut[m].stage # "free" BY <1>1 DEF Cut, Done
<1>3. UNCHANGED <<page, row, twice, open>> /\ Restore(m) BY DEF Cut
<1> QED BY <1>1, <1>2, <1>3, ToggleRestoresCalm

(* The items of two functions. *)
LEMMA SameRows ==
    ASSUME NEW r \in Rows, NEW s \in Rows, \A i \in Ids : r[i] = s[i]
    PROVE  r = s
BY DEF Rows

(* A writing mutation that ends with its item as it is on the server. *)
LEMMA WrittenCalm ==
    ASSUME TypeOK, TypeOK', MutationsComplete, CalmPage, calm, NEW m \in Mutations, Writing(m), Done(m),
           UNCHANGED <<page, row, open, fetch>>, data' \in Rows, twice' = {}, invalid' = FALSE,
           data' = row \/ (/\ mut[m].hook.then # "set"
                           /\ \A i \in Ids : data'[i] = IF i = mut[m].id THEN row[i] ELSE data[i])
    PROVE  PageFollows' /\ WritesStayApart'
PROOF
<1>1. PageFollows /\ WritesStayApart BY DEF CalmPage
<1>2. mut'[m].stage = "free" /\ ~mut'[m].cut /\ \A n \in Mutations : n # m => mut'[n] = mut[n]
    BY DEF Done, Idle, TypeOK
<1>3. \A n \in Mutations : Writing(n)' => n # m /\ Writing(n) BY <1>2 DEF Writing
<1>4. /\ page # "preferences" /\ fetch.stage = "none"
      /\ data # None /\ twice = {}
    BY <1>1 DEF WritesStayApart
<1>5. data' # None BY ViewType
<1>6. \A n \in Mutations : Writing(n)' =>
          /\ mut[n].id # mut[m].id /\ mut[m].hook.then \in ByItem /\ mut[n].hook.then \in ByItem /\ mut[n].id \in Ids
    BY <1>1, <1>3 DEF WritesStayApart, Writing, MutationsComplete
<1>7. \A i \in Ids : (\A n \in Mutations : Writing(n)' => mut[n].id # i) => data'[i] = row[i]
  <2> SUFFICES ASSUME NEW i \in Ids, \A n \in Mutations : Writing(n)' => mut[n].id # i, data' # row
               PROVE  data'[i] = row[i]
      OBVIOUS
  <2>1. mut[m].hook.then # "set" /\ data'[i] = IF i = mut[m].id THEN row[i] ELSE data[i] OBVIOUS
  <2>2. CASE i = mut[m].id BY <2>1, <2>2
  <2>3. CASE i # mut[m].id
    <3>1. \A n \in Mutations : Writing(n) => mut[n].id # i BY <1>2, <2>3 DEF Writing
    <3> QED BY <1>1, <2>1, <2>3, <3>1 DEF WritesStayApart
  <2> QED BY <2>2, <2>3
<1>8. \A n \in Mutations : Writing(n)' => data'[mut[n].id] = data[mut[n].id] \/ data' = row
    BY <1>6
<1>9. \A n \in Mutations : Writing(n)' => Differs(n)'
  <2> SUFFICES ASSUME NEW n \in Mutations, Writing(n)' PROVE Differs(n)' OBVIOUS
  <2>1. Differs(n) /\ Writing(n) /\ mut'[n] = mut[n] BY <1>1, <1>2, <1>3 DEF WritesStayApart
  <2>2. mut[n].hook.then \in {"map", "filter"} BY <1>6 DEF ByItem
  <2>3. data'[mut[n].id] = data[mut[n].id] \/ data'[mut[n].id] = row[mut[n].id] BY <1>8
  <2> QED BY <2>1, <2>2, <2>3 DEF Differs
<1>10. WritesStayApart'
    BY <1>1, <1>2, <1>3, <1>4, <1>5, <1>6, <1>7, <1>9 DEF WritesStayApart, Writing, ByItem
<1>11. (\A n \in Mutations : ~Writing(n)') => data' = row
    BY <1>7, SameRows DEF TypeOK
<1>12. NothingStored' => \A n \in Mutations : ~Writing(n)'
    BY DEF NothingStored, InFlight, Writing, Refetching
<1>13. View(row)' = row BY <1>4 DEF View
<1>14. PageFollows' BY <1>1, <1>2, <1>4, <1>5, <1>11, <1>12, <1>13 DEF PageFollows, InFlight
<1> QED BY <1>10, <1>14

LEMMA RefusedCalm ==
    ASSUME TypeOK, TypeOK', MutationsComplete, CalmPage, NEW m \in Mutations, Refused(m)
    PROVE  CalmPage'
PROOF
<1> SUFFICES ASSUME calm' PROVE PageFollows' /\ WritesStayApart' BY DEF CalmPage
<1>1. calm /\ mut[m].stage = "refused" /\ Done(m) /\ Restore(m) /\ UNCHANGED <<page, row, twice, open>>
    BY DEF Refused
<1>2. CASE mut[m].hook.then = "toggle" BY <1>1, <1>2, ToggleRestoresCalm
<1>3. CASE mut[m].hook.then # "toggle"
  <2>1. UNCHANGED <<data, invalid, fetch>> BY <1>1, <1>3 DEF Restore
  <2>2. PageFollows /\ WritesStayApart BY <1>1 DEF CalmPage
  <2>3. mut[m].hook \in Hooks[page] /\ mut[m].id \in Ids BY <1>1 DEF MutationsComplete
  <2>4. mut[m].hook.then \in {"map", "filter", "prepend", "set", "refetch"} BY <1>3, <2>3, HookShape DEF TypeOK
  <2>5. CASE mut[m].hook.then = "refetch"
    <3>1. \A n \in Mutations : ~Writing(n) BY <1>1, <2>2, <2>5, WritersMeetWriters DEF Refetching
    <3>2. mut'[m].stage = "free" /\ ~mut'[m].cut /\ \A n \in Mutations : n # m => mut'[n] = mut[n]
        BY <1>1 DEF Done, Idle, TypeOK
    <3>3. WritesStayApart' BY <3>1, <3>2, NoWriters DEF Writing
    <3>4. NothingStored' => NothingStored BY <1>1, <2>5, <3>2 DEF NothingStored, InFlight
    <3>5. m \in InFlight /\ InFlight' \subseteq InFlight BY <1>1, <3>2 DEF InFlight
    <3>6. View(row)' = View(row) BY <1>1 DEF View
    <3>7. \A n \in InFlight' : n \in InFlight /\ n # m BY <3>2, <3>5 DEF InFlight
    <3> QED BY <1>1, <2>1, <2>2, <3>2, <3>3, <3>4, <3>5, <3>6, <3>7 DEF PageFollows
  <2>6. CASE mut[m].hook.then # "refetch"
    <3>1. Writing(m) BY <1>1, <1>3, <2>6 DEF Writing, Refetching
    <3>2. data \in Rows /\ twice = {} /\ invalid = FALSE BY <2>2, <3>1 DEF WritesStayApart, TypeOK
    <3>3. Differs(m) BY <2>2, <3>1 DEF WritesStayApart
    <3>4. CASE mut[m].hook.then = "set"
        BY <1>1, <2>1, <3>1, <3>2, <3>3, <3>4, WrittenCalm DEF Differs
    <3>5. CASE mut[m].hook.then # "set"
      <4>1. data[mut[m].id] = row[mut[m].id] BY <1>1, <2>4, <2>6, <3>3, <3>5 DEF Differs
      <4> QED BY <1>1, <2>1, <3>1, <3>2, <3>5, <4>1, WrittenCalm
    <3> QED BY <3>4, <3>5
  <2> QED BY <2>5, <2>6
<1> QED BY <1>2, <1>3

LEMMA AnsweredCalm ==
    ASSUME TypeOK, TypeOK', MutationsComplete, CalmPage, NEW m \in Mutations,
           WriteItem(m) \/ PrependItem(m) \/ FilterItem(m) \/ WriteList(m)
    PROVE  CalmPage'
PROOF
<1> SUFFICES ASSUME calm' PROVE PageFollows' /\ WritesStayApart' BY DEF CalmPage
<1>1. calm /\ mut[m].stage = "ready" /\ Done(m) /\ UNCHANGED <<page, row, open>>
    BY DEF WriteItem, PrependItem, FilterItem, WriteList, Answered
<1>2. Writing(m) BY <1>1 DEF WriteItem, PrependItem, FilterItem, WriteList, Writing, Refetching
<1>3. data \in Rows /\ data # None /\ twice = {} /\ invalid = FALSE /\ Differs(m) /\ row \in Rows /\ row # None
    BY <1>1, <1>2, ViewType DEF CalmPage, WritesStayApart, TypeOK
<1>4. mut[m].id \in Ids BY <1>1 DEF MutationsComplete
<1>5. CASE WriteItem(m)
  <2>1. mut[m].hook.then = "map" /\ data' = [data EXCEPT ![mut[m].id] = mut[m].got] /\ twice' = {}
      BY <1>3, <1>5 DEF WriteItem, SetQueryData, Differs
  <2>2. fetch' = fetch /\ invalid' = FALSE BY <1>3, <1>5 DEF WriteItem, SetQueryData
  <2>3. mut[m].got = row[mut[m].id] BY <1>1, <1>3, <2>1 DEF Differs
  <2>4. data' \in Rows /\ \A i \in Ids : data'[i] = IF i = mut[m].id THEN row[i] ELSE data[i]
      BY <1>3, <2>1, <2>3 DEF Rows
  <2> QED BY <1>1, <1>2, <2>1, <2>2, <2>4, WrittenCalm
<1>6. CASE PrependItem(m)
  <2>1. mut[m].hook.then = "prepend" /\ data' = [data EXCEPT ![mut[m].id] = mut[m].got]
      BY <1>3, <1>6 DEF PrependItem, SetQueryData
  <2>2. fetch' = fetch /\ invalid' = FALSE BY <1>3, <1>6 DEF PrependItem, SetQueryData
  <2>3. mut[m].got = row[mut[m].id] /\ data[mut[m].id] = None BY <1>1, <1>3, <2>1 DEF Differs
  <2>4. twice' = {} BY <1>3, <1>6, <2>3 DEF PrependItem
  <2>5. data' \in Rows /\ \A i \in Ids : data'[i] = IF i = mut[m].id THEN row[i] ELSE data[i]
      BY <1>3, <2>1, <2>3 DEF Rows
  <2> QED BY <1>1, <1>2, <2>1, <2>2, <2>4, <2>5, WrittenCalm
<1>7. CASE FilterItem(m)
  <2>1. mut[m].hook.then = "filter" /\ data' = [data EXCEPT ![mut[m].id] = None] /\ twice' = {}
      BY <1>3, <1>7 DEF FilterItem, SetQueryData
  <2>2. fetch' = fetch /\ invalid' = FALSE BY <1>3, <1>7 DEF FilterItem, SetQueryData
  <2>3. row[mut[m].id] = None BY <1>1, <1>3, <2>1 DEF Differs
  <2>4. data' \in Rows /\ \A i \in Ids : data'[i] = IF i = mut[m].id THEN row[i] ELSE data[i]
      BY <1>3, <2>1, <2>3 DEF Rows
  <2> QED BY <1>1, <1>2, <2>1, <2>2, <2>4, WrittenCalm
<1>8. CASE WriteList(m)
  <2>1. mut[m].hook.then = "set" /\ data' = mut[m].list /\ twice' = {} BY <1>8 DEF WriteList, SetQueryData
  <2>2. mut[m].list = row BY <1>1, <1>3, <2>1 DEF Differs
  <2>3. fetch' = fetch /\ invalid' = FALSE BY <1>3, <1>8 DEF WriteList, SetQueryData
  <2> QED BY <1>1, <1>2, <1>3, <2>1, <2>2, <2>3, WrittenCalm
<1> QED BY <1>5, <1>6, <1>7, <1>8

(* A step of a request on the server that leaves the other items alone. *)
LEMMA ServedCalm ==
    ASSUME TypeOK, CalmPage, calm, NEW m \in Mutations, NEW q, mut' = [mut EXCEPT ![m] = q],
           mut[m].stage # "free", q.stage # "free", ~q.cut, q.hook = mut[m].hook, q.id = mut[m].id,
           UNCHANGED <<page, data, twice, invalid, open, fetch>>,
           NothingStored' => NothingStored /\ row' = row,
           Writing(m) => /\ Differs(m)'
                         /\ \A i \in Ids : mut[m].hook.then # "set" /\ i # mut[m].id => row'[i] = row[i],
           MutationsComplete
    PROVE  PageFollows' /\ WritesStayApart'
PROOF
<1>1. PageFollows /\ WritesStayApart BY DEF CalmPage
<1>2. mut'[m] = q /\ \A n \in Mutations : n # m => mut'[n] = mut[n] BY DEF TypeOK
<1>3. /\ \A n \in Mutations : mut'[n].hook = mut[n].hook /\ mut'[n].id = mut[n].id
      /\ \A n \in Mutations : mut'[n].stage # "free" <=> mut[n].stage # "free"
    BY <1>2
<1>4. (\A n \in Mutations : Writing(n)' <=> Writing(n)) /\ InFlight' = InFlight BY <1>3 DEF Writing, InFlight
<1>5. row' = row => View(row)' = View(row) BY DEF View
<1>6. PageFollows' BY <1>1, <1>2, <1>4, <1>5 DEF PageFollows
<1>7. \A n \in Mutations : Writing(n) => Writing(m) /\ (n # m => mut[n].id # mut[m].id /\ mut[n].hook.then \in ByItem
                                                               /\ mut[m].hook.then \in ByItem)
    BY <1>1 DEF WritesStayApart, Writing
<1>8. ASSUME NEW n \in Mutations, Writing(n), n # m PROVE Differs(n)'
  <2>1. mut'[n] = mut[n] /\ Differs(n) BY <1>1, <1>2, <1>8 DEF WritesStayApart
  <2>2. mut[n].id \in Ids BY <1>8 DEF Writing, MutationsComplete
  <2>3. row'[mut[n].id] = row[mut[n].id] BY <1>7, <1>8, <2>2 DEF ByItem
  <2>4. mut[n].hook.then \in {"map", "filter"} BY <1>7, <1>8 DEF ByItem
  <2> QED BY <2>1, <2>3, <2>4 DEF Differs
<1>9. ASSUME NEW n \in Mutations, Writing(n), mut[n].hook.then # "set", NEW i \in Ids,
             \A k \in Mutations : Writing(k) => mut[k].id # i
      PROVE  data[i] = row'[i]
  <2>1. Writing(m) /\ mut[m].id # i /\ data[i] = row[i] BY <1>1, <1>7, <1>9 DEF WritesStayApart
  <2>2. mut[m].hook.then # "set" BY <1>7, <1>9 DEF ByItem
  <2> QED BY <2>1, <2>2
<1>10. WritesStayApart' BY <1>1, <1>3, <1>4, <1>7, <1>8, <1>9 DEF WritesStayApart
<1> QED BY <1>6, <1>10

(* The steps of a request that stays under way. *)
LEMMA StepFacts ==
    ASSUME TypeOK, MutationsComplete, CalmPage, calm, NEW m \in Mutations, mut[m].stage # "free",
           NEW s \in {"found", "stored", "ready", "refused"}, NEW g, Step(m, s, g)
    PROVE  \E q : /\ mut' = [mut EXCEPT ![m] = q] /\ q = mut'[m]
                  /\ q.stage = s /\ q.hook = mut[m].hook /\ q.id = mut[m].id /\ q.val = mut[m].val
                  /\ q.list = mut[m].list /\ q.got = g /\ ~q.cut
PROOF
<1>1. ~mut[m].cut BY DEF CalmPage, PageFollows
<1>2. mut' = [mut EXCEPT ![m] = [mut[m] EXCEPT !.stage = s, !.got = g]] BY <1>1 DEF Step, TypeOK
<1>3. mut'[m] = [mut[m] EXCEPT !.stage = s, !.got = g] BY <1>2 DEF TypeOK
<1>4. LET q == [mut[m] EXCEPT !.stage = s, !.got = g]
      IN  /\ q.stage = s /\ q.hook = mut[m].hook /\ q.id = mut[m].id /\ q.val = mut[m].val
          /\ q.list = mut[m].list /\ q.got = g /\ q.cut = mut[m].cut
    BY DEF TypeOK, MutationStates
<1> QED BY <1>1, <1>2, <1>3, <1>4

LEMMA StoreCalm ==
    ASSUME TypeOK, TypeOK', MutationsComplete, CalmPage, NEW m \in Mutations, Store(m)
    PROVE  CalmPage'
PROOF
<1> SUFFICES ASSUME calm' PROVE PageFollows' /\ WritesStayApart' BY DEF CalmPage
<1>1. /\ calm /\ mut[m].stage = "sent" /\ Step(m, "stored", None) /\ row' = Written(mut[m])
      /\ UNCHANGED <<page, data, twice, invalid, open, fetch>>
    BY DEF Store, OnServer
<1>2. PICK q : /\ mut' = [mut EXCEPT ![m] = q] /\ q = mut'[m]
               /\ q.stage = "stored" /\ q.hook = mut[m].hook /\ q.id = mut[m].id /\ q.val = mut[m].val
               /\ q.list = mut[m].list /\ q.got = None /\ ~q.cut
    BY <1>1, StepFacts
<1>3. /\ mut[m].hook \in Hooks[page] /\ mut[m].id \in Ids /\ mut[m].val \in BOOLEAN
    BY <1>1 DEF MutationsComplete
<1>4. ~NothingStored' BY <1>1, <1>2 DEF NothingStored, InFlight
<1>5. ASSUME Writing(m)
      PROVE  /\ Differs(m)'
             /\ \A i \in Ids : mut[m].hook.then # "set" /\ i # mut[m].id => row'[i] = row[i]
  <2>1. Differs(m) BY <1>1, <1>5 DEF CalmPage, WritesStayApart
  <2>2. mut[m].val # None BY <1>3, NoneAssumption
  <2>3. mut[m].hook.then = "map" => mut[m].hook.op = "update" BY <1>3, HookShape DEF TypeOK
  <2>4. mut[m].hook.then = "filter" => mut[m].hook.op = "delete" BY <1>3, HookShape DEF TypeOK
  <2>5. mut[m].hook.then = "prepend" => mut[m].hook.op = "create" BY <1>3, HookShape DEF TypeOK
  <2>6. mut[m].hook.then \in {"map", "prepend"} => row' = [row EXCEPT ![mut[m].id] = mut[m].val]
      BY <1>1, <2>3, <2>5 DEF Written
  <2>7. mut[m].hook.then = "filter" => row' = [row EXCEPT ![mut[m].id] = None]
      BY <1>1, <2>4 DEF Written
  <2>8. /\ mut[m].hook.then \in {"map", "prepend"} => row'[mut[m].id] = mut[m].val
        /\ mut[m].hook.then = "filter" => row'[mut[m].id] = None
      BY <1>3, <2>6, <2>7 DEF TypeOK, Rows
  <2>9. Differs(m)' BY <1>1, <1>2, <2>1, <2>2, <2>8 DEF Differs
  <2>10. mut[m].hook.then \in {"map", "filter", "prepend", "set"}
      BY <1>3, <1>5, HookShape DEF TypeOK, Writing, Refetching
  <2>11. \A i \in Ids : mut[m].hook.then # "set" /\ i # mut[m].id => row'[i] = row[i]
      BY <2>6, <2>7, <2>10 DEF TypeOK, Rows
  <2> QED BY <2>9, <2>11
<1> QED BY <1>1, <1>2, <1>4, <1>5, ServedCalm

(* The page of the switches knows no writing mutations. *)
LEMMA SwitchesDoNotWrite ==
    ASSUME TypeOK, MutationsComplete, NEW m \in Mutations, page = "preferences"
    PROVE  ~Writing(m) /\ (mut[m].stage # "free" => mut[m].hook.then = "toggle")
BY HookShape DEF MutationsComplete, TypeOK, Writing, Refetching

LEMMA PreferenceCalm ==
    ASSUME TypeOK, TypeOK', MutationsComplete, CalmPage, NEW m \in Mutations,
           FindPreference(m) \/ StorePreference(m), page = "preferences"
    PROVE  CalmPage'
PROOF
<1> SUFFICES ASSUME calm' PROVE PageFollows' /\ WritesStayApart' BY DEF CalmPage
<1>1. calm /\ mut[m].stage # "free" /\ UNCHANGED <<page, data, twice, invalid, open, fetch>>
    BY DEF FindPreference, StorePreference, OnServer
<1>a. PICK s \in {"found", "stored", "ready", "refused"} : \E g : Step(m, s, g)
    BY DEF FindPreference, StorePreference
<1>2. PICK g : Step(m, s, g) BY <1>a
<1>3. PICK q : /\ mut' = [mut EXCEPT ![m] = q] /\ q = mut'[m]
               /\ q.stage = s /\ q.hook = mut[m].hook /\ q.id = mut[m].id /\ q.val = mut[m].val
               /\ q.list = mut[m].list /\ q.got = g /\ ~q.cut
    BY <1>1, <1>2, StepFacts
<1>4. mut[m].hook.then = "toggle" /\ ~Writing(m) BY <1>1, SwitchesDoNotWrite
<1>5. ~NothingStored' BY <1>3, <1>4 DEF NothingStored, InFlight
<1> QED BY <1>1, <1>3, <1>4, <1>5, ServedCalm

LEMMA RefuseCalm ==
    ASSUME TypeOK, TypeOK', MutationsComplete, CalmPage, NEW m \in Mutations, Refuse(m)
    PROVE  CalmPage'
PROOF
<1> SUFFICES ASSUME calm' PROVE PageFollows' /\ WritesStayApart' BY DEF CalmPage
<1>1. /\ calm /\ mut[m].stage \in {"sent", "found"} /\ Step(m, "refused", None)
      /\ UNCHANGED <<page, row, data, twice, invalid, open, fetch>>
    BY DEF Refuse, OnServer
<1>2. PICK q : /\ mut' = [mut EXCEPT ![m] = q] /\ q = mut'[m]
               /\ q.stage = "refused" /\ q.hook = mut[m].hook /\ q.id = mut[m].id /\ q.val = mut[m].val
               /\ q.list = mut[m].list /\ q.got = None /\ ~q.cut
    BY <1>1, StepFacts
<1>3. mut[m].stage = "found" => mut[m].hook.then = "toggle" /\ ~Writing(m)
    BY <1>1, SwitchesDoNotWrite DEF MutationsComplete
<1>4. NothingStored' => NothingStored BY <1>1, <1>2, <1>3 DEF NothingStored, InFlight, TypeOK
<1>5. ASSUME Writing(m) PROVE Differs(m)'
  <2>1. Differs(m) BY <1>1, <1>5 DEF CalmPage, WritesStayApart
  <2>2. mut[m].stage = "sent" BY <1>1, <1>3, <1>5
  <2> QED BY <1>1, <1>2, <2>1, <2>2 DEF Differs
<1> QED BY <1>1, <1>2, <1>4, <1>5, ServedCalm

LEMMA AnswerCalm ==
    ASSUME TypeOK, TypeOK', MutationsComplete, CalmPage, NEW m \in Mutations, Answer(m)
    PROVE  CalmPage'
PROOF
<1> SUFFICES ASSUME calm' PROVE PageFollows' /\ WritesStayApart' BY DEF CalmPage
<1>1. calm /\ mut[m].stage = "stored" /\ UNCHANGED <<page, row, data, twice, invalid, open, fetch>>
    BY DEF Answer, OnServer
<1>2. mut[m].hook \in Hooks[page] /\ mut[m].id \in Ids BY <1>1 DEF MutationsComplete
<1>3. /\ mut[m].hook.answer \in {"none", "echo", "item", "list"}
      /\ mut[m].hook.then = "map" => mut[m].hook.answer \in {"item", "echo"}
      /\ mut[m].hook.then = "filter" => mut[m].hook.answer = "none"
      /\ mut[m].hook.then = "prepend" => mut[m].hook.answer = "echo"
      /\ mut[m].hook.then = "set" => mut[m].hook.answer = "list"
      /\ mut[m].hook.then = "refetch" => mut[m].hook.answer = "none"
      /\ mut[m].hook.answer = "list" => mut[m].hook.then = "set"
    BY <1>2, HookShape DEF TypeOK
<1>4. Writing(m) => Differs(m) BY <1>1 DEF CalmPage, WritesStayApart
<1>5. CASE mut[m].hook.answer = "list"
  <2>1. mut' = [mut EXCEPT ![m] = [mut[m] EXCEPT !.stage = "ready", !.list = row]]
      BY <1>5 DEF Answer, TypeOK, MutationStates
  <2>2. /\ mut'[m].stage = "ready" /\ mut'[m].hook = mut[m].hook /\ mut'[m].id = mut[m].id
        /\ mut'[m].list = row /\ mut'[m].cut = mut[m].cut
      BY <2>1 DEF TypeOK, MutationStates
  <2>3. ~mut[m].cut BY <1>1 DEF MutationsComplete
  <2>4. mut' = [mut EXCEPT ![m] = mut'[m]] BY <2>1 DEF TypeOK
  <2>5. mut[m].hook.then = "set" /\ ~NothingStored' BY <1>3, <1>5, <2>2 DEF NothingStored, InFlight
  <2>6. Differs(m)' BY <1>1, <2>2, <2>5 DEF Differs
  <2> QED BY <1>1, <2>2, <2>3, <2>4, <2>5, <2>6, ServedCalm
<1>6. CASE mut[m].hook.answer # "list"
  <2>a. PICK s \in {"ready", "refused"} :
            \E g : /\ Step(m, s, g)
                   /\ mut[m].hook.answer = "none" => s = "ready"
                   /\ mut[m].hook.answer = "echo" => s = "ready" /\ g = mut[m].val
                   /\ mut[m].hook.answer = "item" => g = row[mut[m].id] /\ (s = "refused" => g = None)
      BY <1>3, <1>6 DEF Answer
  <2>1. PICK g : /\ Step(m, s, g)
                 /\ mut[m].hook.answer = "none" => s = "ready"
                 /\ mut[m].hook.answer = "echo" => s = "ready" /\ g = mut[m].val
                 /\ mut[m].hook.answer = "item" => g = row[mut[m].id] /\ (s = "refused" => g = None)
      BY <2>a
  <2>2. PICK q : /\ mut' = [mut EXCEPT ![m] = q] /\ q = mut'[m]
                 /\ q.stage = s /\ q.hook = mut[m].hook /\ q.id = mut[m].id /\ q.val = mut[m].val
                 /\ q.list = mut[m].list /\ q.got = g /\ ~q.cut
      BY <1>1, <2>1, StepFacts
  <2>3. ~NothingStored' BY <1>3, <2>1, <2>2 DEF NothingStored, InFlight, TypeOK
  <2>4. ASSUME Writing(m) PROVE Differs(m)'
    <3>1. Differs(m) /\ mut[m].hook.then # "set" BY <1>3, <1>4, <1>6, <2>4
    <3>2. mut[m].hook.then = "map" => s = "ready" /\ g = row[mut[m].id]
        BY <1>1, <1>3, <2>1, <3>1 DEF Differs
    <3>3. mut[m].hook.then = "prepend" => s = "ready" /\ g = row[mut[m].id]
        BY <1>1, <1>3, <2>1, <3>1 DEF Differs
    <3>4. mut[m].hook.then = "filter" => s = "ready" BY <1>3, <2>1
    <3> QED BY <1>1, <2>2, <3>1, <3>2, <3>3, <3>4 DEF Differs
  <2> QED BY <1>1, <2>1, <2>2, <2>3, <2>4, ServedCalm
<1> QED BY <1>5, <1>6

LEMMA SendCalm ==
    ASSUME TypeOK, TypeOK', MutationsComplete, RowsAreUsed, CalmPage,
           NEW m \in Mutations, NEW h \in Hooks[page], NEW i \in Ids, NEW v \in BOOLEAN, Send(m, h, i, v)
    PROVE  CalmPage'
PROOF
<1> SUFFICES ASSUME calm' PROVE PageFollows' /\ WritesStayApart' BY DEF CalmPage
<1>1. /\ calm /\ open /\ mut[m].stage = "free" /\ Offered(h, i) /\ UNCHANGED <<page, row, used, twice, open>>
      /\ fetch.stage = "none" \/ MayRunBesideFetch(h)
      /\ \A n \in InFlight : MayOverlap(h, i, mut[n].hook, mut[n].id)
      /\ h.then = "prepend" => data # None
    BY DEF Send
<1>2. PageFollows /\ WritesStayApart BY <1>1 DEF CalmPage
<1>3. /\ mut'[m].stage = "sent" /\ mut'[m].hook = h /\ mut'[m].id = i /\ mut'[m].val = v /\ ~mut'[m].cut
      /\ \A n \in Mutations : n # m => mut'[n] = mut[n]
    BY DEF Send, TypeOK, Idle
<1>4. /\ h.op \in {"create", "insert", "update", "delete", "reorder", "set", "read", "readAll"}
      /\ h.then \in {"map", "filter", "prepend", "set", "refetch", "toggle"}
      /\ h.then = "map" => h.op = "update"
      /\ h.then = "filter" => h.op = "delete"
      /\ h.then = "prepend" => h.op = "create"
      /\ h.then = "set" => h.op # "insert"
      /\ h.then = "set" /\ h.op = "create" => page \in {"event", "clan"}
      /\ h.then = "toggle" <=> page = "preferences"
      /\ h.op = "set" <=> page = "preferences"
      /\ h.op \in {"read", "readAll"} => h.then = "refetch"
    BY HookShape DEF TypeOK
<1>5. m \in InFlight' /\ m \notin InFlight /\ \A n \in InFlight' : n = m \/ n \in InFlight
    BY <1>1, <1>3 DEF InFlight
<1>6. CASE h.then \in Refetching
  <2>1. /\ \A n \in InFlight : mut[n].hook.then \in Refetching /\ data # None
        /\ fetch.stage # "none" => data # None
      BY <1>1, <1>6 DEF MayOverlap, MayRunBesideFetch, ByItem, Refetching
  <2>2. \A n \in Mutations : ~Writing(n)' BY <1>3, <1>6, <2>1 DEF Writing, InFlight
  <2>3. WritesStayApart' BY <2>2, NoWriters
  <2>4. CASE h.then = "toggle"
    <3>1. data' = [data EXCEPT ![i] = v] /\ invalid' = FALSE /\ fetch' = NoFetch BY <2>4 DEF Send, Show
    <3>2. data \in Rows BY <1>1, <1>4, <2>4 DEF Offered, TypeOK
    <3>3. data' # None BY <3>1, <3>2, RowUpdate, v \in BOOLEAN \cup {None}, ViewType
    <3>4. ~NothingStored' BY <1>3, <1>5, <2>4 DEF NothingStored
    <3> QED BY <1>1, <1>2, <1>3, <2>3, <3>1, <3>3, <3>4 DEF PageFollows, NoFetch
  <2>5. CASE h.then = "refetch"
    <3>1. UNCHANGED <<data, invalid, fetch>> BY <2>5 DEF Send, Show
    <3>2. NothingStored' => NothingStored BY <1>1, <1>3 DEF NothingStored, InFlight
    <3>3. View(row)' = View(row) BY <1>1 DEF View
    <3>4. data = None => InFlight = {} /\ fetch.stage = "none" BY <2>1
    <3> QED BY <1>1, <1>2, <1>3, <1>5, <2>3, <3>1, <3>2, <3>3, <3>4 DEF PageFollows
  <2> QED BY <1>6, <2>4, <2>5 DEF Refetching
<1>7. CASE h.then \notin Refetching
  <2>1. UNCHANGED <<data, invalid, fetch>> BY <1>7 DEF Send, Show, Refetching
  <2>2. fetch.stage = "none" /\ invalid = FALSE /\ page # "preferences"
      BY <1>1, <1>2, <1>4, <1>7 DEF MayRunBesideFetch, PageFollows, TypeOK, Refetching
  <2>3. \A n \in InFlight : h.then \in ByItem /\ mut[n].hook.then \in ByItem /\ i # mut[n].id
      BY <1>1, <1>7 DEF MayOverlap
  <2>4. \A n \in InFlight : n \in Mutations /\ Writing(n) BY <2>3 DEF InFlight, Writing, ByItem, Refetching
  <2>5. data # None BY <1>1, <1>4, <1>7 DEF Offered, Refetching
  <2>6. /\ InFlight = {} => data = row /\ twice = {}
        /\ InFlight # {} => twice = {} /\ h.then \in {"map", "filter"}
    <3>1. InFlight = {} => NothingStored BY DEF NothingStored
    <3>2. View(row) = row BY <2>2 DEF View
    <3>3. InFlight # {} => twice = {} /\ h.then \in {"map", "filter"} BY <1>2, <2>3, <2>4 DEF WritesStayApart, ByItem
    <3> QED BY <1>2, <2>2, <2>5, <3>1, <3>2, <3>3 DEF PageFollows
  <2>7. data[i] = row[i]
    <3>1. CASE InFlight = {} BY <2>6, <3>1
    <3>2. CASE InFlight # {}
      <4>1. PICK n \in InFlight : n \in Mutations /\ Writing(n) /\ mut[n].hook.then # "set"
          BY <2>3, <2>4, <3>2 DEF ByItem
      <4>2. \A k \in Mutations : Writing(k) => mut[k].id # i BY <2>3 DEF Writing, InFlight
      <4> QED BY <1>2, <4>1, <4>2 DEF WritesStayApart
    <3> QED BY <3>1, <3>2
  <2>8. Differs(m)'
    <3>1. h.then = "map" => data[i] # None BY <1>1, <1>4 DEF Offered
    <3>2. h.then = "prepend" => i \notin used BY <1>1, <1>4 DEF Offered
    <3>3. h.then = "prepend" => row[i] = None BY <3>2 DEF RowsAreUsed
    <3>4. h.then = "set" => data = row BY <2>6
    <3> QED BY <1>1, <1>3, <2>1, <2>7, <3>1, <3>3, <3>4 DEF Differs
  <2>9. ASSUME NEW n \in Mutations, n # m, Writing(n)' PROVE Differs(n)' /\ n \in InFlight /\ Writing(n)
    <3>1. mut'[n] = mut[n] /\ Writing(n) /\ n \in InFlight BY <1>3, <2>9 DEF Writing, InFlight
    <3> QED BY <1>1, <1>2, <2>1, <3>1 DEF WritesStayApart, Differs
  <2>10. ASSUME NEW j \in Ids, NEW n \in Mutations, Writing(n)', mut'[n].hook.then # "set",
                \A k \in Mutations : Writing(k)' => mut'[k].id # j
         PROVE  data[j] = row[j]
    <3>1. CASE InFlight = {} BY <2>6, <3>1
    <3>2. CASE InFlight # {}
      <4>1. PICK k \in InFlight : k \in Mutations /\ Writing(k) /\ mut[k].hook.then # "set"
          BY <2>3, <2>4, <3>2 DEF ByItem
      <4>2. \A l \in Mutations : Writing(l) => mut[l].id # j /\ l \in InFlight
          BY <1>1, <1>3, <2>10 DEF Writing, InFlight
      <4> QED BY <1>2, <4>1, <4>2 DEF WritesStayApart
    <3> QED BY <3>1, <3>2
  <2>11. Writing(m)' BY <1>3, <1>7 DEF Writing
  <2>12. ASSUME NEW k \in Mutations, NEW n \in Mutations, k # n, Writing(k)', mut'[n].stage # "free"
         PROVE  Writing(n)' /\ mut'[k].id # mut'[n].id /\ mut'[k].hook.then \in ByItem
    <3>1. CASE k = m
      <4>1. n \in InFlight /\ n # m /\ mut'[n] = mut[n] BY <1>3, <2>12, <3>1 DEF InFlight
      <4> QED BY <1>3, <2>3, <2>4, <3>1, <4>1 DEF Writing
    <3>2. CASE n = m
      <4>1. k \in InFlight /\ mut'[k] = mut[k] BY <1>3, <2>12, <3>2 DEF InFlight, Writing
      <4> QED BY <1>3, <2>3, <2>11, <3>2, <4>1
    <3>3. CASE k # m /\ n # m
      <4>1. mut'[k] = mut[k] /\ mut'[n] = mut[n] BY <1>3, <3>3
      <4> QED BY <1>2, <2>12, <4>1 DEF WritesStayApart, Writing
    <3> QED BY <3>1, <3>2, <3>3
  <2>13. WritesStayApart'
      BY <1>1, <2>1, <2>2, <2>5, <2>6, <2>8, <2>9, <2>10, <2>12 DEF WritesStayApart
  <2>14. ~NothingStored' BY <1>3, <1>5, <1>7 DEF NothingStored, Refetching
  <2>15. PageFollows' BY <1>1, <1>2, <1>3, <2>1, <2>2, <2>5, <2>14 DEF PageFollows
  <2> QED BY <2>13, <2>15
<1> QED BY <1>6, <1>7

LEMMA CalmStep ==
    ASSUME IInv, TypeOK', Next
    PROVE  CalmPage'
PROOF
<1> USE DEF IInv
<1>1. ASSUME NEW old \in BOOLEAN, Mount(old) PROVE CalmPage' BY <1>1, MountCalm
<1>2. CASE Reconnect BY <1>2, ReconnectCalm
<1>3. CASE Unmount BY <1>3, UnmountCalm
<1>4. CASE ReadList BY <1>4, ReadListCalm
<1>5. CASE ListArrives BY <1>5, ListArrivesCalm
<1>6. CASE FetchFails BY <1>6 DEF FetchFails, CalmPage
<1>7. ASSUME NEW m \in Mutations, NEW h \in Hooks[page], NEW i \in Ids, NEW v \in BOOLEAN, Send(m, h, i, v)
      PROVE CalmPage'
    BY <1>7, SendCalm
<1>8. ASSUME NEW m \in Mutations, Cut(m) PROVE CalmPage' BY <1>8, CutCalm
<1>9. ASSUME NEW m \in Mutations, Refused(m) PROVE CalmPage' BY <1>9, RefusedCalm
<1>10. ASSUME NEW m \in Mutations, RefetchList(m) PROVE CalmPage' BY <1>10, RefetchListCalm
<1>11. ASSUME NEW m \in Mutations, WriteItem(m) \/ PrependItem(m) \/ FilterItem(m) \/ WriteList(m)
       PROVE CalmPage'
    BY <1>11, AnsweredCalm
<1>12. ASSUME NEW m \in Mutations, Store(m) PROVE CalmPage' BY <1>12, StoreCalm
<1>13. ASSUME NEW m \in Mutations, FindPreference(m) \/ StorePreference(m) PROVE CalmPage'
  <2>1. page = "preferences"
      BY <1>13, HookShape DEF FindPreference, StorePreference, MutationsComplete, TypeOK
  <2> QED BY <1>13, <2>1, PreferenceCalm
<1>14. ASSUME NEW m \in Mutations, Refuse(m) PROVE CalmPage' BY <1>14, RefuseCalm
<1>15. ASSUME NEW m \in Mutations, Answer(m) PROVE CalmPage' BY <1>15, AnswerCalm
<1>16. CASE Others BY <1>16 DEF Others, CalmPage
<1>17. ASSUME NEW i \in Ids, Emit(i) PROVE CalmPage' BY <1>17, CalmKept DEF Emit, cache
<1>18. CASE CheckPreference BY <1>18, CalmKept DEF CheckPreference, cache
<1>19. CASE Notify BY <1>19, CalmKept DEF Notify, cache
<1>20. CASE EmitFails BY <1>20, CalmKept DEF EmitFails, cache
<1> QED BY <1>1, <1>2, <1>3, <1>4, <1>5, <1>6, <1>7, <1>8, <1>9, <1>10, <1>11, <1>12, <1>13, <1>14, <1>15,
           <1>16, <1>17, <1>18, <1>19, <1>20 DEF Next

-----------------------------------------------------------------------------
(* The theorems.                                                           *)

LEMMA InitIInv == Init => IInv
PROOF
<1> SUFFICES ASSUME Init PROVE IInv OBVIOUS
<1>1. \A m \in Mutations : mut[m].stage = "free" /\ ~mut[m].cut BY DEF Init, Idle
<1>2. PageFollows BY <1>1 DEF Init, PageFollows, InFlight, NoFetch
<1>3. WritesStayApart BY <1>1 DEF WritesStayApart, Writing
<1> QED BY <1>2, <1>3, InitTypeOK DEF IInv, CalmPage

LEMMA StepIInv == IInv /\ [Next]_vars => IInv'
PROOF
<1> SUFFICES ASSUME IInv, [Next]_vars PROVE IInv' OBVIOUS
<1>1. CASE Next
    BY <1>1, TypeStep, MutationsStep, FetchStep, EmissionStep, RowsStep, CalmStep DEF IInv
<1>2. CASE UNCHANGED vars
  <2>1. TypeOK' BY <1>2 DEF IInv, vars, TypeOK, MutationStates
  <2>2. MutationsComplete' /\ FetchComplete' /\ EmissionWarranted' /\ RowsAreUsed'
      BY <1>2, CompletePlain DEF IInv, vars, FetchComplete, EmissionWarranted, RowsAreUsed
  <2>3. CalmPage' BY <1>2, CalmKept DEF IInv, vars
  <2> QED BY <2>1, <2>2, <2>3 DEF IInv
<1> QED BY <1>1, <1>2

LEMMA Inductive == Spec => []IInv
BY InitIInv, StepIInv, PTL DEF Spec

(* Every variable has its type. *)
THEOREM TypeCorrect == Spec => []TypeOK
<1>1. IInv => TypeOK BY DEF IInv
<1> QED BY <1>1, Inductive, PTL

(* However many switches are under way and however their requests end, the *)
(* settings page at rest shows what the server holds.                      *)
THEOREM Switches == Spec => []SwitchesTellTheTruth
<1>1. IInv => SwitchesTellTheTruth
    BY DEF IInv, SwitchesTellTheTruth, AtRest, CalmPage, PageFollows, NothingStored, TypeOK
<1> QED BY <1>1, Inductive, PTL

(* A list at rest shows the items of the server, each once, whichever of   *)
(* its buttons were clicked, one by one or as far as they may overlap.     *)
THEOREM Lists == Spec => []ListsTellTheTruth
<1>1. IInv => ListsTellTheTruth
    BY DEF IInv, ListsTellTheTruth, AtRest, CalmPage, PageFollows, NothingStored, View, TypeOK
<1> QED BY <1>1, Inductive, PTL

(* A notification is stored only if its kind was on at some time since its *)
(* emission began, and dropped only if it was off at some time.            *)
THEOREM Emissions == Spec => EmissionsFollowTheSwitch
<1>1. ASSUME IInv, [Next]_vars
      PROVE  /\ inbox' # inbox => em.on
             /\ em.stage = "begun" /\ em'.stage = "none" /\ faults' = faults => em.off
  <2>1. inbox' # inbox => Notify
      BY <1>1 DEF Next, vars, Mount, Reconnect, Unmount, ReadList, ListArrives, FetchFails, Send, Cut, Refused, RefetchList, WriteItem, PrependItem, FilterItem, WriteList, Store, FindPreference, StorePreference, Refuse, Answer, Others, Emit, CheckPreference, EmitFails, Answered, OnServer, cache
  <2>2. inbox' # inbox => em.on BY <1>1, <2>1 DEF IInv, EmissionWarranted, Notify
  <2>3. ASSUME em.stage = "begun", em'.stage = "none", faults' = faults PROVE em.off
    <3>1. \A r : Watched(r).stage = "none" => em.stage = "none"
        BY <1>1 DEF Watched, IInv, TypeOK, EmissionStates
    <3>2. em' # em BY <2>3
    <3>3. (\E m \in Mutations : StorePreference(m)) \/ Others \/ (\E i \in Ids : Emit(i))
          \/ CheckPreference \/ Notify \/ EmitFails
        BY <1>1, <3>2 DEF Next, vars, Mount, Reconnect, Unmount, ReadList, ListArrives, FetchFails, Send, Cut, Refused, RefetchList, WriteItem, PrependItem, FilterItem, WriteList, Store, FindPreference, Refuse, Answer, Answered, OnServer, cache
    <3>4. ~(\E m \in Mutations : StorePreference(m)) BY <2>3, <3>1, <3>2 DEF StorePreference
    <3>5. ~Others BY <2>3, <3>1 DEF Others
    <3>6. ~(\E i \in Ids : Emit(i)) /\ ~Notify BY <2>3 DEF Emit, Notify
    <3>7. ~EmitFails BY <1>1, <2>3 DEF EmitFails, Fault, IInv, TypeOK
    <3>8. CheckPreference BY <3>3, <3>4, <3>5, <3>6, <3>7
    <3>9. row[em.id] = FALSE BY <2>3, <3>8 DEF CheckPreference
    <3> QED BY <1>1, <2>3, <3>9 DEF IInv, EmissionWarranted
  <2> QED BY <2>2, <2>3
<1>2. [][IInv /\ [Next]_vars]_vars => EmissionsFollowTheSwitch
  <2>1. IInv /\ [Next]_vars =>
            [/\ inbox' # inbox => em.on
             /\ em.stage = "begun" /\ em'.stage = "none" /\ faults' = faults => em.off]_vars
      BY <1>1
  <2> QED BY <2>1, PTL DEF EmissionsFollowTheSwitch
<1> QED BY <1>2, Inductive, PTL DEF Spec

-----------------------------------------------------------------------------
(***************************************************************************)
(* Feeds, from here on.  Screens and Feeds share what is on the screen and *)
(* the counters, no theorem speaks about both.                             *)
(***************************************************************************)
(* Least and greatest of the rows, and what a page holds.                  *)

LEMMA LeastRow ==
    ASSUME NEW S \in SUBSET Nat, S # {}
    PROVE  \E x \in S : \A y \in S : x <= y
<1> DEFINE Less == {p \in Nat \X Nat : p[1] < p[2]}
<1>1. IsWellFoundedOn(Less, Nat)
  BY NatLessThanWellFounded DEF OpToRel
<1>2. PICK x \in S : \A y \in S : ~(<<y, x>> \in Less)
  <2> HIDE DEF Less
  <2> QED
    BY <1>1, WFMin
<1>3. \A y \in S : y < x => <<y, x>> \in Less
  <2> TAKE y \in S
  <2> HAVE y < x
  <2>1. PICK p : p = <<y, x>>
    OBVIOUS
  <2>2. p \in Nat \X Nat /\ p[1] = y /\ p[2] = x
    BY <2>1
  <2> QED
    BY <2>1, <2>2
<1>4. \A y \in S : ~(y < x)
  <2> HIDE DEF Less
  <2> QED
    BY <1>2, <1>3
<1> QED
  BY <1>4

LEMMA GreatestRow ==
    ASSUME NEW n \in Nat, NEW S \in SUBSET (1 .. n), S # {}
    PROVE  \E x \in S : \A y \in S : y <= x
<1> DEFINE T == {n - y : y \in S}
<1>0. \A y \in S : y \in Int /\ n - y \in Nat
  OBVIOUS
<1>1. PICK z \in T : \A t \in T : z <= t
  <2>1. \A t \in T : t \in Nat
    BY <1>0
  <2>2. PICK y \in S : TRUE
    OBVIOUS
  <2>3. n - y \in T
    BY <2>2
  <2> HIDE DEF T
  <2>4. T \in SUBSET Nat /\ T # {}
    BY <2>1, <2>3
  <2> QED
    BY <2>4, LeastRow
<1>2. PICK x \in S : z = n - x
  BY <1>1
<1>3. \A y \in S : n - x <= n - y
  BY <1>1, <1>2
<1>4. \A y \in S : y <= x
  <2> TAKE y \in S
  <2>1. n - x <= n - y /\ x \in Int /\ y \in Int /\ n \in Int
    BY <1>0, <1>3
  <2> QED
    BY <2>1
<1> QED
  BY <1>4

-----------------------------------------------------------------------------
\* A page holds the newest rows of a list, and all of it if it says there is no more.
LEMMA PageHolds ==
    ASSUME NEW n \in Nat, NEW S \in SUBSET (1 .. n)
    PROVE  /\ Page(S).items \subseteq S
           /\ Page(S).next \in 0 .. n
           /\ Page(S).next # 0 => Page(S).next \in Page(S).items
           /\ \A r \in S : r >= Page(S).next => r \in Page(S).items
           /\ Page(S) = [items |-> Page(S).items, next |-> Page(S).next]
<1> DEFINE above(r) == {q \in S : q > r}
           items == {r \in S : Cardinality(above(r)) < Limit}
<1>0. Page(S) = [items |-> items, next |-> IF items # S THEN Min(items) ELSE 0]
  BY DEF Page
<1>a. \A r \in S : r \in Nat /\ r # 0 /\ r <= n
  OBVIOUS
<1>b. \A r \in S : IsFiniteSet(above(r))
  <2> TAKE r \in S
  <2>1. IsFiniteSet(1 .. n)
    <3>1. 1 \in Int /\ n \in Int
      OBVIOUS
    <3> QED
      BY <3>1, FS_Interval
  <2>2. above(r) \subseteq 1 .. n
    BY <1>a
  <2> HIDE DEF above
  <2> QED
    BY <2>1, <2>2, FS_Subset
<1>1. \A r \in S, s \in items : r > s => r \in items
  <2> SUFFICES ASSUME NEW r \in S, NEW s \in items, r > s PROVE r \in items
    OBVIOUS
  <2>1. s \in S /\ r \in Nat /\ s \in Nat
    BY <1>a
  <2>2. above(r) \subseteq above(s)
    <3> SUFFICES ASSUME NEW q \in S, q > r PROVE q > s
      OBVIOUS
    <3>1. q \in Nat
      BY <1>a
    <3> QED
      BY <2>1, <3>1
  <2>3. /\ Cardinality(above(r)) <= Cardinality(above(s))
        /\ Cardinality(above(r)) \in Nat /\ Cardinality(above(s)) \in Nat
    <3>1. IsFiniteSet(above(s)) /\ IsFiniteSet(above(r))
      BY <1>b, <2>1
    <3> HIDE DEF above
    <3> QED
      BY <3>1, <2>2, FS_Subset, FS_CardinalityType
  <2>4. Cardinality(above(s)) < Limit /\ Limit \in Nat
    BY PagesAssumption
  <2> HIDE DEF above
  <2> QED
    BY <2>3, <2>4
<1>2. S # {} => items # {}
  <2> SUFFICES ASSUME S # {} PROVE items # {}
    OBVIOUS
  <2>1. PICK x \in S : \A y \in S : y <= x
    BY GreatestRow
  <2>2. above(x) = {}
    <3> SUFFICES ASSUME NEW y \in S, y > x PROVE FALSE
      OBVIOUS
    <3>1. x \in Nat /\ y \in Nat /\ y <= x
      BY <1>a, <2>1
    <3> QED
      BY <3>1
  <2>3. Cardinality({}) = 0
    BY FS_EmptySet
  <2> HIDE DEF above
  <2> QED
    BY <2>1, <2>2, <2>3, PagesAssumption
<1>4. items \subseteq S /\ \A r \in items : r \in Nat /\ r # 0 /\ r <= n
  BY <1>a
<1> HIDE DEF items
<1>3. items # S => Min(items) \in items /\ \A s \in items : Min(items) <= s
  <2> SUFFICES ASSUME items # S PROVE \E x \in items : \A s \in items : x <= s
    BY DEF Min
  <2>1. items \in SUBSET Nat /\ items # {}
    BY <1>2, <1>4
  <2> QED
    BY <2>1, LeastRow
<1>5. PICK p : p = [items |-> items, next |-> IF items # S THEN Min(items) ELSE 0]
  OBVIOUS
<1>6. Page(S) = p /\ p.items = items /\ p.next = IF items # S THEN Min(items) ELSE 0
  BY <1>0, <1>5
<1>7. \A r \in S : r >= p.next => r \in items
  <2> SUFFICES ASSUME NEW r \in S, r >= p.next, items # S PROVE r \in items
    BY <1>4, <1>6
  <2>1. p.next \in items /\ r \in Nat /\ p.next \in Nat
    BY <1>a, <1>3, <1>4, <1>6
  <2>2. r = p.next \/ r > p.next
    BY <2>1
  <2> QED
    BY <1>1, <2>1, <2>2
<1>8. p.next \in 0 .. n /\ (p.next # 0 => p.next \in items)
  <2>1. CASE items # S
    <3>1. p.next = Min(items)
      BY <1>6, <2>1
    <3>2. p.next \in items
      BY <1>3, <2>1, <3>1
    <3>3. p.next \in Nat /\ p.next <= n
      BY <1>4, <3>2
    <3> QED
      BY <3>2, <3>3
  <2>2. CASE items = S
    BY <1>6, <2>2
  <2> QED
    BY <2>1, <2>2
<1> QED
  BY <1>4, <1>5, <1>6, <1>7, <1>8

LEMMA PagesTyped ==
    ASSUME NEW S \in SUBSET AllRows
    PROVE  Page(S) \in Answers /\ Page(S).items \in SUBSET AllRows /\ Page(S).next \in Keys
<1>1. MaxRows \in Nat
  BY PagesAssumption
<1>2. /\ Page(S).items \subseteq S /\ Page(S).next \in 0 .. MaxRows
      /\ Page(S) = [items |-> Page(S).items, next |-> Page(S).next]
  <2>1. S \in SUBSET (1 .. MaxRows)
    BY DEF AllRows
  <2> QED
    BY <1>1, <2>1, PageHolds
<1> QED
  BY <1>2 DEF Answers, Keys

LEMMA ListedRows ==
    ASSUME FeedTypeOK
    PROVE  /\ Listed \subseteq AllRows /\ Listed \subseteq 1 .. made
           /\ \A c : After(c) \subseteq Listed /\ Below(c) \subseteq Listed
<1>1. made \in 0 .. MaxRows /\ MaxRows \in Nat
  BY PagesAssumption DEF FeedTypeOK
<1>2. Listed \subseteq 1 .. made
  BY DEF Listed
<1>3. 1 .. made \subseteq AllRows
  BY <1>1 DEF AllRows
<1> QED
  BY <1>2, <1>3 DEF After, Below

-----------------------------------------------------------------------------
(* The types, action by action.                                            *)

LEMMA TypeInit == FeedInit => FeedTypeOK
<1> SUFFICES ASSUME FeedInit PROVE FeedTypeOK
  OBVIOUS
<1>1. MaxRows \in Nat
  BY PagesAssumption
<1>2. 0 \in Keys
  BY <1>1 DEF Keys
<1>3. cached \in [Keys -> {None}] /\ run \in [Keys -> {None}]
  BY DEF FeedInit
<1>4. <<0>> \in Seq(Keys)
  BY <1>2
<1> QED
  BY <1>3, <1>4 DEF FeedInit, FeedTypeOK

ChainTypes ==
    /\ chain \in Chains \cup {None}
    /\ job \in [more : BOOLEAN, want : Nat, got : Chains] \cup {None}

LEMMA BlankTyped == Blank \in Chains
<1>1. 0 \in Keys
  BY PagesAssumption DEF Keys
<1> QED
  BY <1>1 DEF Blank, Chains

LEMMA JobsTyped ==
    ASSUME FeedTypeOK
    PROVE  /\ Refetch \in [more : BOOLEAN, want : Nat, got : Chains]
           /\ chain # None => FetchMore \in [more : BOOLEAN, want : Nat, got : Chains]
           /\ JoinedPages \in [more : BOOLEAN, want : Nat, got : Chains]
<1>1. chain # None => chain \in Chains /\ chain.pages \in Nat
  BY DEF FeedTypeOK, Chains
<1>2. Refetch \in [more : BOOLEAN, want : Nat, got : Chains]
  BY <1>1, BlankTyped DEF Refetch
<1> QED
  BY <1>1, <1>2 DEF FetchMore, JoinedPages, FeedTypeOK

LEMMA TypeReadPage == FeedTypeOK /\ ReadPage => FeedTypeOK'
<1> SUFFICES ASSUME FeedTypeOK, ReadPage PROVE FeedTypeOK'
  OBVIOUS
<1> DEFINE c == job.got.next
           read == Page(After(c))
           g == [shown |-> job.got.shown \cup read.items, next |-> read.next, pages |-> job.got.pages + 1,
                 torn |-> job.got.torn \/ (c # 0 /\ c \notin Listed)]
<1>1. job' = [job EXCEPT !.got = g]
  BY DEF ReadPage
<1>2. read.items \in SUBSET AllRows /\ read.next \in Keys
  BY ListedRows, PagesTyped
<1>3. job \in [more : BOOLEAN, want : Nat, got : Chains]
  BY DEF ReadPage, FeedTypeOK
<1>4. job.got.shown \in SUBSET AllRows /\ job.got.pages \in Nat /\ job.got.torn \in BOOLEAN
  BY <1>3 DEF Chains
<1>5. g \in Chains
  <2>1. (job.got.torn \/ (c # 0 /\ c \notin Listed)) \in BOOLEAN
    BY <1>4
  <2> HIDE DEF c, read
  <2> QED
    BY <1>2, <1>4, <2>1 DEF Chains
<1> HIDE DEF g
<1>6. job' \in [more : BOOLEAN, want : Nat, got : Chains]
  BY <1>1, <1>3, <1>5
<1> QED
  BY <1>6 DEF ReadPage, FeedTypeOK, server, bell, pager

LEMMA TypeChains ==
    /\ FeedTypeOK /\ PagesArrive => FeedTypeOK'
    /\ FeedTypeOK /\ ChainFails => FeedTypeOK'
    /\ FeedTypeOK /\ FetchNextPage => FeedTypeOK'
    /\ FeedTypeOK /\ OpenList => FeedTypeOK'
    /\ FeedTypeOK /\ CloseList => FeedTypeOK'
    /\ FeedTypeOK /\ ReconnectList => FeedTypeOK'
<1> SUFFICES ASSUME FeedTypeOK,
                    PagesArrive \/ ChainFails \/ FetchNextPage \/ OpenList \/ CloseList \/ ReconnectList
             PROVE  FeedTypeOK'
  OBVIOUS
<1> USE DEF server, infinite, bell, pager, Act, Fault
<1>1. CASE PagesArrive
  <2>1. job.got \in Chains
    BY <1>1 DEF PagesArrive, FeedTypeOK
  <2> QED
    BY <1>1, <2>1 DEF PagesArrive, FeedTypeOK
<1>2. CASE ChainFails
  BY <1>2 DEF ChainFails, FeedTypeOK
<1>3. CASE FetchNextPage
  BY <1>3, JobsTyped DEF FetchNextPage, FeedTypeOK
<1>4. CASE OpenList
  BY <1>4, JobsTyped DEF OpenList, FeedTypeOK
<1>5. CASE CloseList
  BY <1>5 DEF CloseList, FeedTypeOK
<1>6. CASE ReconnectList
  BY <1>6, JobsTyped DEF ReconnectList, FeedTypeOK
<1> QED
  BY <1>1, <1>2, <1>3, <1>4, <1>5, <1>6

LEMMA TypeMarks ==
    ASSUME FeedTypeOK,
           (\E r \in AllRows : MarkRead(r) \/ RowGoes(r)) \/ MarkAllRead \/ MarkStored \/ MarkAnswered \/ MarkFails
    PROVE  FeedTypeOK'
<1> USE DEF server, infinite, bell, pager, Act, Fault
<1>1. ASSUME NEW r \in AllRows, MarkRead(r) PROVE FeedTypeOK'
  <2>1. mark' \in [rows : SUBSET AllRows, stored : BOOLEAN] /\ acts' \in Nat /\ open' \in BOOLEAN
    <3>1. {r} \in SUBSET AllRows
      OBVIOUS
    <3>2. PICK m \in [rows : SUBSET AllRows, stored : BOOLEAN] : m = [rows |-> {r}, stored |-> FALSE]
      BY <3>1
    <3>3. mark' = m /\ acts' = acts + 1 /\ open' = FALSE
      BY <1>1, <3>2 DEF MarkRead
    <3>4. acts' \in Nat
      BY <3>3 DEF FeedTypeOK
    <3>5. mark' \in [rows : SUBSET AllRows, stored : BOOLEAN]
      BY <3>2, <3>3, Zenon
    <3>6. open' \in BOOLEAN
      BY <3>3
    <3> QED
      BY <3>4, <3>5, <3>6, Zenon
  <2> QED
    BY <1>1, <2>1 DEF MarkRead, FeedTypeOK
<1>2. ASSUME NEW r \in AllRows, RowGoes(r) PROVE FeedTypeOK'
  BY <1>2 DEF RowGoes, FeedTypeOK
<1>3. CASE MarkAllRead
  BY <1>3 DEF MarkAllRead, FeedTypeOK
<1>a. mark # None => Marked \subseteq AllRows
  BY ListedRows DEF Marked, FeedTypeOK
<1>4. CASE MarkStored
  <2>1. mark \in [rows : SUBSET AllRows, stored : BOOLEAN]
    BY <1>4 DEF MarkStored, FeedTypeOK
  <2>2. mark' \in [rows : SUBSET AllRows, stored : BOOLEAN]
    BY <1>4, <2>1 DEF MarkStored
  <2> QED
    BY <1>4, <1>a, <2>2 DEF MarkStored, FeedTypeOK
<1>5. CASE MarkAnswered
  <2>1. job' \in [more : BOOLEAN, want : Nat, got : Chains] \cup {None}
    BY <1>5, JobsTyped DEF MarkAnswered, FeedTypeOK
  <2>2. poll' \in [got : Nat \cup {None}] \cup {None}
    BY <1>5 DEF MarkAnswered, FeedTypeOK, Sent
  <2> QED
    BY <1>5, <2>1, <2>2 DEF MarkAnswered, FeedTypeOK
<1>6. CASE MarkFails
  BY <1>6, <1>a DEF MarkFails, FeedTypeOK
<1> QED
  BY <1>1, <1>2, <1>3, <1>4, <1>5, <1>6

LEMMA TypeBell ==
    ASSUME FeedTypeOK, Poll \/ UnreadCount \/ CountArrives \/ PollFails \/ RowMade
    PROVE  FeedTypeOK'
<1> USE DEF server, infinite, bell, pager, Act, Fault
<1>1. CASE Poll
  BY <1>1 DEF Poll, FeedTypeOK, Sent
<1>2. CASE UnreadCount
  <2>1. Cardinality(Listed) \in Nat
    <3>1. made \in Nat
      BY PagesAssumption DEF FeedTypeOK
    <3>2. 1 \in Int /\ made \in Int
      BY <3>1
    <3> QED
      BY <3>2, ListedRows, FS_Interval, FS_Subset, FS_CardinalityType
  <2> QED
    BY <1>2, <2>1 DEF UnreadCount, FeedTypeOK
<1>3. CASE CountArrives
  <2>1. poll.got \in Nat \cup {None}
    BY <1>3 DEF CountArrives, FeedTypeOK
  <2> QED
    BY <1>3, <2>1 DEF CountArrives, FeedTypeOK
<1>4. CASE PollFails
  BY <1>4 DEF PollFails, FeedTypeOK
<1>5. CASE RowMade
  <2>1. made' \in 0 .. MaxRows
    BY <1>5, PagesAssumption DEF RowMade, FeedTypeOK
  <2> QED
    BY <1>5, <2>1 DEF RowMade, FeedTypeOK
<1> QED
  BY <1>1, <1>2, <1>3, <1>4, <1>5

-----------------------------------------------------------------------------
LEMMA TypeShow ==
    ASSUME FeedTypeOK, NEW s \in Seq(Keys), Len(s) >= 1, ShowPage(s)
    PROVE  stack' \in Seq(Keys) /\ seen' \subseteq AllRows /\ run' \in [Keys -> [got : Answers \cup {None}] \cup {None}]
<1> DEFINE k == Last(s)
<1>1. k \in Keys
  BY DEF Last
<1>2. seen' \subseteq AllRows
  <2>1. cached[k] # None => cached[k].items \subseteq AllRows
    BY <1>1 DEF FeedTypeOK, Answers
  <2> HIDE DEF k
  <2>2. ShowPage(s) => seen' = IF cached[k] = None THEN seen ELSE seen \cup cached[k].items
    BY DEF ShowPage, k
  <2> QED
    BY <2>1, <2>2 DEF FeedTypeOK
<1>3. run' = run \/ run' = [run EXCEPT ![k] = IF @ = None THEN Sent ELSE @]
  BY DEF ShowPage
<1> HIDE DEF k
<1>4. run' \in [Keys -> [got : Answers \cup {None}] \cup {None}]
  BY <1>1, <1>3 DEF FeedTypeOK, Sent
<1> QED
  BY <1>2, <1>4 DEF ShowPage

LEMMA StackTyped ==
    ASSUME FeedTypeOK
    PROVE  /\ <<0>> \in Seq(Keys) /\ Len(<<0>>) = 1
           /\ \A k \in Keys : Append(stack, k) \in Seq(Keys) /\ Len(Append(stack, k)) = Len(stack) + 1
           /\ Len(stack) > 1 => Front(stack) \in Seq(Keys) /\ Len(Front(stack)) = Len(stack) - 1
<1>1. 0 \in Keys /\ stack \in Seq(Keys)
  BY PagesAssumption DEF Keys, FeedTypeOK
<1>2. ASSUME Len(stack) > 1
      PROVE  Front(stack) \in Seq(Keys) /\ Len(Front(stack)) = Len(stack) - 1
  BY <1>1, <1>2 DEF Front
<1> QED
  BY <1>1, <1>2

LEMMA TypePager ==
    ASSUME FeedTypeOK, Len(stack) >= 1,
           \/ OpenPager \/ LeavePager \/ goNext \/ goPrev \/ RefetchPage
           \/ \E k \in Keys : List(k) \/ PageArrives(k) \/ PageFails(k)
    PROVE  FeedTypeOK'
<1> USE DEF server, infinite, bell, Act, Fault
<1>1. CASE OpenPager
  <2>0. PICK s \in Seq(Keys) : s = <<0>> /\ Len(s) >= 1
    <3>1. <<0>> \in Seq(Keys) /\ Len(<<0>>) >= 1
      BY StackTyped
    <3> QED
      BY <3>1
  <2>1. ShowPage(s)
    BY <1>1, <2>0 DEF OpenPager
  <2>2. stack' \in Seq(Keys) /\ seen' \subseteq AllRows /\ run' \in [Keys -> [got : Answers \cup {None}] \cup {None}]
    BY <2>0, <2>1, TypeShow
  <2> QED
    BY <1>1, <2>2 DEF OpenPager, FeedTypeOK
<1>2. CASE LeavePager
  <2>1. stack' \in Seq(Keys)
    <3>1. <<0>> \in Seq(Keys)
      BY StackTyped
    <3> QED
      BY <1>2, <3>1 DEF LeavePager
  <2>2. open' \in BOOLEAN /\ acts' \in Nat /\ seen' \subseteq AllRows
    <3>1. open' = FALSE /\ acts' = acts + 1 /\ seen' = {}
      BY <1>2 DEF LeavePager
    <3>2. acts \in Nat
      BY DEF FeedTypeOK
    <3>3. acts' \in Nat
      BY <3>1, <3>2
    <3> QED
      BY <3>1, <3>3
  <2> QED
    BY <1>2, <2>1, <2>2 DEF LeavePager, FeedTypeOK
<1>3. CASE goNext
  <2>1. Cursor \in Keys
    BY DEF Cursor, Last, FeedTypeOK
  <2>2. cached[Cursor].next \in Keys
    BY <1>3, <2>1 DEF goNext, FeedTypeOK, Answers
  <2>3. PICK s \in Seq(Keys) : s = Append(stack, cached[Cursor].next) /\ Len(s) >= 1
    <3>1. /\ Append(stack, cached[Cursor].next) \in Seq(Keys)
          /\ Len(Append(stack, cached[Cursor].next)) = Len(stack) + 1
      BY <2>2, StackTyped
    <3>2. Len(stack) \in Nat
      BY DEF FeedTypeOK
    <3>3. Len(Append(stack, cached[Cursor].next)) >= 1
      BY <3>1, <3>2
    <3> QED
      BY <3>1, <3>3, Zenon
  <2>4. ShowPage(s)
    BY <1>3, <2>3 DEF goNext
  <2>5. stack' \in Seq(Keys) /\ seen' \subseteq AllRows /\ run' \in [Keys -> [got : Answers \cup {None}] \cup {None}]
    BY <2>3, <2>4, TypeShow
  <2> QED
    BY <1>3, <2>5 DEF goNext, FeedTypeOK
<1>4. CASE goPrev
  <2>1. PICK s \in Seq(Keys) : s = Front(stack) /\ Len(s) >= 1
    BY <1>4, StackTyped DEF goPrev, FeedTypeOK
  <2>2. ShowPage(s)
    BY <1>4, <2>1 DEF goPrev
  <2>3. stack' \in Seq(Keys) /\ seen' \subseteq AllRows /\ run' \in [Keys -> [got : Answers \cup {None}] \cup {None}]
    BY <2>1, <2>2, TypeShow
  <2> QED
    BY <1>4, <2>3 DEF goPrev, FeedTypeOK
<1>5. CASE RefetchPage
  <2>1. run' \in [Keys -> [got : Answers \cup {None}] \cup {None}]
    BY <1>5 DEF RefetchPage, FeedTypeOK, Sent
  <2> QED
    BY <1>5, <2>1 DEF RefetchPage, FeedTypeOK
<1>6. ASSUME NEW k \in Keys, List(k) PROVE FeedTypeOK'
  <2>1. Page(Below(k)) \in Answers
    BY ListedRows, PagesTyped
  <2>2. run' = [run EXCEPT ![k].got = Page(Below(k))] /\ run[k] = Sent
    BY <1>6 DEF List
  <2>3. run' \in [Keys -> [got : Answers \cup {None}] \cup {None}]
    BY <2>1, <2>2 DEF FeedTypeOK, Sent
  <2> QED
    BY <1>6, <2>3 DEF List, FeedTypeOK
<1>7. ASSUME NEW k \in Keys, PageArrives(k) PROVE FeedTypeOK'
  <2>1. run[k] \in [got : Answers \cup {None}] /\ run[k] # Sent
    BY <1>7 DEF PageArrives, FeedTypeOK
  <2>2. run[k].got \in Answers
    BY <2>1 DEF Sent
  <2>3. run' \in [Keys -> [got : Answers \cup {None}] \cup {None}]
    BY <1>7 DEF PageArrives, FeedTypeOK
  <2>4. cached' \in [Keys -> Answers \cup {None}]
    BY <1>7, <2>2 DEF PageArrives, FeedTypeOK
  <2>5. seen' \subseteq AllRows
    BY <1>7, <2>2 DEF PageArrives, FeedTypeOK, Answers
  <2> QED
    BY <1>7, <2>3, <2>4, <2>5 DEF PageArrives, FeedTypeOK
<1>8. ASSUME NEW k \in Keys, PageFails(k) PROVE FeedTypeOK'
  <2>1. run' \in [Keys -> [got : Answers \cup {None}] \cup {None}]
    BY <1>8 DEF PageFails, FeedTypeOK
  <2> QED
    BY <1>8, <2>1 DEF PageFails, FeedTypeOK
<1> QED
  BY <1>1, <1>2, <1>3, <1>4, <1>5, <1>6, <1>7, <1>8

-----------------------------------------------------------------------------
(* The invariant behind NothingIsSkipped, in terms of the rows listed, L,  *)
(* and the number of rows made, n.                                         *)

\* From the newest row shown to the cursor nothing is missing.
Solid(S, c, L) == \A r \in L : r >= c /\ (\E s \in S : r < s) => r \in S

Joins(g, n, L) ==
    /\ g.shown \subseteq 1 .. n /\ g.next \in 0 .. n
    /\ g.pages = 0 => g.shown = {} /\ g.next = 0
    /\ ~g.torn => Solid(g.shown, g.next, L)

ChainsJoin ==
    /\ chain # None => Joins(chain, made, Listed)
    /\ job # None => Joins(job.got, made, Listed)

\* The rows that belong on a page and have been added since it was read.
Missing(P, L) == {r \in L : r >= P.next /\ r \notin P.items}

\* What is true of a page under the cursor k however old it is.
Snapshot(P, k, n, L) ==
    /\ P.items \subseteq 1 .. n /\ P.next \in 0 .. n
    /\ P.next # 0 => P.next \in P.items
    /\ k # 0 => \A r \in P.items : r < k
    /\ \A r \in Missing(P, L) : IF k = 0 THEN \A s \in P.items : s < r ELSE r >= k

Path(st, n) ==
    /\ Len(st) >= 1 /\ st[1] = 0
    /\ \A i \in 2 .. Len(st) : st[i] \in 1 .. n
    /\ \A i, j \in 2 .. Len(st) : i < j => st[j] < st[i]

\* The rows R are newer than the rows sn and than the cursors of st.
Above(R, sn, st) == \A r \in R : (\A s \in sn : s < r) /\ (\A i \in 2 .. Len(st) : st[i] < r)

Got(k) == run[k] # None /\ run[k] # Sent

PagesAreSnapshots ==
    \A k \in Keys :
        /\ cached[k] # None => k <= made /\ Snapshot(cached[k], k, made, Listed)
        /\ run[k] # None => k <= made /\ feed = "pager"
        /\ Got(k) => Snapshot(run[k].got, k, made, Listed)

\* What the first page lacks is newer than all that was seen.
FirstPageIsNewest ==
    /\ cached[0] # None => Above(Missing(cached[0], Listed), seen, stack)
    /\ Got(0) => Above(Missing(run[0].got, Listed), seen, stack)
    /\ Got(0) /\ cached[0] # None => Above(Missing(run[0].got, Listed), cached[0].items, <<0>>)

WayIsSeen ==
    /\ Path(stack, made) /\ seen \subseteq 1 .. made
    /\ (feed = "pager" /\ open) \/ (stack = <<0>> /\ seen = {})
    /\ \A i \in 2 .. Len(stack) : Solid(seen, stack[i], Listed)
    /\ feed = "pager" /\ open /\ cached[Last(stack)] # None => cached[Last(stack)].items \subseteq seen

FeedInv == FeedTypeOK /\ ChainsJoin /\ PagesAreSnapshots /\ FirstPageIsNewest /\ WayIsSeen

-----------------------------------------------------------------------------
\* A list that loses rows, or gains one newer than all, leaves all this true.
Grows(n, L, m, M) ==
    /\ n \in Nat /\ L \subseteq 1 .. n
    /\ m \in {n, n + 1} /\ M \subseteq L \cup {m}
    /\ M \subseteq L \/ m = n + 1

LEMMA SolidGrows ==
    ASSUME NEW n, NEW L, NEW m, NEW M, Grows(n, L, m, M), NEW S \in SUBSET (1 .. n), NEW c, Solid(S, c, L)
    PROVE  Solid(S, c, M)
<1> SUFFICES ASSUME NEW r \in M, r >= c, NEW s \in S, r < s PROVE r \in S
  BY DEF Solid
<1>1. r \in L
  <2>1. n \in Nat /\ (r \in L \/ r = n + 1)
    BY DEF Grows
  <2>2. s \in Nat /\ s <= n
    BY <2>1
  <2>3. r # n + 1
    BY <2>1, <2>2
  <2> QED
    BY <2>1, <2>3
<1> QED
  BY <1>1 DEF Solid

LEMMA NewRows ==
    ASSUME NEW n, NEW L, NEW m, NEW M, Grows(n, L, m, M), NEW r \in M
    PROVE  r \in L \/ (r = n + 1 /\ \A q \in 0 .. n : q < r)
<1>1. CASE M \subseteq L
  BY <1>1
<1>2. CASE m = n + 1
  <2>1. n \in Nat /\ (r \in L \/ r = n + 1)
    BY <1>2 DEF Grows
  <2> QED
    BY <2>1
<1> QED
  BY <1>1, <1>2 DEF Grows

LEMMA RangeGrows ==
    ASSUME NEW n, NEW L, NEW m, NEW M, Grows(n, L, m, M)
    PROVE  n \in Nat /\ m \in Nat /\ n <= m /\ 1 .. n \subseteq 1 .. m /\ 0 .. n \subseteq 0 .. m
BY DEF Grows

LEMMA JoinsGrows ==
    ASSUME NEW n, NEW L, NEW m, NEW M, Grows(n, L, m, M), NEW g, Joins(g, n, L)
    PROVE  Joins(g, m, M)
<1>1. g.shown \in SUBSET (1 .. n)
  BY DEF Joins
<1>2. ~g.torn => Solid(g.shown, g.next, M)
  BY <1>1, SolidGrows DEF Joins
<1> QED
  BY <1>2, RangeGrows DEF Joins

LEMMA SnapshotGrows ==
    ASSUME NEW n, NEW L, NEW m, NEW M, Grows(n, L, m, M), NEW P, NEW k \in Nat, k <= n, Snapshot(P, k, n, L)
    PROVE  Snapshot(P, k, m, M)
<1>1. P.items \subseteq 1 .. m /\ P.next \in 0 .. m
  BY RangeGrows DEF Snapshot
<1>2. ASSUME NEW r \in Missing(P, M) PROVE IF k = 0 THEN \A s \in P.items : s < r ELSE r >= k
  <2>0. r \in M /\ r >= P.next /\ r \notin P.items
    BY DEF Missing
  <2>1. CASE r \in L
    <3>1. r \in Missing(P, L)
      BY <2>0, <2>1 DEF Missing
    <3> QED
      BY <3>1 DEF Snapshot
  <2>2. CASE r = n + 1 /\ \A q \in 0 .. n : q < r
    <3>1. n \in Nat
      BY RangeGrows
    <3>2. \A s \in P.items : s \in 0 .. n
      BY DEF Snapshot
    <3>3. k \in 0 .. n /\ r \in Nat
      BY <2>2, <3>1
    <3> QED
      BY <2>2, <3>2, <3>3
  <2> QED
    BY <2>0, <2>1, <2>2, NewRows
<1> QED
  BY <1>1, <1>2 DEF Snapshot

LEMMA AboveGrows ==
    ASSUME NEW n, NEW L, NEW m, NEW M, Grows(n, L, m, M), NEW P, NEW S \in SUBSET (1 .. n), NEW st,
           \A i \in 2 .. Len(st) : st[i] \in 1 .. n,
           Above(Missing(P, L), S, st)
    PROVE  Above(Missing(P, M), S, st)
<1> SUFFICES ASSUME NEW r \in Missing(P, M)
             PROVE  (\A s \in S : s < r) /\ (\A i \in 2 .. Len(st) : st[i] < r)
  BY DEF Above
<1>0. r \in M /\ r >= P.next /\ r \notin P.items
  BY DEF Missing
<1>1. CASE r \in L
  <2>1. r \in Missing(P, L)
    BY <1>0, <1>1 DEF Missing
  <2> QED
    BY <2>1 DEF Above
<1>2. CASE r = n + 1 /\ \A q \in 0 .. n : q < r
  <2>1. 1 .. n \subseteq 0 .. n
    BY RangeGrows
  <2> QED
    BY <1>2, <2>1
<1> QED
  BY <1>0, <1>1, <1>2, NewRows

-----------------------------------------------------------------------------
(* The server's steps.                                                     *)

LEMMA RowsChange ==
    ASSUME FeedTypeOK,
           (\E r \in AllRows : RowGoes(r)) \/ RowMade \/ MarkStored \/ MarkFails
    PROVE  Grows(made, Listed, made', Listed')
<1>0. made \in Nat /\ Listed \subseteq 1 .. made
  BY ListedRows, PagesAssumption DEF FeedTypeOK
<1>1. CASE made' = made /\ gone \subseteq gone'
  BY <1>0, <1>1 DEF Grows, Listed
<1>2. CASE RowMade
  <2>1. made' = made + 1 /\ gone' = gone
    BY <1>2 DEF RowMade
  <2>2. Listed' \subseteq Listed \cup {made'}
    BY <1>0, <2>1 DEF Listed
  <2> QED
    BY <1>0, <2>1, <2>2 DEF Grows
<1>3. RowMade \/ (made' = made /\ gone \subseteq gone')
  <2>1. (\E r \in AllRows : RowGoes(r)) => made' = made /\ gone \subseteq gone'
    BY DEF RowGoes
  <2>2. MarkStored => made' = made /\ gone \subseteq gone'
    BY DEF MarkStored
  <2>3. MarkFails => made' = made /\ gone \subseteq gone'
    BY DEF MarkFails
  <2> QED
    BY <2>1, <2>2, <2>3
<1> QED
  BY <1>1, <1>2, <1>3

LEMMA RowsChangeInv ==
    ASSUME FeedInv, (\E r \in AllRows : RowGoes(r)) \/ RowMade \/ MarkStored \/ MarkFails
    PROVE  ChainsJoin' /\ PagesAreSnapshots' /\ FirstPageIsNewest' /\ WayIsSeen'
<1>0. Grows(made, Listed, made', Listed')
  BY RowsChange DEF FeedInv
<1>1. UNCHANGED <<feed, open, chain, job, stack, cached, run, seen>>
  BY DEF RowGoes, RowMade, MarkStored, MarkFails, infinite, pager
<1>2. ChainsJoin'
  <2>1. /\ chain # None => Joins(chain, made', Listed')
        /\ job # None => Joins(job.got, made', Listed')
    BY <1>0, JoinsGrows DEF FeedInv, ChainsJoin
  <2> QED
    BY <1>1, <2>1 DEF ChainsJoin
<1>a. made \in Nat /\ made' \in Nat /\ made <= made' /\ 1 .. made \subseteq 1 .. made'
  BY <1>0, RangeGrows
<1>3. PagesAreSnapshots'
  <2> SUFFICES ASSUME NEW k \in Keys
               PROVE  /\ cached[k] # None => k <= made' /\ Snapshot(cached[k], k, made', Listed')
                      /\ run[k] # None => k <= made' /\ feed = "pager"
                      /\ Got(k) => Snapshot(run[k].got, k, made', Listed')
    BY <1>1 DEF PagesAreSnapshots, Got, Sent
  <2>0. k \in Nat
    BY DEF Keys
  <2>1. /\ cached[k] # None => k <= made /\ Snapshot(cached[k], k, made, Listed)
        /\ run[k] # None => k <= made /\ feed = "pager"
        /\ Got(k) => run[k] # None /\ Snapshot(run[k].got, k, made, Listed)
    BY DEF FeedInv, PagesAreSnapshots, Got
  <2>2. cached[k] # None => k <= made' /\ Snapshot(cached[k], k, made', Listed')
    BY <1>0, <1>a, <2>0, <2>1, SnapshotGrows
  <2>3. Got(k) => Snapshot(run[k].got, k, made', Listed')
    BY <1>0, <2>0, <2>1, SnapshotGrows
  <2> QED
    BY <1>a, <2>0, <2>1, <2>2, <2>3
<1>4. /\ seen \in SUBSET (1 .. made) /\ \A i \in 2 .. Len(stack) : stack[i] \in 1 .. made
      /\ 0 \in Keys
  BY PagesAssumption DEF FeedInv, WayIsSeen, Path, Keys
<1>5. FirstPageIsNewest'
  <2>1. cached[0] # None => Above(Missing(cached[0], Listed'), seen, stack)
    BY <1>0, <1>4, AboveGrows DEF FeedInv, FirstPageIsNewest
  <2>2. Got(0) => Above(Missing(run[0].got, Listed'), seen, stack)
    BY <1>0, <1>4, AboveGrows DEF FeedInv, FirstPageIsNewest
  <2>3. Got(0) /\ cached[0] # None => Above(Missing(run[0].got, Listed'), cached[0].items, <<0>>)
    <3>1. cached[0] # None => cached[0].items \in SUBSET (1 .. made)
      BY <1>4 DEF FeedInv, PagesAreSnapshots, Snapshot
    <3>2. \A i \in 2 .. Len(<<0>>) : <<0>>[i] \in 1 .. made
      BY Len(<<0>>) = 1
    <3> QED
      BY <1>0, <3>1, <3>2, AboveGrows DEF FeedInv, FirstPageIsNewest
  <2> QED
    BY <1>1, <2>1, <2>2, <2>3 DEF FirstPageIsNewest, Got, Sent
<1>6. WayIsSeen'
  <2>1. Path(stack, made') /\ seen \subseteq 1 .. made'
    BY <1>a, <1>4 DEF FeedInv, WayIsSeen, Path
  <2>2. \A i \in 2 .. Len(stack) : Solid(seen, stack[i], Listed')
    BY <1>0, <1>4, SolidGrows DEF FeedInv, WayIsSeen
  <2> QED
    BY <1>1, <2>1, <2>2 DEF FeedInv, WayIsSeen
<1> QED
  BY <1>2, <1>3, <1>5, <1>6

-----------------------------------------------------------------------------
(* The pages of an infinite query.                                         *)

LEMMA AfterHolds ==
    ASSUME FeedTypeOK, NEW c \in Listed
    PROVE  \A r \in Listed : r \in After(c) <=> r < c
<1>1. \A r \in Listed : r \in Nat /\ r # 0
  BY ListedRows DEF AllRows
<1>2. PICK from : from = {r \in Listed : r <= c}
  OBVIOUS
<1>3. After(c) = from \ {r \in from : \A q \in from : q <= r}
  BY <1>1, <1>2 DEF After
<1>4. c \in from
  BY <1>1, <1>2
<1> SUFFICES ASSUME NEW r \in Listed PROVE r \in After(c) <=> r < c
  OBVIOUS
<1>5. r \in Nat /\ c \in Nat
  BY <1>1
<1>6. ASSUME r < c PROVE r \in After(c)
  <2>1. r \in from /\ ~(c <= r)
    BY <1>2, <1>5, <1>6
  <2> QED
    BY <1>3, <1>4, <2>1
<1>7. ASSUME r \in After(c) PROVE r < c
  <2>1. r \in from /\ ~(\A q \in from : q <= r)
    BY <1>3, <1>7
  <2>2. r <= c /\ r # c
    BY <1>2, <2>1
  <2> QED
    BY <1>5, <2>2
<1> QED
  BY <1>6, <1>7

\* A page is put to those before it without a seam.
LEMMA ReadJoins ==
    ASSUME FeedTypeOK, NEW g \in Chains, Joins(g, made, Listed), g.pages > 0 => g.next # 0,
           g.next = 0 \/ g.next \in Listed, ~g.torn
    PROVE  LET read == Page(After(g.next))
           IN  Solid(g.shown \cup read.items, read.next, Listed)
<1>0. PICK read : read = Page(After(g.next))
  OBVIOUS
<1>1. After(g.next) \in SUBSET (1 .. made) /\ made \in Nat
  BY ListedRows, PagesAssumption DEF FeedTypeOK
<1>2. /\ read.items \subseteq After(g.next) /\ read.next \in 0 .. made
      /\ \A r \in After(g.next) : r >= read.next => r \in read.items
  BY <1>0, <1>1, PageHolds
<1>3. \A r \in Listed : r \in Nat /\ r # 0
  BY ListedRows DEF AllRows
<1> SUFFICES ASSUME NEW r \in Listed, r >= read.next,
                    NEW s \in g.shown \cup read.items, r < s
             PROVE  r \in g.shown \cup read.items
  BY <1>0 DEF Solid
<1>4. CASE g.next = 0
  <2>1. After(g.next) = Listed
    BY <1>4 DEF After
  <2> QED
    BY <1>2, <2>1
<1>5. CASE g.next \in Listed
  <2>1. \A q \in Listed : q \in After(g.next) <=> q < g.next
    BY <1>5, AfterHolds
  <2>2. CASE r < g.next
    BY <1>2, <2>1, <2>2
  <2>3. CASE r >= g.next
    <3>1. CASE s \in g.shown
      BY <2>3, <3>1 DEF Joins, Solid
    <3>2. CASE s \in read.items
      <4>1. s \in Listed /\ s < g.next
        BY <1>2, <2>1, <3>2, ListedRows
      <4>2. s \in Nat /\ r \in Nat /\ g.next \in Nat
        BY <1>3, <1>5, <4>1
      <4> QED
        BY <2>3, <4>1, <4>2
    <3> QED
      BY <3>1, <3>2
  <2>4. r \in Nat /\ g.next \in Nat
    BY <1>3, <1>5
  <2> QED
    BY <2>2, <2>3, <2>4
<1> QED
  BY <1>4, <1>5

LEMMA ReadPageJoins == FeedInv /\ ReadPage => ChainsJoin'
<1> SUFFICES ASSUME FeedInv, ReadPage PROVE ChainsJoin'
  OBVIOUS
<1>0. FeedTypeOK /\ ~Complete(job) /\ job # None
  BY DEF FeedInv, ReadPage
<1>1. PICK g : g = job.got
  OBVIOUS
<1>2. g \in Chains /\ Joins(g, made, Listed)
  BY <1>0, <1>1 DEF FeedInv, FeedTypeOK, ChainsJoin
<1>3. g.pages \in Nat /\ g.shown \subseteq 1 .. made
  BY <1>2 DEF Chains, Joins
<1>4. g.pages > 0 => g.next # 0
  BY <1>0, <1>1 DEF Complete
<1>5. PICK read : read = Page(After(g.next))
  OBVIOUS
<1>6. After(g.next) \in SUBSET (1 .. made) /\ made \in Nat
  BY <1>0, ListedRows, PagesAssumption DEF FeedTypeOK
<1>7. read.items \subseteq 1 .. made /\ read.next \in 0 .. made
  BY <1>5, <1>6, PageHolds
<1>8. PICK h : h = [shown |-> g.shown \cup read.items, next |-> read.next, pages |-> g.pages + 1,
                    torn |-> g.torn \/ (g.next # 0 /\ g.next \notin Listed)]
  OBVIOUS
<1>9. /\ h.shown = g.shown \cup read.items /\ h.next = read.next /\ h.pages = g.pages + 1
      /\ h.torn = (g.torn \/ (g.next # 0 /\ g.next \notin Listed))
  BY <1>8
<1>10. job' = [job EXCEPT !.got = h]
  BY <1>1, <1>5, <1>8 DEF ReadPage
<1>11. job'.got = h
  BY <1>0, <1>10 DEF FeedTypeOK
<1>12. ~h.torn => Solid(h.shown, h.next, Listed)
  <2> SUFFICES ASSUME ~h.torn PROVE Solid(h.shown, h.next, Listed)
    OBVIOUS
  <2>1. ~g.torn /\ (g.next = 0 \/ g.next \in Listed)
    BY <1>9
  <2>2. Solid(g.shown \cup read.items, read.next, Listed)
    BY <1>0, <1>2, <1>4, <1>5, <2>1, ReadJoins
  <2> QED
    BY <1>9, <2>2
<1>13. Joins(h, made, Listed)
  <2>1. h.shown \subseteq 1 .. made /\ h.next \in 0 .. made /\ h.pages # 0
    BY <1>3, <1>7, <1>9
  <2> QED
    BY <1>12, <2>1 DEF Joins
<1>14. UNCHANGED <<chain, made, Listed>>
  BY DEF ReadPage, server, Listed
<1> QED
  BY <1>11, <1>13, <1>14 DEF FeedInv, ChainsJoin

LEMMA ChainStepsJoin ==
    ASSUME FeedInv,
           \/ PagesArrive \/ ChainFails \/ FetchNextPage \/ OpenList \/ CloseList \/ ReconnectList
           \/ (\E r \in AllRows : MarkRead(r)) \/ MarkAllRead \/ MarkAnswered
    PROVE  ChainsJoin'
<1>0. /\ chain # None => Joins(chain, made, Listed)
      /\ job # None => Joins(job.got, made, Listed)
  BY DEF FeedInv, ChainsJoin
<1>1. UNCHANGED <<made, Listed>>
  BY DEF PagesArrive, ChainFails, FetchNextPage, OpenList, CloseList, ReconnectList,
         MarkRead, MarkAllRead, MarkAnswered, server, Listed
<1>2. chain' = chain \/ (job # None /\ chain' = job.got)
  BY DEF PagesArrive, ChainFails, FetchNextPage, OpenList, CloseList, ReconnectList,
         MarkRead, MarkAllRead, MarkAnswered, infinite
<1>3. job' \in {job, None, Refetch, JoinedPages} \/ (chain # None /\ job' = FetchMore)
  BY DEF PagesArrive, ChainFails, FetchNextPage, OpenList, CloseList, ReconnectList,
         MarkRead, MarkAllRead, MarkAnswered, infinite
<1>4. Joins(Refetch.got, made, Listed)
  <2>1. Refetch.got = Blank
    BY DEF Refetch
  <2>2. Blank.shown = {} /\ Blank.next = 0
    BY DEF Blank
  <2>3. 0 \in 0 .. made
    BY PagesAssumption DEF FeedInv, FeedTypeOK
  <2> QED
    BY <2>1, <2>2, <2>3 DEF Joins, Solid
<1>5. chain # None => Joins(FetchMore.got, made, Listed)
  BY <1>0 DEF FetchMore
<1>6. Joins(JoinedPages.got, made, Listed)
  BY <1>0, <1>4 DEF JoinedPages
<1>7. job' # None => Joins(job'.got, made, Listed)
  BY <1>0, <1>3, <1>4, <1>5, <1>6
<1>8. chain' # None => Joins(chain', made, Listed)
  BY <1>0, <1>2
<1> QED
  BY <1>1, <1>7, <1>8 DEF ChainsJoin

LEMMA PagerStays ==
    ASSUME FeedInv, UNCHANGED <<feed, made, Listed, stack, cached, run, seen>>,
           open' = open \/ feed # "pager"
    PROVE  PagesAreSnapshots' /\ FirstPageIsNewest' /\ WayIsSeen'
<1>1. PagesAreSnapshots'
  BY DEF FeedInv, PagesAreSnapshots, Got, Sent
<1>2. FirstPageIsNewest'
  BY DEF FeedInv, FirstPageIsNewest, Got, Sent
<1>3. WayIsSeen'
  BY DEF FeedInv, WayIsSeen
<1> QED
  BY <1>1, <1>2, <1>3

-----------------------------------------------------------------------------
(* The pager.                                                              *)

\* The last cursor of a path is the least, and there is one unless it is the first page.
LEMMA PathEnds ==
    ASSUME NEW n \in Nat, NEW st \in Seq(Keys), Path(st, n)
    PROVE  /\ Last(st) \in 0 .. n /\ Last(st) \in Keys
           /\ Last(st) = 0 => \A i \in 2 .. Len(st) : FALSE
           /\ Last(st) # 0 => Len(st) \in 2 .. Len(st) /\ st[Len(st)] = Last(st)
           /\ \A i \in 2 .. Len(st) : st[i] \in Nat /\ Last(st) <= st[i]
<1>1. Len(st) \in Nat /\ Last(st) = st[Len(st)]
  BY DEF Last
<1>2. CASE Len(st) = 1
  <2>1. Last(st) = 0 /\ \A i \in 2 .. Len(st) : FALSE
    BY <1>1, <1>2 DEF Path
  <2> QED
    BY <2>1, PagesAssumption DEF Keys
<1>3. CASE Len(st) # 1
  <2>1. Len(st) >= 2 /\ Len(st) \in 2 .. Len(st)
    <3>1. PICK l \in Nat : l = Len(st)
      BY <1>1
    <3>2. l >= 1 /\ l # 1
      BY <1>3, <3>1 DEF Path
    <3>3. l >= 2 /\ l \in 2 .. l
      BY <3>1, <3>2
    <3> QED
      BY <3>1, <3>3
  <2>2. Last(st) \in 1 .. n
    BY <1>1, <2>1 DEF Path
  <2>3. Last(st) \in Keys
    BY <1>1, <2>1
  <2>4. ASSUME NEW i \in 2 .. Len(st) PROVE st[i] \in Nat /\ Last(st) <= st[i]
    <3>1. st[i] \in Nat /\ Last(st) \in Nat
      BY <2>2 DEF Path
    <3>2. i = Len(st) \/ i < Len(st)
      BY <1>1
    <3>3. i < Len(st) => Last(st) < st[i]
      BY <1>1, <2>1 DEF Path
    <3> QED
      BY <1>1, <3>1, <3>2, <3>3
  <2> QED
    BY <1>1, <2>1, <2>2, <2>3, <2>4
<1> QED
  BY <1>2, <1>3

LEMMA RunsOn ==
    ASSUME FeedInv, NEW k \in Keys, k <= made, feed = "pager", UNCHANGED <<feed, made, Listed, cached>>,
           run' = run \/ run' = [run EXCEPT ![k] = IF @ = None THEN Sent ELSE @]
    PROVE  /\ PagesAreSnapshots'
           /\ Got(0)' => Got(0) /\ run'[0] = run[0]
<1>0. 0 \in Keys
  BY PagesAssumption DEF Keys
<1>1. \A j \in Keys : run'[j] = run[j] \/ (j = k /\ run'[j] = Sent)
  BY DEF FeedInv, FeedTypeOK
<1>2. \A j \in Keys : Got(j)' => Got(j) /\ run'[j] = run[j]
  BY <1>1 DEF Got, Sent
<1>3. PagesAreSnapshots'
  <2> SUFFICES ASSUME NEW j \in Keys
               PROVE  /\ cached[j] # None => j <= made /\ Snapshot(cached[j], j, made, Listed)
                      /\ run'[j] # None => j <= made /\ feed = "pager"
                      /\ Got(j)' => Snapshot(run'[j].got, j, made, Listed)
    BY DEF PagesAreSnapshots
  <2>1. /\ cached[j] # None => j <= made /\ Snapshot(cached[j], j, made, Listed)
        /\ run[j] # None => j <= made /\ feed = "pager"
        /\ Got(j) => Snapshot(run[j].got, j, made, Listed)
    BY DEF FeedInv, PagesAreSnapshots
  <2>2. run'[j] # None => j <= made /\ feed = "pager"
    BY <1>1, <2>1
  <2>3. Got(j)' => Snapshot(run'[j].got, j, made, Listed)
    BY <1>2, <2>1
  <2> QED
    BY <2>1, <2>2, <2>3
<1> QED
  BY <1>0, <1>2, <1>3

LEMMA ShowKeeps ==
    ASSUME FeedInv, NEW s \in Seq(Keys), Path(s, made), ShowPage(s), feed = "pager", open',
           UNCHANGED <<feed, made, Listed, cached>>,
           \A i \in 2 .. Len(s) : Solid(seen, s[i], Listed),
           cached[0] # None => Above(Missing(cached[0], Listed), seen, s),
           Got(0) => Above(Missing(run[0].got, Listed), seen, s)
    PROVE  PagesAreSnapshots' /\ FirstPageIsNewest' /\ WayIsSeen'
<1>0. made \in Nat /\ 0 \in Keys /\ \A r \in Listed : r \in Nat
  BY ListedRows, PagesAssumption DEF FeedInv, FeedTypeOK, Keys, AllRows
<1>1. PICK k : k = Last(s)
  OBVIOUS
<1>2. /\ k \in 0 .. made /\ k \in Keys
      /\ k = 0 => \A i \in 2 .. Len(s) : FALSE
      /\ k # 0 => Len(s) \in 2 .. Len(s) /\ s[Len(s)] = k
      /\ \A i \in 2 .. Len(s) : s[i] \in Nat /\ k <= s[i]
  BY <1>0, <1>1, PathEnds
<1>3. /\ stack' = s
      /\ seen' = IF cached[k] = None THEN seen ELSE seen \cup cached[k].items
      /\ run' = run \/ run' = [run EXCEPT ![k] = IF @ = None THEN Sent ELSE @]
  BY <1>1 DEF ShowPage
<1>4. PagesAreSnapshots' /\ (Got(0)' => Got(0) /\ run'[0] = run[0])
  BY <1>0, <1>2, <1>3, RunsOn
<1>5. cached[k] # None => Snapshot(cached[k], k, made, Listed)
  BY <1>2 DEF FeedInv, PagesAreSnapshots
<1>6. seen' \subseteq 1 .. made /\ seen \subseteq 1 .. made
  BY <1>3, <1>5 DEF FeedInv, WayIsSeen, Snapshot
\* A row above the path is above the page shown, unless that is the first.
<1>7. ASSUME NEW R \in SUBSET Listed, Above(R, seen, s),
             k = 0 /\ cached[0] # None => \A r \in R, q \in cached[0].items : q < r
      PROVE  Above(R, seen', s)
  <2> SUFFICES ASSUME NEW r \in R PROVE \A q \in seen' : q < r
    BY <1>7 DEF Above
  <2>1. \A q \in seen : q < r
    BY <1>7 DEF Above
  <2> SUFFICES ASSUME cached[k] # None, NEW q \in cached[k].items PROVE q < r
    BY <1>3, <2>1
  <2>2. CASE k = 0
    BY <1>7, <2>2
  <2>3. CASE k # 0
    <3>1. k < r
      BY <1>2, <1>7, <2>3 DEF Above
    <3>2. q < k /\ q \in 1 .. made
      BY <1>5, <2>3 DEF Snapshot
    <3>3. q \in Nat /\ r \in Nat /\ k \in Nat
      BY <1>0, <1>2, <3>2
    <3> QED
      BY <3>1, <3>2, <3>3
  <2> QED
    BY <2>2, <2>3
<1>8. FirstPageIsNewest'
  <2>1. cached[0] # None => Above(Missing(cached[0], Listed), seen', s)
    <3>1. Missing(cached[0], Listed) \in SUBSET Listed
      BY DEF Missing
    <3>2. k = 0 /\ cached[0] # None => \A r \in Missing(cached[0], Listed), q \in cached[0].items : q < r
      BY <1>5 DEF Snapshot
    <3> QED
      BY <1>7, <3>1, <3>2
  <2>2. Got(0) => Above(Missing(run[0].got, Listed), seen', s)
    <3>1. Missing(run[0].got, Listed) \in SUBSET Listed
      BY DEF Missing
    <3>2. Got(0) /\ cached[0] # None =>
              \A r \in Missing(run[0].got, Listed), q \in cached[0].items : q < r
      BY DEF FeedInv, FirstPageIsNewest, Above
    <3> QED
      BY <1>7, <3>1, <3>2
  <2>3. Got(0) /\ cached[0] # None => Above(Missing(run[0].got, Listed), cached[0].items, <<0>>)
    BY DEF FeedInv, FirstPageIsNewest
  <2> QED
    BY <1>3, <1>4, <2>1, <2>2, <2>3 DEF FirstPageIsNewest
<1>9. WayIsSeen'
  <2>1. ASSUME NEW i \in 2 .. Len(s) PROVE Solid(seen', s[i], Listed)
    <3> SUFFICES ASSUME NEW r \in Listed, r >= s[i], NEW q \in seen', r < q PROVE r \in seen'
      BY DEF Solid
    <3>1. CASE q \in seen
      BY <1>3, <2>1, <3>1 DEF Solid
    <3>2. CASE cached[k] # None /\ q \in cached[k].items
      <4>1. k # 0
        BY <1>2, <2>1
      <4>2. q < k /\ q \in 1 .. made
        BY <1>5, <3>2, <4>1 DEF Snapshot
      <4>3. q \in Nat /\ r \in Nat /\ k \in Nat /\ s[i] \in Nat /\ k <= s[i]
        BY <1>0, <1>2, <2>1, <4>2
      <4> QED
        BY <4>2, <4>3
    <3> QED
      BY <1>3, <3>1, <3>2
  <2>2. cached[k] # None => cached[k].items \subseteq seen'
    BY <1>3
  <2> QED
    BY <1>1, <1>3, <1>6, <2>1, <2>2 DEF WayIsSeen
<1> QED
  BY <1>4, <1>8, <1>9

LEMMA OpenPagerKeeps == FeedInv /\ OpenPager => PagesAreSnapshots' /\ FirstPageIsNewest' /\ WayIsSeen'
<1> SUFFICES ASSUME FeedInv, OpenPager PROVE PagesAreSnapshots' /\ FirstPageIsNewest' /\ WayIsSeen'
  OBVIOUS
<1>1. stack = <<0>> /\ seen = {}
  BY DEF FeedInv, WayIsSeen, OpenPager
<1>2. stack \in Seq(Keys) /\ ShowPage(stack) /\ feed = "pager" /\ open'
  BY <1>1 DEF OpenPager, FeedInv, FeedTypeOK
<1>3. UNCHANGED <<feed, made, Listed, cached>>
  BY DEF OpenPager, server, Listed
<1> QED
  BY <1>2, <1>3, ShowKeeps DEF FeedInv, WayIsSeen, FirstPageIsNewest

LEMMA LeavePagerKeeps == FeedInv /\ LeavePager => PagesAreSnapshots' /\ FirstPageIsNewest' /\ WayIsSeen'
<1> SUFFICES ASSUME FeedInv, LeavePager PROVE PagesAreSnapshots' /\ FirstPageIsNewest' /\ WayIsSeen'
  OBVIOUS
<1>1. UNCHANGED <<feed, made, Listed, cached, run>> /\ stack' = <<0>> /\ seen' = {} /\ open' = FALSE
  BY DEF LeavePager, server, Listed
<1>2. PagesAreSnapshots'
  BY <1>1 DEF FeedInv, PagesAreSnapshots, Got, Sent
<1>3. Len(<<0>>) = 1 /\ <<0>>[1] = 0 /\ \A i \in 2 .. Len(<<0>>) : FALSE
  OBVIOUS
<1>4. \A R : Above(R, {}, <<0>>)
  BY <1>3 DEF Above
<1>5. FirstPageIsNewest'
  BY <1>1, <1>4 DEF FeedInv, FirstPageIsNewest, Got, Sent
<1>6. WayIsSeen'
  BY <1>1, <1>3 DEF WayIsSeen, Path
<1> QED
  BY <1>2, <1>5, <1>6

LEMMA RefetchPageKeeps == FeedInv /\ RefetchPage => PagesAreSnapshots' /\ FirstPageIsNewest' /\ WayIsSeen'
<1> SUFFICES ASSUME FeedInv, RefetchPage PROVE PagesAreSnapshots' /\ FirstPageIsNewest' /\ WayIsSeen'
  OBVIOUS
<1>1. UNCHANGED <<feed, made, Listed, cached, open, stack, seen>> /\ feed = "pager"
  BY DEF RefetchPage, server, Listed
<1>2. Cursor <= made /\ Cursor \in Keys
  <2>1. made \in Nat /\ stack \in Seq(Keys) /\ Path(stack, made)
    BY PagesAssumption DEF FeedInv, FeedTypeOK, WayIsSeen
  <2> QED
    BY <2>1, PathEnds DEF Cursor
<1>3. run' = [run EXCEPT ![Cursor] = IF @ = None THEN Sent ELSE @]
  BY <1>2 DEF RefetchPage, FeedInv, FeedTypeOK
<1>4. PagesAreSnapshots' /\ (Got(0)' => Got(0) /\ run'[0] = run[0])
  BY <1>1, <1>2, <1>3, RunsOn
<1>5. FirstPageIsNewest'
  BY <1>1, <1>4 DEF FeedInv, FirstPageIsNewest
<1>6. WayIsSeen'
  BY <1>1 DEF FeedInv, WayIsSeen
<1> QED
  BY <1>4, <1>5, <1>6

LEMMA GoPrevKeeps == FeedInv /\ goPrev => PagesAreSnapshots' /\ FirstPageIsNewest' /\ WayIsSeen'
<1> SUFFICES ASSUME FeedInv, goPrev PROVE PagesAreSnapshots' /\ FirstPageIsNewest' /\ WayIsSeen'
  OBVIOUS
<1>1. stack \in Seq(Keys) /\ Len(stack) > 1 /\ Path(stack, made)
  BY DEF FeedInv, FeedTypeOK, WayIsSeen, goPrev
<1>2. PICK s : s = Front(stack)
  OBVIOUS
<1>3. s \in Seq(Keys) /\ Len(s) = Len(stack) - 1
  BY <1>1, <1>2, StackTyped DEF FeedInv
<1>4. \A i \in 1 .. Len(s) : s[i] = stack[i] /\ i \in 1 .. Len(stack)
  BY <1>1, <1>2, <1>3 DEF Front
<1>5. \A i \in 2 .. Len(s) : i \in 2 .. Len(stack) /\ s[i] = stack[i]
  <2> TAKE i \in 2 .. Len(s)
  <2>1. i \in 1 .. Len(s)
    OBVIOUS
  <2> QED
    BY <1>1, <1>4, <2>1
<1>6. Path(s, made)
  <2>1. Len(s) >= 1 /\ 1 \in 1 .. Len(s)
    BY <1>1, <1>3
  <2> QED
    BY <1>1, <1>4, <1>5, <2>1 DEF Path
<1>7. feed = "pager" /\ open' /\ UNCHANGED <<feed, made, Listed, cached>> /\ ShowPage(s)
  <2>1. stack # <<0>>
    <3>1. Len(<<0>>) = 1
      OBVIOUS
    <3>2. PICK l \in Nat : l = Len(stack)
      BY <1>1
    <3>3. l > 1
      BY <1>1, <3>2
    <3> QED
      BY <3>1, <3>2, <3>3
  <2> QED
    BY <1>2, <2>1 DEF goPrev, server, Listed, FeedInv, WayIsSeen
<1>8. \A i \in 2 .. Len(s) : Solid(seen, s[i], Listed)
  BY <1>5 DEF FeedInv, WayIsSeen
<1>9. \A R : Above(R, seen, stack) => Above(R, seen, s)
  BY <1>5 DEF Above
<1> QED
  BY <1>3, <1>6, <1>7, <1>8, <1>9, ShowKeeps DEF FeedInv, FirstPageIsNewest

LEMMA GoNextKeeps == FeedInv /\ goNext => PagesAreSnapshots' /\ FirstPageIsNewest' /\ WayIsSeen'
<1> SUFFICES ASSUME FeedInv, goNext PROVE PagesAreSnapshots' /\ FirstPageIsNewest' /\ WayIsSeen'
  OBVIOUS
<1>0. made \in Nat /\ 0 \in Keys /\ \A r \in Listed : r \in Nat
  BY ListedRows, PagesAssumption DEF FeedInv, FeedTypeOK, Keys, AllRows
<1>1. stack \in Seq(Keys) /\ Path(stack, made) /\ Len(stack) \in Nat
  BY DEF FeedInv, FeedTypeOK, WayIsSeen
<1>2. PICK k : k = Cursor
  OBVIOUS
<1>3. /\ k \in 0 .. made /\ k \in Keys
      /\ k = 0 => \A i \in 2 .. Len(stack) : FALSE
      /\ k # 0 => Len(stack) \in 2 .. Len(stack) /\ stack[Len(stack)] = k
      /\ \A i \in 2 .. Len(stack) : stack[i] \in Nat /\ k <= stack[i]
  BY <1>0, <1>1, <1>2, PathEnds DEF Cursor
<1>4. PICK P : P = cached[k]
  OBVIOUS
<1>5. Snapshot(P, k, made, Listed) /\ P # None /\ P.next # 0 /\ P.items \subseteq seen
  BY <1>2, <1>3, <1>4 DEF goNext, FeedInv, PagesAreSnapshots, WayIsSeen, Cursor
<1>6. PICK m : m = P.next
  OBVIOUS
<1>7. m \in seen /\ m \in 1 .. made /\ (k # 0 => m < k)
  BY <1>5, <1>6 DEF Snapshot
<1>8. PICK s : s = Append(stack, m)
  OBVIOUS
<1>9. /\ s \in Seq(Keys) /\ Len(s) = Len(stack) + 1 /\ s[Len(stack) + 1] = m
      /\ \A i \in 1 .. Len(stack) : s[i] = stack[i]
  <2>1. m \in Keys
    BY <1>7, PagesAssumption DEF Keys, FeedInv, FeedTypeOK
  <2> QED
    BY <1>1, <1>8, <2>1
<1>10. Len(stack) >= 1
  BY <1>1 DEF Path
<1>11. \A i \in 2 .. Len(s) : (i \in 2 .. Len(stack) /\ s[i] = stack[i]) \/ (i = Len(s) /\ s[i] = m)
  <2> TAKE i \in 2 .. Len(s)
  <2>1. i \in 2 .. Len(stack) \/ i = Len(s)
    BY <1>1, <1>9
  <2>2. i \in 2 .. Len(stack) => i \in 1 .. Len(stack)
    BY <1>1
  <2> QED
    BY <1>9, <2>1, <2>2
<1>12. \A i \in 2 .. Len(stack) : m < stack[i]
  <2> TAKE i \in 2 .. Len(stack)
  <2>1. k # 0 /\ stack[i] \in Nat /\ k <= stack[i] /\ m \in Nat /\ k \in Nat
    BY <1>3, <1>7
  <2> QED
    BY <1>7, <2>1
<1>13. Path(s, made)
  <2>1. Len(s) >= 1 /\ s[1] = 0
    BY <1>1, <1>9, <1>10 DEF Path
  <2>2. \A i \in 2 .. Len(s) : s[i] \in 1 .. made
    BY <1>1, <1>7, <1>11 DEF Path
  <2>3. ASSUME NEW i \in 2 .. Len(s), NEW j \in 2 .. Len(s), i < j PROVE s[j] < s[i]
    <3>1. i \in 2 .. Len(stack) /\ s[i] = stack[i]
      <4>1. i # Len(s)
        BY <1>1, <1>9, <2>3
      <4> QED
        BY <1>11, <2>3, <4>1
    <3>2. CASE j \in 2 .. Len(stack) /\ s[j] = stack[j]
      BY <1>1, <2>3, <3>1, <3>2 DEF Path
    <3>3. CASE s[j] = m
      BY <1>12, <3>1, <3>3
    <3> QED
      BY <1>11, <2>3, <3>2, <3>3
  <2> QED
    BY <2>1, <2>2, <2>3 DEF Path
<1>14. Solid(seen, m, Listed)
  <2> SUFFICES ASSUME NEW r \in Listed, r >= m, NEW q \in seen, r < q, r \notin P.items PROVE r \in seen
    BY <1>5 DEF Solid
  <2>1. r \in Missing(P, Listed)
    BY <1>6 DEF Missing
  <2>2. CASE k = 0
    <3>1. q < r
      BY <1>4, <1>5, <2>1, <2>2 DEF FeedInv, FirstPageIsNewest, Above
    <3>2. q \in Nat /\ r \in Nat
      BY <1>0 DEF FeedInv, WayIsSeen
    <3> QED
      BY <3>1, <3>2
  <2>3. CASE k # 0
    <3>1. r >= k
      BY <1>5, <2>1, <2>3 DEF Snapshot
    <3>2. Solid(seen, k, Listed)
      BY <1>3, <2>3 DEF FeedInv, WayIsSeen
    <3> QED
      BY <3>1, <3>2 DEF Solid
  <2> QED
    BY <2>2, <2>3
<1>15. \A i \in 2 .. Len(s) : Solid(seen, s[i], Listed)
  BY <1>11, <1>14 DEF FeedInv, WayIsSeen
<1>16. \A R : Above(R, seen, stack) => Above(R, seen, s)
  BY <1>7, <1>11 DEF Above
<1>17. feed = "pager" /\ open' /\ UNCHANGED <<feed, made, Listed, cached>> /\ ShowPage(s)
  BY <1>2, <1>4, <1>6, <1>8 DEF goNext, server, Listed
<1> QED
  BY <1>9, <1>13, <1>15, <1>16, <1>17, ShowKeeps DEF FeedInv, FirstPageIsNewest

LEMMA ListKeeps ==
    ASSUME FeedInv, NEW k \in Keys, List(k)
    PROVE  PagesAreSnapshots' /\ FirstPageIsNewest' /\ WayIsSeen'
<1>0. made \in Nat /\ 0 \in Keys /\ \A r \in Listed : r \in Nat
  BY ListedRows, PagesAssumption DEF FeedInv, FeedTypeOK, Keys, AllRows
<1>1. UNCHANGED <<feed, made, Listed, cached, open, stack, seen>>
  BY DEF List, server, Listed
<1>2. PICK P : P = Page(Below(k))
  OBVIOUS
<1>3. run[k] = Sent /\ run' = [run EXCEPT ![k].got = P]
  BY <1>2 DEF List
<1>4. run'[k].got = P /\ \A j \in Keys : j # k => run'[j] = run[j]
  BY <1>3 DEF FeedInv, FeedTypeOK, Sent
<1>5. k <= made /\ feed = "pager" /\ k \in Nat
  <2>1. run[k] # None
    BY <1>3, SentAssumption
  <2> QED
    BY <2>1 DEF FeedInv, PagesAreSnapshots, Keys
<1>6. Below(k) \in SUBSET Listed /\ Below(k) \in SUBSET (1 .. made)
  BY ListedRows DEF FeedInv
<1>7. /\ P.items \subseteq Below(k) /\ P.next \in 0 .. made
      /\ P.next # 0 => P.next \in P.items
      /\ \A r \in Below(k) : r >= P.next => r \in P.items
  BY <1>0, <1>2, <1>6, PageHolds
<1>8. \A r \in Missing(P, Listed) : k # 0 /\ r >= k
  <2> TAKE r \in Missing(P, Listed)
  <2>1. r \in Listed /\ r >= P.next /\ r \notin P.items
    BY DEF Missing
  <2>2. r \notin Below(k)
    BY <1>7, <2>1
  <2>3. k # 0 /\ ~(r < k)
    BY <2>1, <2>2 DEF Below
  <2>4. r \in Nat
    BY <1>0, <2>1
  <2> QED
    BY <1>5, <2>3, <2>4
<1>9. Snapshot(P, k, made, Listed)
  <2>1. P.items \subseteq 1 .. made
    BY <1>6, <1>7
  <2>2. k # 0 => \A r \in P.items : r < k
    BY <1>7 DEF Below
  <2> QED
    BY <1>7, <1>8, <2>1, <2>2 DEF Snapshot
<1>10. PagesAreSnapshots'
  <2> SUFFICES ASSUME NEW j \in Keys
               PROVE  /\ cached[j] # None => j <= made /\ Snapshot(cached[j], j, made, Listed)
                      /\ run'[j] # None => j <= made /\ feed = "pager"
                      /\ Got(j)' => Snapshot(run'[j].got, j, made, Listed)
    BY <1>1 DEF PagesAreSnapshots
  <2>1. /\ cached[j] # None => j <= made /\ Snapshot(cached[j], j, made, Listed)
        /\ run[j] # None => j <= made /\ feed = "pager"
        /\ Got(j) => Snapshot(run[j].got, j, made, Listed)
    BY DEF FeedInv, PagesAreSnapshots
  <2>2. CASE j = k
    BY <1>4, <1>5, <1>9, <2>1, <2>2
  <2>3. CASE j # k
    BY <1>4, <2>1, <2>3 DEF Got, Sent
  <2> QED
    BY <2>2, <2>3
<1>11. FirstPageIsNewest'
  <2>1. CASE k = 0
    <3>1. \A r \in Missing(run'[0].got, Listed) : FALSE
      BY <1>4, <1>8, <2>1
    <3> QED
      BY <1>1, <3>1 DEF FeedInv, FirstPageIsNewest, Above
  <2>2. CASE k # 0
    <3>1. run'[0] = run[0] /\ (Got(0)' => Got(0))
      BY <1>0, <1>4, <2>2 DEF Got, Sent
    <3> QED
      BY <1>1, <3>1 DEF FeedInv, FirstPageIsNewest
  <2> QED
    BY <2>1, <2>2
<1>12. WayIsSeen'
  BY <1>1 DEF FeedInv, WayIsSeen
<1> QED
  BY <1>10, <1>11, <1>12

LEMMA PageArrivesKeeps ==
    ASSUME FeedInv, NEW k \in Keys, PageArrives(k)
    PROVE  PagesAreSnapshots' /\ FirstPageIsNewest' /\ WayIsSeen'
<1>0. made \in Nat /\ 0 \in Keys /\ \A r \in Listed : r \in Nat
  BY ListedRows, PagesAssumption DEF FeedInv, FeedTypeOK, Keys, AllRows
<1>1. UNCHANGED <<feed, made, Listed, open, stack>>
  BY DEF PageArrives, server, Listed
<1>2. PICK P : P = run[k].got
  OBVIOUS
<1>3. /\ Got(k) /\ k <= made /\ feed = "pager" /\ k \in Nat
      /\ Snapshot(P, k, made, Listed)
  <2>1. Got(k)
    BY DEF PageArrives, Got
  <2> QED
    BY <1>2, <2>1 DEF FeedInv, PagesAreSnapshots, Got, Keys
<1>4. /\ cached'[k] = P /\ \A j \in Keys : j # k => cached'[j] = cached[j]
      /\ run'[k] = None /\ \A j \in Keys : j # k => run'[j] = run[j]
  BY <1>2 DEF PageArrives, FeedInv, FeedTypeOK
<1>5. seen' = IF open /\ k = Last(stack) THEN seen \cup P.items ELSE seen
  BY <1>2 DEF PageArrives, Cursor
<1>6. PagesAreSnapshots'
  <2> SUFFICES ASSUME NEW j \in Keys
               PROVE  /\ cached'[j] # None => j <= made /\ Snapshot(cached'[j], j, made, Listed)
                      /\ run'[j] # None => j <= made /\ feed = "pager"
                      /\ Got(j)' => Snapshot(run'[j].got, j, made, Listed)
    BY <1>1 DEF PagesAreSnapshots
  <2>1. /\ cached[j] # None => j <= made /\ Snapshot(cached[j], j, made, Listed)
        /\ run[j] # None => j <= made /\ feed = "pager"
        /\ Got(j) => Snapshot(run[j].got, j, made, Listed)
    BY DEF FeedInv, PagesAreSnapshots
  <2>2. CASE j = k
    BY <1>3, <1>4, <2>1, <2>2 DEF Got
  <2>3. CASE j # k
    BY <1>4, <2>1, <2>3 DEF Got, Sent
  <2> QED
    BY <2>2, <2>3
<1>7. stack \in Seq(Keys) /\ Path(stack, made)
  BY DEF FeedInv, FeedTypeOK, WayIsSeen
<1>8. PICK c : c = Last(stack)
  OBVIOUS
<1>9. /\ c = 0 => \A i \in 2 .. Len(stack) : FALSE
      /\ c # 0 => Len(stack) \in 2 .. Len(stack) /\ stack[Len(stack)] = c
      /\ \A i \in 2 .. Len(stack) : stack[i] \in Nat /\ c <= stack[i]
  BY <1>0, <1>7, <1>8, PathEnds
\* What arrives on the screen is the newest rows, or it is below the path.
<1>10. ASSUME NEW R \in SUBSET Listed, Above(R, seen, stack),
              k = 0 => \A r \in R, q \in P.items : q < r
       PROVE  Above(R, seen', stack)
  <2> SUFFICES ASSUME NEW r \in R PROVE \A q \in seen' : q < r
    BY <1>10 DEF Above
  <2>1. \A q \in seen : q < r
    BY <1>10 DEF Above
  <2> SUFFICES ASSUME k = c, NEW q \in P.items PROVE q < r
    BY <1>5, <1>8, <2>1
  <2>2. CASE k = 0
    BY <1>10, <2>2
  <2>3. CASE k # 0
    <3>1. k < r
      BY <1>9, <1>10, <2>3 DEF Above
    <3>2. q < k /\ q \in 1 .. made
      BY <1>3, <2>3 DEF Snapshot
    <3>3. q \in Nat /\ r \in Nat
      BY <1>0, <3>2
    <3> QED
      BY <1>3, <3>1, <3>2, <3>3
  <2> QED
    BY <2>2, <2>3
<1>11. FirstPageIsNewest'
  <2>1. CASE k = 0
    <3>1. Above(Missing(P, Listed), seen, stack)
      BY <1>2, <1>3, <2>1 DEF FeedInv, FirstPageIsNewest
    <3>2. \A r \in Missing(P, Listed), q \in P.items : q < r
      BY <1>3, <2>1 DEF Snapshot
    <3>3. Missing(P, Listed) \in SUBSET Listed
      BY DEF Missing
    <3>4. Above(Missing(P, Listed), seen', stack)
      BY <1>10, <3>1, <3>2, <3>3
    <3>5. cached'[0] = P /\ ~Got(0)'
      BY <1>4, <2>1 DEF Got
    <3> QED
      BY <1>1, <3>4, <3>5 DEF FirstPageIsNewest
  <2>2. CASE k # 0
    <3>1. cached'[0] = cached[0] /\ run'[0] = run[0] /\ (Got(0)' => Got(0))
      BY <1>0, <1>4, <2>2 DEF Got, Sent
    <3>2. /\ Missing(cached[0], Listed) \in SUBSET Listed
          /\ Missing(run[0].got, Listed) \in SUBSET Listed
      BY DEF Missing
    <3>3. cached[0] # None => Above(Missing(cached[0], Listed), seen', stack)
      BY <1>10, <2>2, <3>2 DEF FeedInv, FirstPageIsNewest
    <3>4. Got(0) => Above(Missing(run[0].got, Listed), seen', stack)
      BY <1>10, <2>2, <3>2 DEF FeedInv, FirstPageIsNewest
    <3>5. Got(0) /\ cached[0] # None => Above(Missing(run[0].got, Listed), cached[0].items, <<0>>)
      BY DEF FeedInv, FirstPageIsNewest
    <3> QED
      BY <1>1, <3>1, <3>3, <3>4, <3>5 DEF FirstPageIsNewest
  <2> QED
    BY <2>1, <2>2
<1>12. WayIsSeen'
  <2>1. ASSUME NEW i \in 2 .. Len(stack) PROVE Solid(seen', stack[i], Listed)
    <3> SUFFICES ASSUME NEW r \in Listed, r >= stack[i], NEW q \in seen', r < q PROVE r \in seen'
      BY DEF Solid
    <3>0. Solid(seen, stack[i], Listed)
      BY <2>1 DEF FeedInv, WayIsSeen
    <3>1. CASE q \in seen
      BY <1>5, <3>0, <3>1 DEF Solid
    <3>2. CASE k = c /\ q \in P.items
      <4>1. k # 0
        BY <1>9, <2>1, <3>2
      <4>2. q < k /\ q \in 1 .. made
        BY <1>3, <3>2, <4>1 DEF Snapshot
      <4>3. q \in Nat /\ r \in Nat /\ stack[i] \in Nat /\ k <= stack[i]
        BY <1>0, <1>9, <2>1, <3>2, <4>2
      <4> QED
        BY <1>3, <4>2, <4>3
    <3> QED
      BY <1>5, <1>8, <3>1, <3>2
  <2>2. seen' \subseteq 1 .. made
    BY <1>3, <1>5 DEF FeedInv, WayIsSeen, Snapshot
  <2>3. (feed = "pager" /\ open) \/ (stack = <<0>> /\ seen' = {})
    <3>1. CASE open
      BY <1>3, <3>1
    <3>2. CASE ~open
      BY <1>5, <3>2 DEF FeedInv, WayIsSeen
    <3> QED
      BY <3>1, <3>2
  <2>4. feed = "pager" /\ open /\ cached'[c] # None => cached'[c].items \subseteq seen'
    <3>1. c \in Keys
      BY <1>0, <1>7, <1>8, PathEnds
    <3>2. CASE c = k
      BY <1>4, <1>5, <1>8, <3>2
    <3>3. CASE c # k
      BY <1>4, <1>5, <1>8, <3>1, <3>3 DEF FeedInv, WayIsSeen
    <3> QED
      BY <3>2, <3>3
  <2> QED
    BY <1>1, <1>7, <1>8, <2>1, <2>2, <2>3, <2>4 DEF WayIsSeen
<1> QED
  BY <1>6, <1>11, <1>12

LEMMA PageFailsKeeps ==
    ASSUME FeedInv, NEW k \in Keys, PageFails(k)
    PROVE  PagesAreSnapshots' /\ FirstPageIsNewest' /\ WayIsSeen'
<1>0. 0 \in Keys
  BY PagesAssumption DEF Keys
<1>1. UNCHANGED <<feed, made, Listed, cached, open, stack, seen>>
  BY DEF PageFails, server, Listed
<1>2. \A j \in Keys : run'[j] = None \/ run'[j] = run[j]
  BY DEF PageFails, FeedInv, FeedTypeOK
<1>3. \A j \in Keys : Got(j)' => Got(j) /\ run'[j] = run[j]
  BY <1>2 DEF Got, Sent
<1>4. PagesAreSnapshots'
  BY <1>1, <1>2, <1>3 DEF FeedInv, PagesAreSnapshots
<1>5. FirstPageIsNewest'
  BY <1>0, <1>1, <1>3 DEF FeedInv, FirstPageIsNewest
<1>6. WayIsSeen'
  BY <1>1 DEF FeedInv, WayIsSeen
<1> QED
  BY <1>4, <1>5, <1>6

-----------------------------------------------------------------------------
LEMMA FeedInvInit == FeedInit => FeedInv
<1> SUFFICES ASSUME FeedInit PROVE FeedInv
  OBVIOUS
<1>1. FeedTypeOK
  BY TypeInit
<1>2. 0 \in Keys /\ \A k \in Keys : cached[k] = None /\ run[k] = None
  BY PagesAssumption DEF FeedInit, Keys
<1>3. Len(<<0>>) = 1 /\ <<0>>[1] = 0 /\ \A i \in 2 .. Len(<<0>>) : FALSE
  OBVIOUS
<1>4. ChainsJoin
  BY DEF FeedInit, ChainsJoin
<1>5. PagesAreSnapshots /\ FirstPageIsNewest
  BY <1>2 DEF PagesAreSnapshots, FirstPageIsNewest, Got
<1>6. WayIsSeen
  BY <1>3 DEF FeedInit, WayIsSeen, Path
<1> QED
  BY <1>1, <1>4, <1>5, <1>6 DEF FeedInv

LEMMA FeedInvNext == FeedInv /\ [FeedNext]_feedVars => FeedInv'
<1> SUFFICES ASSUME FeedInv, [FeedNext]_feedVars PROVE FeedInv'
  OBVIOUS
<1>0. FeedTypeOK /\ Len(stack) >= 1
  BY DEF FeedInv, WayIsSeen, Path
<1>1. CASE ReadPage
  <2>1. FeedTypeOK' /\ ChainsJoin'
    BY <1>0, <1>1, TypeReadPage, ReadPageJoins
  <2>2. UNCHANGED <<feed, made, Listed, open, stack, cached, run, seen>>
    BY <1>1 DEF ReadPage, server, Listed, pager
  <2> QED
    BY <2>1, <2>2, PagerStays DEF FeedInv
<1>2. CASE \/ PagesArrive \/ ChainFails \/ FetchNextPage \/ OpenList \/ CloseList \/ ReconnectList
  <2>1. FeedTypeOK' /\ ChainsJoin'
    BY <1>0, <1>2, TypeChains, ChainStepsJoin
  <2>2. UNCHANGED <<feed, made, Listed, stack, cached, run, seen>> /\ (open' = open \/ feed # "pager")
    BY <1>2 DEF PagesArrive, ChainFails, FetchNextPage, OpenList, CloseList, ReconnectList,
                server, Listed, pager
  <2> QED
    BY <2>1, <2>2, PagerStays DEF FeedInv
<1>3. CASE (\E r \in AllRows : MarkRead(r)) \/ MarkAllRead \/ MarkAnswered
  <2>1. FeedTypeOK' /\ ChainsJoin'
    BY <1>0, <1>3, TypeMarks, ChainStepsJoin
  <2>2. UNCHANGED <<feed, made, Listed, stack, cached, run, seen>> /\ (open' = open \/ feed # "pager")
    BY <1>3 DEF MarkRead, MarkAllRead, MarkAnswered, server, Listed, pager
  <2> QED
    BY <2>1, <2>2, PagerStays DEF FeedInv
<1>4. CASE (\E r \in AllRows : RowGoes(r)) \/ RowMade \/ MarkStored \/ MarkFails
  <2>1. FeedTypeOK'
    BY <1>0, <1>4, TypeMarks, TypeBell
  <2> QED
    BY <1>4, <2>1, RowsChangeInv DEF FeedInv
<1>5. CASE Poll \/ UnreadCount \/ CountArrives \/ PollFails
  <2>1. FeedTypeOK'
    BY <1>0, <1>5, TypeBell
  <2>2. UNCHANGED <<feed, made, Listed, open, chain, job, stack, cached, run, seen>>
    BY <1>5 DEF Poll, UnreadCount, CountArrives, PollFails, server, Listed, infinite, pager
  <2>3. ChainsJoin'
    BY <2>2 DEF FeedInv, ChainsJoin
  <2> QED
    BY <2>1, <2>2, <2>3, PagerStays DEF FeedInv
<1>6. CASE \/ OpenPager \/ LeavePager \/ goNext \/ goPrev \/ RefetchPage
           \/ \E k \in Keys : List(k) \/ PageArrives(k) \/ PageFails(k)
  <2>1. FeedTypeOK'
    BY <1>0, <1>6, TypePager
  <2>2. UNCHANGED <<made, Listed, chain, job>>
    BY <1>6 DEF OpenPager, LeavePager, goNext, goPrev, RefetchPage, List, PageArrives, PageFails,
                server, Listed, infinite
  <2>3. ChainsJoin'
    BY <2>2 DEF FeedInv, ChainsJoin
  <2>4. PagesAreSnapshots' /\ FirstPageIsNewest' /\ WayIsSeen'
    BY <1>6, OpenPagerKeeps, LeavePagerKeeps, GoNextKeeps, GoPrevKeeps, RefetchPageKeeps,
       ListKeeps, PageArrivesKeeps, PageFailsKeeps
  <2> QED
    BY <2>1, <2>3, <2>4 DEF FeedInv
<1>7. CASE UNCHANGED feedVars
  <2>1. UNCHANGED <<feed, made, gone, open, chain, job, mark, badge, poll, stack, cached, run, seen, acts, faults>>
    BY <1>7 DEF feedVars, server, infinite, bell, pager
  <2>2. UNCHANGED Listed
    BY <2>1 DEF Listed
  <2>3. FeedTypeOK' /\ ChainsJoin'
    BY <2>1, <2>2 DEF FeedInv, FeedTypeOK, ChainsJoin
  <2> QED
    BY <2>1, <2>2, <2>3, PagerStays DEF FeedInv
<1>8. \/ ReadPage
      \/ PagesArrive \/ ChainFails \/ FetchNextPage \/ OpenList \/ CloseList \/ ReconnectList
      \/ (\E r \in AllRows : MarkRead(r)) \/ MarkAllRead \/ MarkAnswered
      \/ (\E r \in AllRows : RowGoes(r)) \/ RowMade \/ MarkStored \/ MarkFails
      \/ Poll \/ UnreadCount \/ CountArrives \/ PollFails
      \/ OpenPager \/ LeavePager \/ goNext \/ goPrev \/ RefetchPage
      \/ \E k \in Keys : List(k) \/ PageArrives(k) \/ PageFails(k)
      \/ UNCHANGED feedVars
  BY DEF FeedNext
<1> QED
  BY <1>1, <1>2, <1>3, <1>4, <1>5, <1>6, <1>7, <1>8

\* What the invariant says of the lists on the screen.
LEMMA NothingIsMissing == FeedInv => NothingIsSkipped
<1> SUFFICES ASSUME FeedInv PROVE NothingIsSkipped
  OBVIOUS
<1>0. made \in Nat /\ 0 \in Keys /\ \A r \in Listed : r \in Nat /\ r # 0
  BY ListedRows, PagesAssumption DEF FeedInv, FeedTypeOK, Keys, AllRows
<1>1. ASSUME NEW S, NEW c \in Nat, Solid(S, c, Listed)
      PROVE  Seamless(S, IF c = 0 THEN 0 ELSE c - 1)
  <2> SUFFICES ASSUME NEW r \in Listed, r > (IF c = 0 THEN 0 ELSE c - 1), NEW s \in S, r < s PROVE r \in S
    BY DEF Seamless
  <2>1. r \in Nat
    BY <1>0
  <2>2. r >= c
    BY <2>1
  <2> QED
    BY <1>1, <2>2 DEF Solid
<1>2. ASSUME chain # None, ~chain.torn
      PROVE  Seamless(chain.shown, IF chain.next = 0 THEN 0 ELSE chain.next - 1)
  <2>1. chain.next \in Nat /\ Solid(chain.shown, chain.next, Listed)
    BY <1>2 DEF FeedInv, ChainsJoin, Joins
  <2> QED
    BY <1>1, <2>1
<1>3. PICK c : c = Cursor
  OBVIOUS
<1>4. /\ c \in Nat /\ c \in Keys
      /\ c # 0 => Solid(seen, c, Listed)
  <2>1. stack \in Seq(Keys) /\ Path(stack, made)
    BY DEF FeedInv, FeedTypeOK, WayIsSeen
  <2>2. /\ c \in 0 .. made /\ c \in Keys
        /\ c # 0 => Len(stack) \in 2 .. Len(stack) /\ stack[Len(stack)] = c
    BY <1>0, <1>3, <2>1, PathEnds DEF Cursor
  <2> QED
    BY <2>2 DEF FeedInv, WayIsSeen
<1>5. c # 0 => Seamless(seen, c - 1)
  BY <1>1, <1>4
<1>6. ASSUME feed = "pager", open, cached[c] # None, cached[c].next = 0 PROVE Seamless(seen, 0)
  <2> SUFFICES ASSUME NEW r \in Listed, NEW s \in seen, r < s, r \notin seen PROVE FALSE
    BY DEF Seamless
  <2>1. cached[c].items \subseteq seen
    BY <1>3, <1>6 DEF FeedInv, WayIsSeen, Cursor
  <2>2. r \in Missing(cached[c], Listed)
    BY <1>0, <1>6, <2>1 DEF Missing
  <2>3. CASE c = 0
    <3>1. s < r
      BY <1>6, <2>2, <2>3 DEF FeedInv, FirstPageIsNewest, Above
    <3>2. s \in Nat /\ r \in Nat
      BY <1>0 DEF FeedInv, WayIsSeen
    <3> QED
      BY <3>1, <3>2
  <2>4. CASE c # 0
    <3>1. r >= c
      BY <1>4, <1>6, <2>2, <2>4 DEF FeedInv, PagesAreSnapshots, Snapshot
    <3> QED
      BY <1>4, <2>4, <3>1 DEF Solid
  <2> QED
    BY <2>3, <2>4
<1> QED
  BY <1>2, <1>3, <1>5, <1>6 DEF NothingIsSkipped

(* Whatever is fetched, lost, cancelled, added or deleted, the pages in the *)
(* cache, the fetches that run and the history keep their form.            *)
THEOREM FeedTypeCorrect == FeedSpec => []FeedTypeOK
<1>1. FeedInv => FeedTypeOK
  BY DEF FeedInv
<1> QED
  BY FeedInvInit, FeedInvNext, <1>1, PTL DEF FeedSpec

(* Nothing is skipped, for any size of the pages and any number of rows: a *)
(* list that grows has no gap, and whoever pages to a later page has seen  *)
(* every row on the way.                                                   *)
THEOREM Skips == FeedSpec => []NothingIsSkipped
BY FeedInvInit, FeedInvNext, NothingIsMissing, PTL DEF FeedSpec
=============================================================================
