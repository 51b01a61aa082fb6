--------------------------- MODULE ConnConfig_proofs ---------------------------
(***************************************************************************)
(* The table of configurations as long as one thread uses it, for a table   *)
(* of any size and any descriptors and configurations.  (Two threads take    *)
(* each other's entries: no lock protects the table.)                        *)
(***************************************************************************)
EXTENDS ConnConfig, WellFoundedInduction, TLAPS

Entries == [fd : Fds \cup {NoFd}, config : AllConfigs, in_use : BOOLEAN]

Entry(s, f) == table[s].in_use /\ table[s].fd = f
NoEntry(f) == \A s \in Slots : ~Entry(s, f)

\* What thread m knows of the entry it works on, from its search to its write.
WorkOK(m) ==
  LET s == index[m]
      f == fd[m]
      new == s \in Slots /\ ~table[s].in_use /\ NoEntry(f)
  IN  /\ pc[m] # "idle" => f \in Fds /\ user[f] = m
      /\ pc[m] \in {"update", "clear", "copy"} => s \in Slots /\ Entry(s, f)
      /\ pc[m] \in {"scan", "close"} => NoEntry(f)
      /\ pc[m] = "write_fd" => new
      /\ pc[m] = "write_config" => new /\ table[s].fd = f
      /\ pc[m] = "write_in_use" => new /\ table[s].fd = f /\ table[s].config = config[m]
      /\ pc[m] = "stored" => s \in Slots /\ Entry(s, f) /\ table[s].config = config[m]
      /\ pc[m] = "lookup" => config[m] = Default
      /\ pc[m] = "got" => config[m] = saved[f]

\* An entry holds what was stored for its connection, and a connection without one
\* has stored nothing; but for the one m is storing or closing.
SavedOK(m) ==
  \A f \in Fds :
    ~(pc[m] \in {"stored", "close"} /\ fd[m] = f) =>
      /\ \A s \in Slots : Entry(s, f) => table[s].config = saved[f]
      /\ NoEntry(f) => saved[f] = Default

Inv(m) == TypeOK /\ EntriesAreOpen /\ WorkOK(m) /\ SavedOK(m)

\* A search finds an index of the set it looks for, if there is one (the loops of
\* find_connection_config and add_connection_config).
LEMMA LowestIsIn ==
  ASSUME NEW S \in SUBSET Slots
  PROVE  /\ S = {} => LowestIn(S) = -1
         /\ S # {} => LowestIn(S) \in S
<1>1. ASSUME S # {}
      PROVE  LowestIn(S) \in S
  <2> DEFINE Less == {ss \in Nat \X Nat : ss[1] < ss[2]}
  <2>1. S \subseteq Nat
    BY ConfigAssumption DEF Slots
  <2>2. IsWellFoundedOn(Less, Nat)
    BY NatLessThanWellFounded DEF OpToRel
  <2>3. PICK s \in S : \A r \in S : <<r, s>> \notin Less
    BY <1>1, <2>1, <2>2, WFMin
  <2>4. \A r \in S : s <= r
    <3>1. \A r \in S : r \in Nat /\ s \in Nat /\ ~(r < s)
      BY <2>1, <2>3
    <3> QED
      BY <3>1
  <2> QED
    BY <1>1, <2>4 DEF LowestIn
<1> QED
  BY <1>1 DEF LowestIn

\* The loop over the table finds an entry of the connection, if there is one.
LEMMA FindFinds ==
  ASSUME NEW f
  PROVE  \/ FindConfig(f) = -1 /\ ~(FindConfig(f) >= 0) /\ NoEntry(f)
         \/ FindConfig(f) \in Slots /\ FindConfig(f) >= 0 /\ Entry(FindConfig(f), f)
<1> DEFINE S == {s \in Slots : table[s].in_use /\ table[s].fd = f}
<1>1. S \in SUBSET Slots /\ FindConfig(f) = LowestIn(S)
  BY DEF FindConfig
<1>2. CASE S = {}
  BY <1>1, <1>2, LowestIsIn DEF NoEntry, Entry
<1>3. CASE S # {}
  <2>1. LowestIn(S) \in S
    BY <1>1, <1>3, LowestIsIn
  <2> QED
    BY <1>1, <2>1, ConfigAssumption DEF Entry, Slots
<1> QED
  BY <1>2, <1>3

\* The loop for a free entry finds one that is not in use.
LEMMA FreeIsFree ==
  \/ FreeSlot = -1 /\ ~(FreeSlot >= 0)
  \/ FreeSlot \in Slots /\ FreeSlot >= 0 /\ ~table[FreeSlot].in_use
<1> DEFINE S == {s \in Slots : ~table[s].in_use}
<1>1. S \in SUBSET Slots /\ FreeSlot = LowestIn(S)
  BY DEF FreeSlot
<1>2. CASE S = {}
  BY <1>1, <1>2, LowestIsIn
<1>3. CASE S # {}
  <2>1. LowestIn(S) \in S
    BY <1>1, <1>3, LowestIsIn
  <2> QED
    BY <1>1, <2>1, ConfigAssumption DEF Slots
<1> QED
  BY <1>2, <1>3

\* It holds of the empty table.
LEMMA InitInv == ASSUME NEW m, Threads = {m} PROVE Init => Inv(m)
BY ConfigAssumption
   DEF Init, Inv, TypeOK, EntriesAreOpen, WorkOK, SavedOK, Entry, NoEntry, Locations,
       Tasks, AllConfigs

\* The steps of a call that change no entry.
LEMMA KeepsTable ==
  ASSUME NEW m, Threads = {m}, Inv(m), UNCHANGED <<table, user, saved>>,
         TypeOK', WorkOK(m)',
         pc[m] \in {"stored", "close"} => pc'[m] \in {"stored", "close"},
         pc[m] # "idle" => fd'[m] = fd[m]
  PROVE  Inv(m)'
<1>1. EntriesAreOpen'
  BY DEF Inv, EntriesAreOpen
<1>2. SavedOK(m)'
  BY DEF Inv, SavedOK, Entry, NoEntry
<1> QED
  BY <1>1, <1>2 DEF Inv

\* Every step of the one thread preserves it.
LEMMA NextInv == ASSUME NEW m, Threads = {m} PROVE Inv(m) /\ [Next]_vars => Inv(m)'
<1> SUFFICES ASSUME Inv(m), [Next]_vars
             PROVE  Inv(m)'
  OBVIOUS
<1> USE ConfigAssumption
<1>t. TypeOK /\ EntriesAreOpen /\ WorkOK(m) /\ SavedOK(m)
  BY DEF Inv
<1>1. ASSUME NEW f \in Fds, OpenSocket(m, f)
      PROVE  Inv(m)'
  <2>1. TypeOK'
    BY <1>t, <1>1 DEF OpenSocket, Enter, Goto, TypeOK, Locations, Tasks, AllConfigs
  <2>2. /\ user[f] = NoThread /\ user' = [user EXCEPT ![f] = m]
        /\ saved' = [saved EXCEPT ![f] = Default] /\ table' = table
        /\ pc[m] = "idle" /\ pc'[m] \in {"find", "remove"} /\ fd'[m] = f
    BY <1>t, <1>1 DEF OpenSocket, Enter, Goto, TypeOK
  <2>3. NoEntry(f)
    BY <1>t, <2>2 DEF EntriesAreOpen, NoEntry, Entry
  <2>4. EntriesAreOpen'
    BY <1>t, <2>2 DEF EntriesAreOpen, TypeOK
  <2>5. WorkOK(m)'
    BY <1>t, <2>2 DEF WorkOK, TypeOK
  <2>6. SavedOK(m)'
    BY <1>t, <2>2, <2>3 DEF SavedOK, Entry, NoEntry, TypeOK
  <2> QED
    BY <2>1, <2>4, <2>5, <2>6 DEF Inv
<1>2. ASSUME NEW f \in Fds,
             GetConfig(m, f) \/ Close(m, f) \/ \E c \in Configs : SetConfig(m, f, c)
      PROVE  Inv(m)'
  <2>1. TypeOK'
    BY <1>t, <1>2 DEF GetConfig, Close, SetConfig, Enter, Goto, TypeOK, Locations, Tasks,
                      AllConfigs
  <2>2. /\ UNCHANGED <<table, user, saved>> /\ user[f] = m /\ fd'[m] = f
        /\ pc[m] = "idle" /\ pc'[m] \in {"lookup", "remove", "find"}
        /\ pc'[m] = "lookup" => config'[m] = Default
    BY <1>t, <1>2 DEF GetConfig, Close, SetConfig, Enter, Goto, TypeOK
  <2>3. WorkOK(m)'
    BY <2>2 DEF WorkOK
  <2> QED
    BY <2>1, <2>2, <2>3, KeepsTable
\* The searches.
<1>3. ASSUME Find(m) \/ Remove(m) \/ Lookup(m)
      PROVE  Inv(m)'
  <2> DEFINE s == FindConfig(fd[m])
  <2>1. /\ UNCHANGED <<table, user, saved, fd, config, task>>
        /\ index' = [index EXCEPT ![m] = s]
        /\ \/ /\ pc[m] = "find"
              /\ pc' = [pc EXCEPT ![m] = IF s >= 0 THEN "update" ELSE "scan"]
           \/ /\ pc[m] = "remove"
              /\ pc' = [pc EXCEPT ![m] = IF s >= 0 THEN "clear" ELSE "close"]
           \/ /\ pc[m] = "lookup"
              /\ pc' = [pc EXCEPT ![m] = IF s >= 0 THEN "copy" ELSE "got"]
    BY <1>3 DEF Find, Remove, Lookup, Goto
  <2>2. \/ s = -1 /\ ~(s >= 0) /\ NoEntry(fd[m])
        \/ s \in Slots /\ s >= 0 /\ Entry(s, fd[m])
    BY FindFinds
  <2> HIDE DEF s
  <2>3. TypeOK'
    BY <1>t, <2>1, <2>2 DEF TypeOK, Locations
  <2>4. /\ index'[m] = s
        /\ s >= 0 => pc'[m] \in {"update", "clear", "copy"}
        /\ ~(s >= 0) => pc'[m] \in {"scan", "close", "got"}
        /\ pc'[m] = "got" => pc[m] = "lookup"
        /\ fd[m] \in Fds /\ user[fd[m]] = m /\ pc[m] \notin {"stored", "close"}
    BY <1>t, <2>1 DEF TypeOK, WorkOK
  <2>5. pc'[m] = "got" => config[m] = saved[fd[m]]
    <3> SUFFICES ASSUME pc'[m] = "got"
                 PROVE  config[m] = saved[fd[m]]
      OBVIOUS
    <3>1. config[m] = Default
      BY <1>t, <2>4 DEF WorkOK
    <3>2. NoEntry(fd[m])
      BY <2>2, <2>4
    <3>3. saved[fd[m]] = Default
      BY <1>t, <2>4, <3>2 DEF SavedOK
    <3> QED
      BY <3>1, <3>3
  <2>6. WorkOK(m)'
    <3>1. NoEntry(fd[m])' <=> NoEntry(fd[m])
      BY <2>1 DEF NoEntry, Entry
    <3>2. Entry(s, fd[m]) => (table[s].in_use /\ table[s].fd = fd[m])
      BY DEF Entry
    <3> QED
      BY <2>1, <2>2, <2>4, <2>5, <3>1, <3>2 DEF WorkOK, Entry
  <2> QED
    BY <2>1, <2>3, <2>4, <2>6, KeepsTable
<1>4. ASSUME Scan(m)
      PROVE  Inv(m)'
  <2>1. /\ UNCHANGED <<table, user, saved, fd, config, task>>
        /\ index' = [index EXCEPT ![m] = FreeSlot]
        /\ pc[m] = "scan"
        /\ pc' = [pc EXCEPT ![m] = IF FreeSlot >= 0 THEN "write_fd" ELSE "set_failed"]
    BY <1>4 DEF Scan, Goto
  <2>2. \/ FreeSlot = -1 /\ ~(FreeSlot >= 0)
        \/ FreeSlot \in Slots /\ FreeSlot >= 0 /\ ~table[FreeSlot].in_use
    BY FreeIsFree
  <2>3. TypeOK'
    BY <1>t, <2>1, <2>2 DEF TypeOK, Locations
  <2>4. /\ index'[m] = FreeSlot
        /\ pc'[m] = IF FreeSlot >= 0 THEN "write_fd" ELSE "set_failed"
        /\ fd[m] \in Fds /\ user[fd[m]] = m /\ NoEntry(fd[m])
    BY <1>t, <2>1 DEF TypeOK, WorkOK
  <2>5. WorkOK(m)'
    <3>1. NoEntry(fd[m])'
      BY <2>1, <2>4 DEF NoEntry, Entry
    <3> QED
      BY <2>1, <2>2, <2>4, <3>1 DEF WorkOK
  <2> QED
    BY <2>1, <2>3, <2>5, KeepsTable
\* The writes to an entry that is in use.
<1>5. ASSUME Update(m)
      PROVE  Inv(m)'
  <2> DEFINE s == index[m]
  <2>1. /\ UNCHANGED <<user, saved, fd, config, task, index>>
        /\ table' = [table EXCEPT ![s].config = config[m]]
        /\ pc[m] = "update" /\ pc' = [pc EXCEPT ![m] = "stored"]
    BY <1>5 DEF Update, Goto
  <2>2. s \in Slots /\ Entry(s, fd[m]) /\ fd[m] \in Fds /\ user[fd[m]] = m
    BY <1>t, <2>1 DEF WorkOK
  <2> HIDE DEF s
  <2>3. TypeOK'
    <3>1. pc' \in [Threads -> Locations]
      BY <1>t, <2>1 DEF TypeOK, Locations
    <3>2. table' \in [Slots -> Entries]
      <4>1. table[s] \in Entries /\ config[m] \in AllConfigs /\ table \in [Slots -> Entries]
        BY <1>t, <2>2 DEF TypeOK, Entries
      <4>2. [table[s] EXCEPT !.config = config[m]] \in Entries
        BY <4>1 DEF Entries
      <4>3. table' = [table EXCEPT ![s] = [table[s] EXCEPT !.config = config[m]]]
        BY <2>1
      <4> QED
        BY <2>2, <4>1, <4>2, <4>3
    <3> QED
      BY <1>t, <2>1, <3>1, <3>2 DEF TypeOK, Entries
  <2>4. /\ pc'[m] = "stored" /\ table'[s].config = config[m]
        /\ \A r \in Slots : /\ table'[r].in_use = table[r].in_use
                            /\ table'[r].fd = table[r].fd
                            /\ r # s => table'[r].config = table[r].config
    BY <1>t, <2>1, <2>2 DEF TypeOK
  <2>5. EntriesAreOpen'
    BY <1>t, <2>1, <2>4 DEF EntriesAreOpen
  <2>6. WorkOK(m)'
    BY <2>1, <2>2, <2>4 DEF WorkOK, Entry, s
  <2>7. SavedOK(m)'
    BY <1>t, <2>1, <2>2, <2>4 DEF SavedOK, Entry, NoEntry
  <2> QED
    BY <2>3, <2>5, <2>6, <2>7 DEF Inv
\* The writes to a new entry, which nobody sees before in_use is set.
<1>6. ASSUME WriteFd(m) \/ WriteConfig(m)
      PROVE  Inv(m)'
  <2> DEFINE s == index[m]
  <2>1. /\ UNCHANGED <<user, saved, fd, config, task, index>>
        /\ \/ /\ pc[m] = "write_fd" /\ pc' = [pc EXCEPT ![m] = "write_config"]
              /\ table' = [table EXCEPT ![s].fd = fd[m]]
           \/ /\ pc[m] = "write_config" /\ pc' = [pc EXCEPT ![m] = "write_in_use"]
              /\ table' = [table EXCEPT ![s].config = config[m]]
    BY <1>6 DEF WriteFd, WriteConfig, Goto
  <2>2. /\ s \in Slots /\ ~table[s].in_use /\ NoEntry(fd[m])
        /\ fd[m] \in Fds /\ user[fd[m]] = m
        /\ pc[m] = "write_config" => table[s].fd = fd[m]
    BY <1>t, <2>1 DEF WorkOK
  <2> HIDE DEF s
  <2>3. TypeOK'
    <3>1. pc' \in [Threads -> Locations]
      BY <1>t, <2>1 DEF TypeOK, Locations
    <3>2. table' \in [Slots -> Entries]
      <4>1. table[s] \in Entries /\ config[m] \in AllConfigs /\ table \in [Slots -> Entries]
        BY <1>t, <2>2 DEF TypeOK, Entries
      <4>2. /\ [table[s] EXCEPT !.fd = fd[m]] \in Entries
            /\ [table[s] EXCEPT !.config = config[m]] \in Entries
        BY <2>2, <4>1 DEF Entries
      <4>3. \/ table' = [table EXCEPT ![s] = [table[s] EXCEPT !.fd = fd[m]]]
            \/ table' = [table EXCEPT ![s] = [table[s] EXCEPT !.config = config[m]]]
        BY <2>1
      <4> QED
        BY <2>2, <4>1, <4>2, <4>3
    <3> QED
      BY <1>t, <2>1, <3>1, <3>2 DEF TypeOK, Entries
  <2>4. /\ pc'[m] \in {"write_config", "write_in_use"}
        /\ pc'[m] = "write_config" => pc[m] = "write_fd"
        /\ pc'[m] = "write_in_use" => pc[m] = "write_config"
        /\ pc[m] = "write_fd" => table'[s].fd = fd[m]
        /\ pc[m] = "write_config" => table'[s].fd = table[s].fd /\ table'[s].config = config[m]
        /\ table'[s].in_use = table[s].in_use
        /\ \A r \in Slots \ {s} : table'[r] = table[r]
    BY <1>t, <2>1, <2>2 DEF TypeOK
  <2>5. \A r \in Slots, f \in Fds : Entry(r, f)' <=> Entry(r, f)
    BY <2>2, <2>4 DEF Entry
  <2>6. EntriesAreOpen'
    BY <1>t, <2>1, <2>2, <2>4 DEF EntriesAreOpen
  <2>7. WorkOK(m)'
    <3>1. NoEntry(fd[m])'
      BY <2>1, <2>2, <2>5 DEF NoEntry
    <3> QED
      BY <2>1, <2>2, <2>4, <3>1 DEF WorkOK, s
  <2>8. SavedOK(m)'
    <3>1. \A f \in Fds : NoEntry(f)' <=> NoEntry(f)
      BY <2>5 DEF NoEntry
    <3>2. \A f \in Fds, r \in Slots : Entry(r, f) => table'[r].config = table[r].config
      BY <2>2, <2>4 DEF Entry
    <3>3. pc[m] \notin {"stored", "close"}
      BY <2>1
    <3> QED
      BY <1>t, <2>1, <2>5, <3>1, <3>2, <3>3 DEF SavedOK
  <2> QED
    BY <2>3, <2>6, <2>7, <2>8 DEF Inv
<1>7. ASSUME WriteInUse(m)
      PROVE  Inv(m)'
  <2> DEFINE s == index[m]
  <2>1. /\ UNCHANGED <<user, saved, fd, config, task, index>>
        /\ table' = [table EXCEPT ![s].in_use = TRUE]
        /\ pc[m] = "write_in_use" /\ pc' = [pc EXCEPT ![m] = "stored"]
    BY <1>7 DEF WriteInUse, Goto
  <2>2. /\ s \in Slots /\ ~table[s].in_use /\ NoEntry(fd[m])
        /\ fd[m] \in Fds /\ user[fd[m]] = m
        /\ table[s].fd = fd[m] /\ table[s].config = config[m]
    BY <1>t, <2>1 DEF WorkOK
  <2> HIDE DEF s
  <2>3. TypeOK'
    <3>1. pc' \in [Threads -> Locations]
      BY <1>t, <2>1 DEF TypeOK, Locations
    <3>2. table' \in [Slots -> Entries]
      <4>1. table[s] \in Entries /\ config[m] \in AllConfigs /\ table \in [Slots -> Entries]
        BY <1>t, <2>2 DEF TypeOK, Entries
      <4>2. [table[s] EXCEPT !.in_use = TRUE] \in Entries
        BY <4>1 DEF Entries
      <4>3. table' = [table EXCEPT ![s] = [table[s] EXCEPT !.in_use = TRUE]]
        BY <2>1
      <4> QED
        BY <2>2, <4>1, <4>2, <4>3
    <3> QED
      BY <1>t, <2>1, <3>1, <3>2 DEF TypeOK, Entries
  <2>4. /\ pc'[m] = "stored"
        /\ table'[s].in_use = TRUE
        /\ table'[s].fd = fd[m] /\ table'[s].config = config[m]
        /\ \A r \in Slots \ {s} : table'[r] = table[r]
    BY <1>t, <2>1, <2>2 DEF TypeOK
  <2>5. EntriesAreOpen'
    <3>1. \A r \in Slots \ {s} : table[r].in_use => table[r].fd # fd[m]
      BY <2>2 DEF NoEntry, Entry
    <3>2. NoThread # m
      OBVIOUS
    <3> QED
      BY <1>t, <2>1, <2>2, <2>4, <3>1, <3>2 DEF EntriesAreOpen
  <2>6. WorkOK(m)'
    BY <2>1, <2>2, <2>4 DEF WorkOK, Entry, s
  <2>7. SavedOK(m)'
    <3>1. \A f \in Fds \ {fd[m]}, r \in Slots :
            /\ Entry(r, f)' <=> Entry(r, f)
            /\ Entry(r, f) => table'[r].config = table[r].config
      BY <2>2, <2>4 DEF Entry
    <3> QED
      BY <1>t, <2>1, <2>4, <3>1 DEF SavedOK, NoEntry
  <2> QED
    BY <2>3, <2>5, <2>6, <2>7 DEF Inv
<1>8. ASSUME SetOptions(m)
      PROVE  Inv(m)'
  <2>1. /\ UNCHANGED <<table, user, fd, index>>
        /\ saved' = [saved EXCEPT ![fd[m]] = config[m]]
        /\ pc[m] = "stored"
    BY <1>8 DEF SetOptions
  <2>2. pc'[m] \in {"idle", "find", "set_failed"} /\ TypeOK'
    <3>1. \E l \in {"idle", "find", "set_failed"} : pc' = [pc EXCEPT ![m] = l]
      BY <1>8 DEF SetOptions, Leave, GoOnWith
    <3>2. \/ UNCHANGED task
          \/ \E k \in {"none", "custom"} : task' = [task EXCEPT ![m] = k]
      BY <1>8 DEF SetOptions, Leave, GoOnWith
    <3>3. \/ UNCHANGED config
          \/ \E c \in Configs : config' = [config EXCEPT ![m] = c]
      BY <1>8 DEF SetOptions, GoOnWith
    <3>4. pc' \in [Threads -> Locations] /\ pc'[m] \in {"idle", "find", "set_failed"}
      BY <1>t, <3>1 DEF TypeOK, Locations
    <3>5. task' \in [Threads -> Tasks]
      BY <1>t, <3>2 DEF TypeOK, Tasks
    <3>6. config' \in [Threads -> AllConfigs]
      BY <1>t, <3>3 DEF TypeOK, AllConfigs
    <3>7. saved' \in [Fds -> AllConfigs]
      BY <1>t, <2>1 DEF TypeOK
    <3> QED
      BY <1>t, <2>1, <3>4, <3>5, <3>6, <3>7 DEF TypeOK
  <2>3. /\ index[m] \in Slots /\ Entry(index[m], fd[m]) /\ table[index[m]].config = config[m]
        /\ fd[m] \in Fds /\ user[fd[m]] = m
    BY <1>t, <2>1 DEF WorkOK
  <2>4. EntriesAreOpen' /\ WorkOK(m)'
    BY <1>t, <2>1, <2>2, <2>3 DEF EntriesAreOpen, WorkOK
  <2>5. SavedOK(m)'
    <3>1. saved'[fd[m]] = config[m] /\ \A f \in Fds \ {fd[m]} : saved'[f] = saved[f]
      BY <1>t, <2>1, <2>3 DEF TypeOK
    <3>2. \A r \in Slots : Entry(r, fd[m]) => r = index[m]
      BY <1>t, <2>3 DEF EntriesAreOpen, Entry
    <3>3. ~NoEntry(fd[m])
      BY <2>3 DEF NoEntry
    <3> QED
      BY <1>t, <2>1, <2>3, <3>1, <3>2, <3>3 DEF SavedOK, Entry, NoEntry
  <2> QED
    BY <2>2, <2>4, <2>5 DEF Inv
<1>9. ASSUME SetFailed(m) \/ ReturnConfig(m)
      PROVE  Inv(m)'
  <2>1. /\ UNCHANGED <<table, user, fd, index, saved>>
        /\ pc[m] \in {"set_failed", "got"}
    BY <1>9 DEF SetFailed, ReturnConfig
  <2>2. pc'[m] \in {"idle", "find", "remove"} /\ TypeOK'
    <3>1. \E l \in {"idle", "find", "remove"} : pc' = [pc EXCEPT ![m] = l]
      BY <1>9 DEF SetFailed, ReturnConfig, Leave, GoOnWith
    <3>2. \E k \in {"none", "custom", "close"} : task' = [task EXCEPT ![m] = k]
      BY <1>9 DEF SetFailed, ReturnConfig, Leave, GoOnWith
    <3>3. \/ UNCHANGED config
          \/ \E c \in Configs : config' = [config EXCEPT ![m] = c]
      BY <1>9 DEF SetFailed, ReturnConfig, GoOnWith
    <3>4. pc' \in [Threads -> Locations] /\ pc'[m] \in {"idle", "find", "remove"}
      BY <1>t, <3>1 DEF TypeOK, Locations
    <3>5. task' \in [Threads -> Tasks]
      BY <1>t, <3>2 DEF TypeOK, Tasks
    <3>6. config' \in [Threads -> AllConfigs]
      BY <1>t, <3>3 DEF TypeOK, AllConfigs
    <3> QED
      BY <1>t, <2>1, <3>4, <3>5, <3>6 DEF TypeOK
  <2>3. WorkOK(m)'
    BY <1>t, <2>1, <2>2 DEF WorkOK
  <2> QED
    BY <2>1, <2>2, <2>3, KeepsTable
<1>10. ASSUME Clear(m)
      PROVE  Inv(m)'
  <2> DEFINE s == index[m]
  <2>1. /\ UNCHANGED <<user, saved, fd, config, task, index>>
        /\ table' = [table EXCEPT ![s].in_use = FALSE]
        /\ pc[m] = "clear" /\ pc' = [pc EXCEPT ![m] = "close"]
    BY <1>10 DEF Clear, Goto
  <2>2. s \in Slots /\ Entry(s, fd[m]) /\ fd[m] \in Fds /\ user[fd[m]] = m
    BY <1>t, <2>1 DEF WorkOK
  <2> HIDE DEF s
  <2>3. TypeOK'
    <3>1. pc' \in [Threads -> Locations]
      BY <1>t, <2>1 DEF TypeOK, Locations
    <3>2. table' \in [Slots -> Entries]
      <4>1. table[s] \in Entries /\ config[m] \in AllConfigs /\ table \in [Slots -> Entries]
        BY <1>t, <2>2 DEF TypeOK, Entries
      <4>2. [table[s] EXCEPT !.in_use = FALSE] \in Entries
        BY <4>1 DEF Entries
      <4>3. table' = [table EXCEPT ![s] = [table[s] EXCEPT !.in_use = FALSE]]
        BY <2>1
      <4> QED
        BY <2>2, <4>1, <4>2, <4>3
    <3> QED
      BY <1>t, <2>1, <3>1, <3>2 DEF TypeOK, Entries
  <2>4. /\ pc'[m] = "close" /\ table'[s].in_use = FALSE
        /\ \A r \in Slots \ {s} : table'[r] = table[r]
    BY <1>t, <2>1, <2>2 DEF TypeOK
  <2>5. EntriesAreOpen'
    BY <1>t, <2>1, <2>4 DEF EntriesAreOpen
  <2>6. \A r \in Slots : ~Entry(r, fd[m])'
    <3>1. \A r \in Slots \ {s} : ~Entry(r, fd[m])
      BY <1>t, <2>2 DEF EntriesAreOpen, Entry
    <3> QED
      BY <2>1, <2>4, <3>1 DEF Entry
  <2>7. WorkOK(m)'
    BY <2>1, <2>2, <2>4, <2>6 DEF WorkOK, NoEntry
  <2>8. SavedOK(m)'
    <3>1. \A f \in Fds \ {fd[m]}, r \in Slots :
            /\ Entry(r, f)' <=> Entry(r, f)
            /\ Entry(r, f) => table'[r].config = table[r].config
      BY <2>2, <2>4 DEF Entry
    <3> QED
      BY <1>t, <2>1, <2>4, <3>1 DEF SavedOK, NoEntry
  <2> QED
    BY <2>3, <2>5, <2>7, <2>8 DEF Inv
<1>11. ASSUME CloseSocket(m)
      PROVE  Inv(m)'
  <2>1. /\ UNCHANGED <<table, fd, config, index>>
        /\ user' = [user EXCEPT ![fd[m]] = NoThread]
        /\ saved' = [saved EXCEPT ![fd[m]] = Default]
        /\ pc[m] = "close" /\ pc'[m] = "idle"
    BY <1>t, <1>11 DEF CloseSocket, Leave, TypeOK
  <2>2. TypeOK'
    <3>1. pc' = [pc EXCEPT ![m] = "idle"] /\ task' = [task EXCEPT ![m] = "none"]
      BY <1>11 DEF CloseSocket, Leave
    <3>2. pc' \in [Threads -> Locations] /\ task' \in [Threads -> Tasks]
      BY <1>t, <3>1 DEF TypeOK, Locations, Tasks
    <3>3. user' \in [Fds -> Threads \cup {NoThread}] /\ saved' \in [Fds -> AllConfigs]
      BY <1>t, <2>1 DEF TypeOK, AllConfigs
    <3> QED
      BY <1>t, <2>1, <3>2, <3>3 DEF TypeOK
  <2>3. NoEntry(fd[m]) /\ fd[m] \in Fds
    BY <1>t, <2>1 DEF WorkOK
  <2>4. EntriesAreOpen'
    BY <1>t, <2>1, <2>3 DEF EntriesAreOpen, NoEntry, Entry, TypeOK
  <2>5. WorkOK(m)'
    BY <2>1 DEF WorkOK
  <2>6. SavedOK(m)'
    BY <1>t, <2>1, <2>3 DEF SavedOK, Entry, NoEntry, TypeOK
  <2> QED
    BY <2>2, <2>4, <2>5, <2>6 DEF Inv
<1>12. ASSUME Copy(m)
      PROVE  Inv(m)'
  <2>1. /\ UNCHANGED <<table, user, task, fd, index, saved>>
        /\ config' = [config EXCEPT ![m] = table[index[m]].config]
        /\ pc[m] = "copy" /\ pc' = [pc EXCEPT ![m] = "got"]
    BY <1>12 DEF Copy, Goto
  <2>2. index[m] \in Slots /\ Entry(index[m], fd[m]) /\ fd[m] \in Fds /\ user[fd[m]] = m
    BY <1>t, <2>1 DEF WorkOK
  <2>3. TypeOK'
    BY <1>t, <2>1, <2>2 DEF TypeOK, Locations
  <2>4. config'[m] = saved[fd[m]] /\ pc'[m] = "got"
    BY <1>t, <2>1, <2>2 DEF SavedOK, TypeOK
  <2>5. WorkOK(m)'
    BY <2>1, <2>2, <2>4 DEF WorkOK
  <2> QED
    BY <2>1, <2>3, <2>5, KeepsTable
<1>13. CASE UNCHANGED vars
  BY <1>t, <1>13 DEF vars, Inv, TypeOK, EntriesAreOpen, WorkOK, SavedOK, Entry, NoEntry
<1> QED
  BY <1>1, <1>2, <1>3, <1>4, <1>5, <1>6, <1>7, <1>8, <1>9, <1>10, <1>11, <1>12, <1>13
     DEF Next

\* Hence it holds in every behaviour.
LEMMA Invariance == ASSUME NEW m, Threads = {m} PROVE Spec => []Inv(m)
<1>1. Init => Inv(m)
  BY InitInv
<1>2. Inv(m) /\ [Next]_vars => Inv(m)'
  BY NextInv
<1> QED
  BY <1>1, <1>2, PTL DEF Spec

\* The state of the table and of its one caller keeps its types.
THEOREM TypeCorrect == ASSUME NEW m, Threads = {m} PROVE Spec => []TypeOK
<1>1. Spec => []Inv(m)
  BY Invariance
<1>2. Inv(m) => TypeOK
  BY DEF Inv
<1> QED
  BY <1>1, <1>2, PTL

\* One thread that opens, configures and closes connections always gets the
\* configuration it has last set for the connection it asks about, also when
\* the table has been full or descriptors come again.
THEOREM OwnConfiguration == ASSUME NEW m, Threads = {m} PROVE Spec => []GetsWhatItSet
<1>1. Spec => []Inv(m)
  BY Invariance
<1>2. Inv(m) => GetsWhatItSet
  BY DEF Inv, WorkOK, GetsWhatItSet
<1> QED
  BY <1>1, <1>2, PTL

\* And the table holds no entry of a closed connection and no two of an open one.
THEOREM OpenEntries == ASSUME NEW m, Threads = {m} PROVE Spec => []EntriesAreOpen
<1>1. Spec => []Inv(m)
  BY Invariance
<1>2. Inv(m) => EntriesAreOpen
  BY DEF Inv
<1> QED
  BY <1>1, <1>2, PTL
=============================================================================
