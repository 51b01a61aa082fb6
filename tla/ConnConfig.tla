------------------------------ MODULE ConnConfig ------------------------------
(***************************************************************************)
(* The table of connection configurations of socket.c: connection_configs, *)
(* mc_set_comm_config, mc_get_comm_config and the opening and closing of   *)
(* connections that fill and clear it.  No lock protects the table: the    *)
(* search for a slot, the writes of its three fields and the copy out of   *)
(* it are steps of their own.  Each thread works on the connections it has *)
(* opened.                                                                 *)
(***************************************************************************)
EXTENDS Integers

CONSTANTS Threads,
          Fds,             \* descriptors the kernel gives out
          MaxConnections,  \* MAX_CONNECTIONS, 32 in the code
          Configs,         \* configurations a caller asks for
          Default,         \* default_comm_config
          NoFd, NoThread

ASSUME ConfigAssumption ==
  /\ MaxConnections \in Nat \ {0}
  /\ Default \notin Configs
  /\ NoFd \notin Fds
  /\ NoThread \notin Threads

VARIABLES
  table,  \* connection_configs
  user,   \* user[f]: the thread that has opened f, NoThread: f is not open
  pc,
  task,   \* task[t]: the API call t is in
  fd,     \* fd[t]: and its connection
  config, \* config[t]: the configuration it sets, or has got
  index,  \* index[t]: the local index, -1 for none
  saved   \* history: saved[f]: the configuration last stored for f

vars == <<table, user, pc, task, fd, config, index, saved>>

Slots == 0 .. MaxConnections - 1
AllConfigs == Configs \cup {Default}
Locations == { "idle", "find", "update", "scan", "write_fd", "write_config",
               "write_in_use", "stored", "set_failed", "remove", "clear", "close",
               "lookup", "copy", "got" }
Tasks == { "none",
           "open",   \* mc_open_tcp_client_socket_with_config2, Default
           "custom", \* the second half of mc_open_tcp_client_socket_with_config
           "set", "get", "close" }

TypeOK ==
  /\ table \in [Slots -> [fd : Fds \cup {NoFd}, config : AllConfigs, in_use : BOOLEAN]]
  /\ user \in [Fds -> Threads \cup {NoThread}]
  /\ pc \in [Threads -> Locations]
  /\ task \in [Threads -> Tasks]
  /\ fd \in [Threads -> Fds \cup {NoFd}]
  /\ config \in [Threads -> AllConfigs]
  /\ index \in [Threads -> Slots \cup {-1}]
  /\ saved \in [Fds -> AllConfigs]

Init ==
  /\ table = [s \in Slots |-> [fd |-> NoFd, config |-> Default, in_use |-> FALSE]]
  /\ user = [f \in Fds |-> NoThread]
  /\ pc = [t \in Threads |-> "idle"]
  /\ task = [t \in Threads |-> "none"]
  /\ fd = [t \in Threads |-> NoFd]
  /\ config = [t \in Threads |-> Default]
  /\ index = [t \in Threads |-> -1]
  /\ saved = [f \in Fds |-> Default]

-----------------------------------------------------------------------------
Goto(t, from, to) == pc[t] = from /\ pc' = [pc EXCEPT ![t] = to]

LowestIn(set) ==
  IF set = {} THEN -1 ELSE CHOOSE s \in set : \A r \in set : s <= r

\* find_connection_config
FindConfig(f) == LowestIn({s \in Slots : table[s].in_use /\ table[s].fd = f})

FreeSlot == LowestIn({s \in Slots : ~table[s].in_use})

\* t enters API call k on f at location l, with configuration c.
Enter(t, k, f, l, c) ==
  /\ Goto(t, "idle", l)
  /\ task' = [task EXCEPT ![t] = k]
  /\ fd' = [fd EXCEPT ![t] = f]
  /\ config' = [config EXCEPT ![t] = c]
  /\ UNCHANGED <<table, index>>

\* The kernel gives out a descriptor; if connect() fails on it, it is closed again
\* with the entry it does not have.
OpenSocket(t, f) ==
  /\ user[f] = NoThread
  /\ user' = [user EXCEPT ![f] = t]
  /\ saved' = [saved EXCEPT ![f] = Default]
  /\ \/ Enter(t, "open", f, "find", Default)
     \/ Enter(t, "close", f, "remove", Default)

SetConfig(t, f, c) ==
  /\ user[f] = t
  /\ Enter(t, "set", f, "find", c)
  /\ UNCHANGED <<user, saved>>

GetConfig(t, f) ==
  /\ user[f] = t
  /\ Enter(t, "get", f, "lookup", Default)
  /\ UNCHANGED <<user, saved>>

Close(t, f) ==
  /\ user[f] = t
  /\ Enter(t, "close", f, "remove", Default)
  /\ UNCHANGED <<user, saved>>

-----------------------------------------------------------------------------
(* add_connection_config, from mc_set_comm_config *)

Find(t) ==
  /\ Goto(t, "find", IF FindConfig(fd[t]) >= 0 THEN "update" ELSE "scan")
  /\ index' = [index EXCEPT ![t] = FindConfig(fd[t])]
  /\ UNCHANGED <<table, user, task, fd, config, saved>>

Update(t) ==
  /\ Goto(t, "update", "stored")
  /\ table' = [table EXCEPT ![index[t]].config = config[t]]
  /\ UNCHANGED <<user, task, fd, config, index, saved>>

\* Mutated form: a full table is not noticed.
ScanFull(t) ==
  /\ Goto(t, "scan", "write_fd")
  /\ index' = [index EXCEPT ![t] = IF FreeSlot >= 0 THEN FreeSlot ELSE MaxConnections - 1]
  /\ UNCHANGED <<table, user, task, fd, config, saved>>

\* Mutated form: i <= MAX_CONNECTIONS, and the byte past the table is 0.
ScanPastEnd(t) ==
  /\ Goto(t, "scan", "write_fd")
  /\ index' = [index EXCEPT ![t] = IF FreeSlot >= 0 THEN FreeSlot ELSE MaxConnections]
  /\ UNCHANGED <<table, user, task, fd, config, saved>>

Scan(t) ==
  /\ Goto(t, "scan", IF FreeSlot >= 0 THEN "write_fd" ELSE "set_failed")
  /\ index' = [index EXCEPT ![t] = FreeSlot]
  /\ UNCHANGED <<table, user, task, fd, config, saved>>

WriteFd(t) ==
  /\ Goto(t, "write_fd", "write_config")
  /\ table' = [table EXCEPT ![index[t]].fd = fd[t]]
  /\ UNCHANGED <<user, task, fd, config, index, saved>>

WriteConfig(t) ==
  /\ Goto(t, "write_config", "write_in_use")
  /\ table' = [table EXCEPT ![index[t]].config = config[t]]
  /\ UNCHANGED <<user, task, fd, config, index, saved>>

WriteInUse(t) ==
  /\ Goto(t, "write_in_use", "stored")
  /\ table' = [table EXCEPT ![index[t]].in_use = TRUE]
  /\ UNCHANGED <<user, task, fd, config, index, saved>>

-----------------------------------------------------------------------------
(* What the callers do with the result. *)

Leave(t) == pc' = [pc EXCEPT ![t] = "idle"] /\ task' = [task EXCEPT ![t] = "none"]

\* mc_open_tcp_client_socket_with_config sets the caller's configuration next.
GoOnWith(t, c) ==
  /\ task[t] = "open"
  /\ task' = [task EXCEPT ![t] = "custom"]
  /\ config' = [config EXCEPT ![t] = c]
  /\ pc' = [pc EXCEPT ![t] = "find"]

\* The entry is stored; then the socket options are set, or setsockopt refuses
\* the timeouts and the call fails with the entry in place.
SetOptions(t) ==
  /\ pc[t] = "stored"
  /\ saved' = [saved EXCEPT ![fd[t]] = config[t]]
  /\ \/ Leave(t) /\ UNCHANGED config
     \/ \E c \in Configs : GoOnWith(t, c)
     \/ pc' = [pc EXCEPT ![t] = "set_failed"] /\ UNCHANGED <<task, config>>
  /\ UNCHANGED <<table, user, fd, index>>

\* mc_set_comm_config fails: open ignores it, custom closes the socket.
SetFailed(t) ==
  /\ pc[t] = "set_failed"
  /\ \/ task[t] # "custom" /\ Leave(t) /\ UNCHANGED config
     \/ \E c \in Configs : GoOnWith(t, c)
     \/ /\ task[t] = "custom"
        /\ pc' = [pc EXCEPT ![t] = "remove"]
        /\ task' = [task EXCEPT ![t] = "close"]
        /\ UNCHANGED config
  /\ UNCHANGED <<table, user, fd, index, saved>>

-----------------------------------------------------------------------------
(* mc_close_tcp_socket: mc_remove_connection_config, then close. *)

Remove(t) ==
  /\ Goto(t, "remove", IF FindConfig(fd[t]) >= 0 THEN "clear" ELSE "close")
  /\ index' = [index EXCEPT ![t] = FindConfig(fd[t])]
  /\ UNCHANGED <<table, user, task, fd, config, saved>>

\* Mutated form: the descriptor is closed and its entry kept.
ClearForgotten(t) ==
  /\ Goto(t, "clear", "close")
  /\ UNCHANGED <<table, user, task, fd, config, index, saved>>

Clear(t) ==
  /\ Goto(t, "clear", "close")
  /\ table' = [table EXCEPT ![index[t]].in_use = FALSE]
  /\ UNCHANGED <<user, task, fd, config, index, saved>>

CloseSocket(t) ==
  /\ pc[t] = "close"
  /\ user' = [user EXCEPT ![fd[t]] = NoThread]
  /\ saved' = [saved EXCEPT ![fd[t]] = Default]
  /\ Leave(t)
  /\ UNCHANGED <<table, fd, config, index>>

-----------------------------------------------------------------------------
(* mc_get_comm_config *)

Lookup(t) ==
  /\ index' = [index EXCEPT ![t] = FindConfig(fd[t])]
  /\ Goto(t, "lookup", IF FindConfig(fd[t]) >= 0 THEN "copy" ELSE "got")
  /\ UNCHANGED <<table, user, task, fd, config, saved>>

Copy(t) ==
  /\ Goto(t, "copy", "got")
  /\ config' = [config EXCEPT ![t] = table[index[t]].config]
  /\ UNCHANGED <<table, user, task, fd, index, saved>>

ReturnConfig(t) ==
  /\ pc[t] = "got"
  /\ Leave(t)
  /\ UNCHANGED <<table, user, fd, config, index, saved>>

Next ==
  \E t \in Threads :
    \/ \E f \in Fds : \/ OpenSocket(t, f) \/ GetConfig(t, f) \/ Close(t, f)
                      \/ \E c \in Configs : SetConfig(t, f, c)
    \/ Find(t) \/ Update(t) \/ Scan(t)
    \/ WriteFd(t) \/ WriteConfig(t) \/ WriteInUse(t)
    \/ SetOptions(t) \/ SetFailed(t)
    \/ Remove(t) \/ Clear(t) \/ CloseSocket(t)
    \/ Lookup(t) \/ Copy(t) \/ ReturnConfig(t)

Spec == Init /\ [][Next]_vars

-----------------------------------------------------------------------------
(* Properties. *)

\* socket.c:31 "Store configuration information for each connection": a thread
\* that asks for the configuration of its connection gets the one that was last
\* stored for it, or the default if none was; never that of another connection,
\* nor of an earlier connection on the same descriptor.
GetsWhatItSet == \A t \in Threads : pc[t] = "got" => config[t] = saved[fd[t]]

\* The entries in use are those of open connections, one each: a descriptor the
\* kernel gives out again finds no entry, and entries are never lost to closed
\* connections, so that the table fills up with open ones only.
EntriesAreOpen ==
  \A r, s \in Slots :
    table[r].in_use =>
      /\ user[table[r].fd] # NoThread
      /\ r # s /\ table[s].in_use => table[r].fd # table[s].fd
=============================================================================
