---------------------------- MODULE SessionProofs ----------------------------
(***************************************************************************)
(* Theorems about Session, for any number of connections and Gateways and  *)
(* any number of failures: who has the lease, who may execute, what is     *)
(* left behind, and that a device has one session in a process.            *)
(***************************************************************************)
EXTENDS Session, FiniteSetTheorems, TLAPS

\* Leaves that are not marked SMTT are for Zenon.
USE ZenonT(90)

Stages == {"idle", "token", "profile", "device", "bind", "bound", "previous", "refresh",
           "refreshed", "closing", "clear", "gone"}
Commands == {"none", "refresh", "refreshed", "waiting"}
Remotes == {"none", "sent", "accepted", "denied", "executed"}
Leases == [conn : Conns \cup {NoConn}, gen : Nat]
Replies == [granted : Nat, previous : Leases, current : BOOLEAN]

LoginTypes ==
    /\ lease \in Leases /\ generation \in Nat /\ answered \in Nat
    /\ stage \in [Conns -> Stages] /\ mine \in [Conns -> Nat] /\ reply \in [Conns -> Replies]
    /\ recent \subseteq Conns

CommandTypes ==
    /\ confirmed \in [Conns -> BOOLEAN] /\ command \in [Conns -> Commands]
    /\ remote \in [Conns -> Remotes] /\ origin \in [Conns -> Nat] /\ floor \in [Conns -> Nat]

Types == LoginTypes /\ CommandTypes

\* A lease that exists carries the current generation, and no answer was given
\* for a later one.
Current ==
    /\ lease = NoLease \/ (lease.conn \in Conns /\ lease.gen = generation /\ generation > 0)
    /\ answered <= generation

\* What a connection may rely on if it still has the current generation.
Leased(c) == lease = Lease(c, generation)

Bindings == {"profile", "device", "bind", "bound"}

\* How far the login of c is and what that says of its generation.
LoginSound(c) ==
    /\ mine[c] <= generation
    /\ stage[c] \in Bindings \cup {"gone"} => mine[c] = 0
    /\ stage[c] = "bound" => /\ reply[c].granted \in 1..generation
                             /\ reply[c].granted = generation => Leased(c)
    /\ c \in recent => mine[c] > 0 /\ (mine[c] = generation => Leased(c))
    /\ lease.conn = c /\ c \notin lost =>
          mine[c] = lease.gen \/ (stage[c] = "bound" /\ reply[c].granted = lease.gen)

\* The same of its command.
CommandSound(c) ==
    /\ command[c] # "none" => mine[c] > 0 /\ stage[c] \notin {"clear", "gone"}
    /\ command[c] \in {"refresh", "refreshed"} => remote[c] = "none"
    /\ confirmed[c] => command[c] = "refreshed" /\ (mine[c] = generation => Leased(c))
    /\ floor[c] <= answered
    /\ remote[c] \in {"accepted", "executed"} => origin[c] >= floor[c]

Inductive == Types /\ Current /\ \A c \in Conns : LoginSound(c) /\ CommandSound(c)

-----------------------------------------------------------------------------
\* The greater of two generations.
LEMMA MaxOfTwo ==
    ASSUME NEW x \in Nat, NEW y \in Nat
    PROVE  Max({x, y}) \in {x, y} /\ x <= Max({x, y}) /\ y <= Max({x, y})
<1>1. \E m \in {x, y} : \A n \in {x, y} : m >= n
  <2>1. CASE x <= y
    BY SMTT(30), <2>1
  <2>2. CASE y <= x
    BY SMTT(30), <2>2
  <2> QED BY SMTT(30), <2>1, <2>2
<1> QED BY <1>1 DEF Max

\* A connection that waits for nothing has no reply.
LEMMA NoReplyTyped == NoReply \in Replies
BY DEF NoReply, NoLease, Replies, Leases

\* The connections other than c are as they were.
Others(c) ==
    \A d \in Conns \ {c} :
        /\ stage'[d] = stage[d] /\ mine'[d] = mine[d] /\ reply'[d] = reply[d]
        /\ confirmed'[d] = confirmed[d] /\ command'[d] = command[d] /\ remote'[d] = remote[d]
        /\ origin'[d] = origin[d] /\ floor'[d] = floor[d]
        /\ (d \in recent' => d \in recent)

\* A step of c that leaves the lease alone and c itself sound.
LEMMA Moves ==
    ASSUME Inductive, NEW c \in Conns, UNCHANGED <<lease, generation>>, Types', Others(c),
           answered <= answered', answered' <= generation, lost \subseteq lost',
           LoginSound(c)', CommandSound(c)'
    PROVE  Inductive'
<1>1. Current'
  BY DEF Inductive, Current
<1>2. ASSUME NEW d \in Conns, d # c PROVE LoginSound(d)' /\ CommandSound(d)'
  <2>1. LoginSound(d) /\ CommandSound(d) /\ Leased(d)' = Leased(d)
    BY DEF Inductive, Leased
  <2>2. LoginSound(d)'
    BY <1>2, <2>1 DEF LoginSound, Others
  <2>3. CommandSound(d)'
    BY SMTT(30), <1>2, <2>1 DEF CommandSound, Others, Inductive, Types, LoginTypes, CommandTypes
  <2> QED BY <2>2, <2>3
<1> QED BY <1>1, <1>2 DEF Inductive
-----------------------------------------------------------------------------
\* The steps of one connection that leave the lease alone.

\* A login begins.
LEMMA LoginKeeps ==
    ASSUME Inductive, NEW c \in Conns, Login(c)
    PROVE  Inductive'
<1>1. Types /\ Current /\ LoginSound(c) /\ CommandSound(c)
  BY DEF Inductive
<1>2. LoginTypes'
  BY <1>1 DEF Login, Goto, redis, conn, forward, rest, history, Types, LoginTypes, Stages, Replies
<1>cmd. CommandTypes'
  BY <1>1 DEF Login, Goto, redis, conn, forward, rest, history, Types, LoginTypes, CommandTypes,
     Commands, Remotes
<1>3. UNCHANGED <<lease, generation>> /\ lost \subseteq lost' /\ Others(c)
  BY <1>1 DEF Login, Goto, redis, conn, forward, rest, history, Types, LoginTypes, CommandTypes,
     Others
<1>4. answered <= answered' /\ answered' <= generation
  BY SMTT(30), <1>1 DEF Login, Goto, redis, conn, forward, rest, history, Types, LoginTypes, CommandTypes,
     Current, LoginSound
<1>5. LoginSound(c)'
  BY <1>1, <1>3 DEF Login, Goto, redis, conn, forward, rest, history, Types, LoginTypes,
     CommandTypes, Current, LoginSound, CommandSound, Leased, Bindings, Replies
<1>6. CommandSound(c)'
  BY <1>1, <1>3 DEF Login, Goto, redis, conn, forward, rest, history, Types, LoginTypes,
     CommandTypes, Current, LoginSound, CommandSound, Leased, Bindings
<1> QED BY <1>2, <1>cmd, <1>3, <1>4, <1>5, <1>6, Moves DEF Types

\* A check of login() refuses or fails.
LEMMA CheckRefusedKeeps ==
    ASSUME Inductive, NEW c \in Conns, CheckRefused(c)
    PROVE  Inductive'
<1>1. Types /\ Current /\ LoginSound(c) /\ CommandSound(c)
  BY DEF Inductive
<1>2. LoginTypes'
  BY <1>1 DEF CheckRefused, Goto, Checks, redis, conn, forward, rest, history, Types, LoginTypes,
     Stages, Replies
<1>cmd. CommandTypes'
  BY <1>1 DEF CheckRefused, Goto, Checks, redis, conn, forward, rest, history, Types, LoginTypes,
     CommandTypes, Commands, Remotes
<1>3. UNCHANGED <<lease, generation>> /\ lost \subseteq lost' /\ Others(c)
  BY <1>1 DEF CheckRefused, Goto, Checks, redis, conn, forward, rest, history, Types, LoginTypes,
     CommandTypes, Others
<1>4. answered <= answered' /\ answered' <= generation
  BY SMTT(30), <1>1 DEF CheckRefused, Goto, Checks, redis, conn, forward, rest, history, Types, LoginTypes,
     CommandTypes, Current, LoginSound
<1>5. LoginSound(c)'
  BY <1>1, <1>3 DEF CheckRefused, Goto, Checks, redis, conn, forward, rest, history, Types,
     LoginTypes, CommandTypes, Current, LoginSound, CommandSound, Leased, Bindings, Replies
<1>6. CommandSound(c)'
  BY <1>1, <1>3 DEF CheckRefused, Goto, Checks, redis, conn, forward, rest, history, Types,
     LoginTypes, CommandTypes, Current, LoginSound, CommandSound, Leased, Bindings
<1> QED BY <1>2, <1>cmd, <1>3, <1>4, <1>5, <1>6, Moves DEF Types

\* A check of login() passes.
LEMMA CheckPassedKeeps ==
    ASSUME Inductive, NEW c \in Conns, CheckPassed(c)
    PROVE  Inductive'
<1>1. Types /\ Current /\ LoginSound(c) /\ CommandSound(c)
  BY DEF Inductive
<1>max. Max({answered, mine[c]}) \in {answered, mine[c]} /\ answered <= Max({answered, mine[c]})
  BY <1>1, MaxOfTwo DEF Types, LoginTypes
<1>2. LoginTypes'
  BY SMTT(30), <1>1, <1>max DEF CheckPassed, Goto, Checks, Answer, redis, forward, rest, Types, LoginTypes,
     Stages, Replies
<1>cmd. CommandTypes'
  BY <1>1 DEF CheckPassed, Goto, Checks, Answer, redis, forward, rest, Types, LoginTypes,
     CommandTypes, Commands, Remotes
<1>3. UNCHANGED <<lease, generation>> /\ lost \subseteq lost' /\ Others(c)
  BY <1>1 DEF CheckPassed, Goto, Checks, Answer, redis, forward, rest, Types, LoginTypes,
     CommandTypes, Others
<1>4. answered <= answered' /\ answered' <= generation
  BY SMTT(30), <1>1, <1>max DEF CheckPassed, Goto, Checks, Answer, redis, forward, rest, Types, LoginTypes,
     CommandTypes, Current, LoginSound
<1>5. LoginSound(c)'
  BY SMTT(30), <1>1, <1>3 DEF CheckPassed, Goto, Checks, Answer, redis, forward, rest, Types, LoginTypes,
     CommandTypes, Current, LoginSound, CommandSound, Leased, Bindings, Replies
<1>6. CommandSound(c)'
  BY SMTT(30), <1>1, <1>max, <1>3 DEF CheckPassed, Goto, Checks, Answer, redis, forward, rest, Types,
     LoginTypes, CommandTypes, Current, LoginSound, CommandSound, Leased, Bindings
<1> QED BY <1>2, <1>cmd, <1>3, <1>4, <1>5, <1>6, Moves DEF Types

\* login() keeps its generation: a connection that binds had none before.
LEMMA BindKeeps ==
    ASSUME Inductive, NEW c \in Conns, Bind(c)
    PROVE  Inductive'
<1>1. Types /\ Current /\ LoginSound(c) /\ CommandSound(c)
  BY DEF Inductive
<1>2. LoginTypes'
  <2>1. CASE ReplacedHere(c)
    BY <1>1, <2>1 DEF Bind, Goto, redis, history, Types, LoginTypes, Stages, Replies
  <2>2. CASE ~ReplacedHere(c)
    <3>1. NoReply \in Replies
      BY DEF NoReply, NoLease, Replies, Leases
    <3> QED BY SMTT(30), <1>1, <2>2, <3>1
               DEF Bind, Continue, Goto, redis, history, Types, LoginTypes, Stages, Replies
  <2> QED BY <2>1, <2>2
<1>cmd. CommandTypes'
  BY <1>1 DEF Bind, forward, Types, CommandTypes
<1>3. UNCHANGED <<lease, generation>> /\ lost \subseteq lost' /\ Others(c)
  BY <1>1 DEF Bind, Continue, Goto, NoReply, NoLease, redis, forward, rest, history, Types,
     LoginTypes, CommandTypes, Others
<1>4. answered <= answered' /\ answered' <= generation
  BY SMTT(30), <1>1 DEF Bind, Continue, Goto, NoReply, NoLease, redis, forward, rest, history, Types,
     LoginTypes, CommandTypes, Current, LoginSound
<1>5. LoginSound(c)'
  <2>1. /\ mine'[c] = reply[c].granted /\ mine'[c] \in 1..generation
        /\ mine'[c] = generation => Leased(c)
    BY <1>1 DEF Bind, Types, LoginTypes, LoginSound
  <2>2. stage'[c] \in {"previous", "idle", "refresh"}
    BY <1>1 DEF Bind, Continue, Goto, Types, LoginTypes
  <2>3. lease.conn = c /\ c \notin lost => mine'[c] = lease.gen
    BY SMTT(30), <1>1, <2>1, SessionConstants
       DEF Bind, Types, LoginTypes, Current, LoginSound, NoLease, Bindings
  <2> QED BY SMTT(30), <1>1, <1>3, <2>1, <2>2, <2>3
          DEF Bind, Types, LoginTypes, history, LoginSound, Leased, Bindings
<1>6. CommandSound(c)'
  BY SMTT(30), <1>1, <1>3 DEF Bind, Continue, Goto, NoReply, NoLease, redis, forward, rest, history, Types,
     LoginTypes, CommandTypes, Current, LoginSound, CommandSound, Leased, Bindings
<1> QED BY <1>2, <1>cmd, <1>3, <1>4, <1>5, <1>6, Moves DEF Types

\* login() closes the connection it replaced.
LEMMA ClosePreviousKeeps ==
    ASSUME Inductive, NEW c \in Conns, ClosePrevious(c)
    PROVE  Inductive'
<1>1. Types /\ Current /\ LoginSound(c) /\ CommandSound(c)
  BY DEF Inductive
<1>2. LoginTypes'
  BY <1>1, NoReplyTyped DEF ClosePrevious, Close, Continue, Goto, redis, conn, forward, rest,
     history, Types, LoginTypes, Stages
<1>cmd. CommandTypes'
  BY <1>1 DEF ClosePrevious, Close, Continue, Goto, NoReply, NoLease, redis, conn, forward, rest,
     history, Types, LoginTypes, CommandTypes, Commands, Remotes
<1>3. UNCHANGED <<lease, generation>> /\ lost \subseteq lost' /\ Others(c)
  BY <1>1 DEF ClosePrevious, Close, Continue, Goto, NoReply, NoLease, redis, conn, forward, rest,
     history, Types, LoginTypes, CommandTypes, Others
<1>4. answered <= answered' /\ answered' <= generation
  BY SMTT(30), <1>1 DEF ClosePrevious, Close, Continue, Goto, NoReply, NoLease, redis, conn, forward, rest,
     history, Types, LoginTypes, CommandTypes, Current, LoginSound
<1>5. LoginSound(c)'
  BY <1>1, <1>3 DEF ClosePrevious, Close, Continue, Goto, NoReply, NoLease, redis, conn, forward,
     rest, history, Types, LoginTypes, CommandTypes, Current, LoginSound, CommandSound, Leased,
     Bindings, Replies
<1>6. CommandSound(c)'
  BY <1>1, <1>3 DEF ClosePrevious, Close, Continue, Goto, NoReply, NoLease, redis, conn, forward,
     rest, history, Types, LoginTypes, CommandTypes, Current, LoginSound, CommandSound, Leased,
     Bindings
<1> QED BY <1>2, <1>cmd, <1>3, <1>4, <1>5, <1>6, Moves DEF Types

\* The refresh script of login() writes no lease.
LEMMA RunRefreshKeeps ==
    ASSUME Inductive, NEW c \in Conns, RunRefresh(c)
    PROVE  Inductive'
<1>1. Types /\ Current /\ LoginSound(c) /\ CommandSound(c)
  BY DEF Inductive
<1>rep. reply' \in [Conns -> Replies]
  <2>1. [reply[c] EXCEPT !.current = Holds(c)] \in Replies
    <3>1. CASE Holds(c)
      BY <1>1, <3>1 DEF Holds, Types, LoginTypes, Replies
    <3>2. CASE ~Holds(c)
      BY <1>1, <3>2 DEF Holds, Types, LoginTypes, Replies
    <3> QED BY <3>1, <3>2
  <2> QED BY <1>1, <2>1 DEF RunRefresh, Types, LoginTypes
<1>2. LoginTypes'
  BY <1>1, <1>rep DEF RunRefresh, Refreshing, Goto, conn, forward, rest, history, Types,
     LoginTypes, Stages
<1>cmd. CommandTypes'
  BY <1>1 DEF RunRefresh, forward, Types, CommandTypes
<1>3. UNCHANGED <<lease, generation>> /\ lost \subseteq lost' /\ Others(c)
  BY <1>1 DEF RunRefresh, Refreshing, Goto, conn, forward, rest, history, Types, LoginTypes,
     CommandTypes, Others
<1>4. answered <= answered' /\ answered' <= generation
  BY SMTT(30), <1>1 DEF RunRefresh, Refreshing, Goto, conn, forward, rest, history, Types, LoginTypes,
     CommandTypes, Current, LoginSound
<1>5. LoginSound(c)'
  BY <1>1, <1>3 DEF RunRefresh, Refreshing, Goto, conn, forward, rest, history, Types, LoginTypes,
     CommandTypes, Current, LoginSound, CommandSound, Leased, Bindings, Replies
<1>6. CommandSound(c)'
  BY <1>1, <1>3 DEF RunRefresh, Refreshing, Goto, conn, forward, rest, history, Types, LoginTypes,
     CommandTypes, Current, LoginSound, CommandSound, Leased, Bindings
<1> QED BY <1>2, <1>cmd, <1>3, <1>4, <1>5, <1>6, Moves DEF Types

\* login() has the answer of its refresh.
LEMMA RefreshedKeeps ==
    ASSUME Inductive, NEW c \in Conns, Refreshed(c)
    PROVE  Inductive'
<1>1. Types /\ Current /\ LoginSound(c) /\ CommandSound(c)
  BY DEF Inductive
<1>max. Max({answered, mine[c]}) \in {answered, mine[c]} /\ answered <= Max({answered, mine[c]})
  BY <1>1, MaxOfTwo DEF Types, LoginTypes
<1>2. LoginTypes'
  BY <1>1, <1>max, NoReplyTyped DEF Refreshed, Close, Answer, Goto, redis, forward, rest, Types,
     LoginTypes, Stages
<1>cmd. CommandTypes'
  BY <1>1 DEF Refreshed, Close, Answer, Goto, NoReply, NoLease, redis, forward, rest, Types,
     LoginTypes, CommandTypes, Commands, Remotes
<1>3. UNCHANGED <<lease, generation>> /\ lost \subseteq lost' /\ Others(c)
  BY <1>1 DEF Refreshed, Close, Answer, Goto, NoReply, NoLease, redis, forward, rest, Types,
     LoginTypes, CommandTypes, Others
<1>4. answered <= answered' /\ answered' <= generation
  BY SMTT(30), <1>1, <1>max DEF Refreshed, Close, Answer, Goto, NoReply, NoLease, redis, forward, rest,
     Types, LoginTypes, CommandTypes, Current, LoginSound
<1>5. LoginSound(c)'
  BY <1>1, <1>3 DEF Refreshed, Close, Answer, Goto, NoReply, NoLease, redis, forward, rest, Types,
     LoginTypes, CommandTypes, Current, LoginSound, CommandSound, Leased, Bindings, Replies
<1>6. CommandSound(c)'
  BY SMTT(30), <1>1, <1>max, <1>3 DEF Refreshed, Close, Answer, Goto, NoReply, NoLease, redis, forward,
     rest, Types, LoginTypes, CommandTypes, Current, LoginSound, CommandSound, Leased, Bindings
<1> QED BY <1>2, <1>cmd, <1>3, <1>4, <1>5, <1>6, Moves DEF Types

\* A call of login() fails: a lease it may have taken is written off.
LEMMA LoginFailsKeeps ==
    ASSUME Inductive, NEW c \in Conns, LoginFails(c)
    PROVE  Inductive'
<1>1. Types /\ Current /\ LoginSound(c) /\ CommandSound(c)
  BY DEF Inductive
<1>2. LoginTypes'
  BY <1>1, NoReplyTyped DEF LoginFails, Goto, redis, conn, forward, Types, LoginTypes, Stages
<1>cmd. CommandTypes'
  BY <1>1 DEF LoginFails, Goto, NoReply, NoLease, redis, conn, forward, Types, LoginTypes,
     CommandTypes, Commands, Remotes
<1>3. UNCHANGED <<lease, generation>> /\ lost \subseteq lost' /\ Others(c)
  BY <1>1 DEF LoginFails, Goto, NoReply, NoLease, redis, conn, forward, Types, LoginTypes,
     CommandTypes, Others
<1>4. answered <= answered' /\ answered' <= generation
  BY SMTT(30), <1>1 DEF LoginFails, Goto, NoReply, NoLease, redis, conn, forward, Types, LoginTypes,
     CommandTypes, Current, LoginSound
<1>5. LoginSound(c)'
  BY <1>1, <1>3 DEF LoginFails, Goto, NoReply, NoLease, redis, conn, forward, Types, LoginTypes,
     CommandTypes, Current, LoginSound, CommandSound, Leased, Bindings, Replies
<1>6. CommandSound(c)'
  BY <1>1, <1>3 DEF LoginFails, Goto, NoReply, NoLease, redis, conn, forward, Types, LoginTypes,
     CommandTypes, Current, LoginSound, CommandSound, Leased, Bindings
<1> QED BY <1>2, <1>cmd, <1>3, <1>4, <1>5, <1>6, Moves DEF Types

\* A command begins.
LEMMA ForwardKeeps ==
    ASSUME Inductive, NEW c \in Conns, Forward(c)
    PROVE  Inductive'
<1>1. Types /\ Current /\ LoginSound(c) /\ CommandSound(c)
  BY DEF Inductive
<1>2. LoginTypes'
  BY <1>1 DEF Forward, Send, redis, conn, rest, history, Types, LoginTypes, Stages, Replies
<1>cmd. CommandTypes'
  BY SMTT(30), <1>1 DEF Forward, Send, redis, conn, rest, history, Types, LoginTypes, CommandTypes,
     Commands, Remotes
<1>3. UNCHANGED <<lease, generation>> /\ lost \subseteq lost' /\ Others(c)
  BY SMTT(30), <1>1 DEF Forward, Send, redis, conn, rest, history, Types, LoginTypes, CommandTypes, Others
<1>4. answered <= answered' /\ answered' <= generation
  BY SMTT(30), <1>1 DEF Forward, Send, redis, conn, rest, history, Types, LoginTypes, CommandTypes, Current,
     LoginSound
<1>5. LoginSound(c)'
  BY <1>1, <1>3 DEF Forward, Send, redis, conn, rest, history, Types, LoginTypes, CommandTypes,
     Current, LoginSound, CommandSound, Leased, Bindings, Replies
<1>6. CommandSound(c)'
  BY SMTT(30), <1>1, <1>3 DEF Forward, Send, redis, conn, rest, history, Types, LoginTypes, CommandTypes,
     Current, LoginSound, CommandSound, Leased, Bindings
<1> QED BY <1>2, <1>cmd, <1>3, <1>4, <1>5, <1>6, Moves DEF Types

\* The refresh script of a command confirms a lease that is there.
LEMMA RunForwardRefreshKeeps ==
    ASSUME Inductive, NEW c \in Conns, RunForwardRefresh(c)
    PROVE  Inductive'
<1>1. Types /\ Current /\ LoginSound(c) /\ CommandSound(c)
  BY DEF Inductive
<1>2. LoginTypes'
  BY <1>1 DEF RunForwardRefresh, Refreshing, Holds, Lease, conn, rest, history, Types, LoginTypes,
     Stages, Replies
<1>cmd. CommandTypes'
  BY <1>1 DEF RunForwardRefresh, Refreshing, Holds, Lease, conn, rest, history, Types, LoginTypes,
     CommandTypes, Commands, Remotes
<1>3. UNCHANGED <<lease, generation>> /\ lost \subseteq lost' /\ Others(c)
  BY <1>1 DEF RunForwardRefresh, Refreshing, Holds, Lease, conn, rest, history, Types, LoginTypes,
     CommandTypes, Others
<1>4. answered <= answered' /\ answered' <= generation
  BY SMTT(30), <1>1 DEF RunForwardRefresh, Refreshing, Holds, Lease, conn, rest, history, Types, LoginTypes,
     CommandTypes, Current, LoginSound
<1>5. LoginSound(c)'
  BY <1>1, <1>3 DEF RunForwardRefresh, Refreshing, Holds, Lease, conn, rest, history, Types,
     LoginTypes, CommandTypes, Current, LoginSound, CommandSound, Leased, Bindings, Replies
<1>6. CommandSound(c)'
  BY <1>1, <1>3 DEF RunForwardRefresh, Refreshing, Holds, Lease, conn, rest, history, Types,
     LoginTypes, CommandTypes, Current, LoginSound, CommandSound, Leased, Bindings
<1> QED BY <1>2, <1>cmd, <1>3, <1>4, <1>5, <1>6, Moves DEF Types

\* A confirmed command is sent.
LEMMA ForwardRefreshedKeeps ==
    ASSUME Inductive, NEW c \in Conns, ForwardRefreshed(c)
    PROVE  Inductive'
<1>1. Types /\ Current /\ LoginSound(c) /\ CommandSound(c)
  BY DEF Inductive
<1>2. LoginTypes'
  BY <1>1 DEF ForwardRefreshed, Send, Close, redis, rest, history, Types, LoginTypes, Stages,
     Replies
<1>cmd. CommandTypes'
  BY SMTT(30), <1>1 DEF ForwardRefreshed, Send, Close, redis, rest, history, Types, LoginTypes,
     CommandTypes, Commands, Remotes
<1>3. UNCHANGED <<lease, generation>> /\ lost \subseteq lost' /\ Others(c)
  BY SMTT(30), <1>1 DEF ForwardRefreshed, Send, Close, redis, rest, history, Types, LoginTypes,
     CommandTypes, Others
<1>4. answered <= answered' /\ answered' <= generation
  BY SMTT(30), <1>1 DEF ForwardRefreshed, Send, Close, redis, rest, history, Types, LoginTypes,
     CommandTypes, Current, LoginSound
<1>5. LoginSound(c)'
  BY <1>1, <1>3 DEF ForwardRefreshed, Send, Close, redis, rest, history, Types, LoginTypes,
     CommandTypes, Current, LoginSound, CommandSound, Leased, Bindings, Replies
<1>6. CommandSound(c)'
  BY SMTT(30), <1>1, <1>3 DEF ForwardRefreshed, Send, Close, redis, rest, history, Types, LoginTypes,
     CommandTypes, Current, LoginSound, CommandSound, Leased, Bindings
<1> QED BY <1>2, <1>cmd, <1>3, <1>4, <1>5, <1>6, Moves DEF Types

\* Message compares the lease, which carries the current generation, with the
\* origin.
LEMMA RemoteCheckKeeps ==
    ASSUME Inductive, NEW c \in Conns, RemoteCheck(c)
    PROVE  Inductive'
<1>1. Types /\ Current /\ LoginSound(c) /\ CommandSound(c)
  BY DEF Inductive
<1>2. LoginTypes'
  BY <1>1 DEF RemoteCheck, IsOrigin, Lease, redis, conn, rest, history, Types, LoginTypes, Stages,
     Replies
<1>cmd. CommandTypes'
  BY <1>1 DEF RemoteCheck, IsOrigin, Lease, redis, conn, rest, history, Types, LoginTypes,
     CommandTypes, Commands, Remotes
<1>3. UNCHANGED <<lease, generation>> /\ lost \subseteq lost' /\ Others(c)
  BY <1>1 DEF RemoteCheck, IsOrigin, Lease, redis, conn, rest, history, Types, LoginTypes,
     CommandTypes, Others
<1>4. answered <= answered' /\ answered' <= generation
  BY SMTT(30), <1>1 DEF RemoteCheck, IsOrigin, Lease, redis, conn, rest, history, Types, LoginTypes,
     CommandTypes, Current, LoginSound
<1>5. LoginSound(c)'
  BY <1>1, <1>3 DEF RemoteCheck, IsOrigin, Lease, redis, conn, rest, history, Types, LoginTypes,
     CommandTypes, Current, LoginSound, CommandSound, Leased, Bindings, Replies
<1>6. CommandSound(c)'
  <2>1. ASSUME IsOrigin(c) PROVE origin[c] >= floor[c]
    BY SMTT(30), <1>1, <2>1, SessionConstants
       DEF IsOrigin, Lease, NoLease, Types, LoginTypes, CommandTypes, Current, CommandSound
  <2> QED BY <1>1, <1>3, <2>1
          DEF RemoteCheck, conn, history, Types, LoginTypes, CommandTypes, CommandSound, Leased
<1> QED BY <1>2, <1>cmd, <1>3, <1>4, <1>5, <1>6, Moves DEF Types

\* The command is executed.
LEMMA RemoteExecuteKeeps ==
    ASSUME Inductive, NEW c \in Conns, RemoteExecute(c)
    PROVE  Inductive'
<1>1. Types /\ Current /\ LoginSound(c) /\ CommandSound(c)
  BY DEF Inductive
<1>2. LoginTypes'
  BY <1>1 DEF RemoteExecute, redis, conn, rest, history, Types, LoginTypes, Stages, Replies
<1>cmd. CommandTypes'
  BY <1>1 DEF RemoteExecute, redis, conn, rest, history, Types, LoginTypes, CommandTypes,
     Commands, Remotes
<1>3. UNCHANGED <<lease, generation>> /\ lost \subseteq lost' /\ Others(c)
  BY <1>1 DEF RemoteExecute, redis, conn, rest, history, Types, LoginTypes, CommandTypes, Others
<1>4. answered <= answered' /\ answered' <= generation
  BY SMTT(30), <1>1 DEF RemoteExecute, redis, conn, rest, history, Types, LoginTypes, CommandTypes, Current,
     LoginSound
<1>5. LoginSound(c)'
  BY <1>1, <1>3 DEF RemoteExecute, redis, conn, rest, history, Types, LoginTypes, CommandTypes,
     Current, LoginSound, CommandSound, Leased, Bindings, Replies
<1>6. CommandSound(c)'
  BY <1>1, <1>3 DEF RemoteExecute, redis, conn, rest, history, Types, LoginTypes, CommandTypes,
     Current, LoginSound, CommandSound, Leased, Bindings
<1> QED BY <1>2, <1>cmd, <1>3, <1>4, <1>5, <1>6, Moves DEF Types

\* The result is back.
LEMMA RemoteResultKeeps ==
    ASSUME Inductive, NEW c \in Conns, RemoteResult(c)
    PROVE  Inductive'
<1>1. Types /\ Current /\ LoginSound(c) /\ CommandSound(c)
  BY DEF Inductive
<1>2. LoginTypes'
  BY <1>1 DEF RemoteResult, Close, Done, redis, rest, history, Types, LoginTypes, Stages, Replies
<1>cmd. CommandTypes'
  BY <1>1 DEF RemoteResult, Close, Done, redis, rest, history, Types, LoginTypes, CommandTypes,
     Commands, Remotes
<1>3. UNCHANGED <<lease, generation>> /\ lost \subseteq lost' /\ Others(c)
  BY <1>1 DEF RemoteResult, Close, Done, redis, rest, history, Types, LoginTypes, CommandTypes,
     Others
<1>4. answered <= answered' /\ answered' <= generation
  BY SMTT(30), <1>1 DEF RemoteResult, Close, Done, redis, rest, history, Types, LoginTypes, CommandTypes,
     Current, LoginSound
<1>5. LoginSound(c)'
  BY <1>1, <1>3 DEF RemoteResult, Close, Done, redis, rest, history, Types, LoginTypes,
     CommandTypes, Current, LoginSound, CommandSound, Leased, Bindings, Replies
<1>6. CommandSound(c)'
  BY SMTT(30), <1>1, <1>3 DEF RemoteResult, Close, Done, redis, rest, history, Types, LoginTypes,
     CommandTypes, Current, LoginSound, CommandSound, Leased, Bindings
<1> QED BY <1>2, <1>cmd, <1>3, <1>4, <1>5, <1>6, Moves DEF Types

\* The pending command is cancelled.
LEMMA CancelledKeeps ==
    ASSUME Inductive, NEW c \in Conns, Cancelled(c)
    PROVE  Inductive'
<1>1. Types /\ Current /\ LoginSound(c) /\ CommandSound(c)
  BY DEF Inductive
<1>2. LoginTypes'
  BY <1>1 DEF Cancelled, redis, conn, rest, history, Types, LoginTypes, Stages, Replies
<1>cmd. CommandTypes'
  BY <1>1 DEF Cancelled, redis, conn, rest, history, Types, LoginTypes, CommandTypes, Commands,
     Remotes
<1>3. UNCHANGED <<lease, generation>> /\ lost \subseteq lost' /\ Others(c)
  BY <1>1 DEF Cancelled, redis, conn, rest, history, Types, LoginTypes, CommandTypes, Others
<1>4. answered <= answered' /\ answered' <= generation
  BY SMTT(30), <1>1 DEF Cancelled, redis, conn, rest, history, Types, LoginTypes, CommandTypes, Current,
     LoginSound
<1>5. LoginSound(c)'
  BY <1>1, <1>3 DEF Cancelled, redis, conn, rest, history, Types, LoginTypes, CommandTypes,
     Current, LoginSound, CommandSound, Leased, Bindings, Replies
<1>6. CommandSound(c)'
  BY <1>1, <1>3 DEF Cancelled, redis, conn, rest, history, Types, LoginTypes, CommandTypes,
     Current, LoginSound, CommandSound, Leased, Bindings
<1> QED BY <1>2, <1>cmd, <1>3, <1>4, <1>5, <1>6, Moves DEF Types

\* A call of forward() fails.
LEMMA ForwardFailsKeeps ==
    ASSUME Inductive, NEW c \in Conns, ForwardFails(c)
    PROVE  Inductive'
<1>1. Types /\ Current /\ LoginSound(c) /\ CommandSound(c)
  BY DEF Inductive
<1>2. LoginTypes'
  BY <1>1 DEF ForwardFails, Done, redis, conn, history, Types, LoginTypes, Stages, Replies
<1>cmd. CommandTypes'
  BY SMTT(30), <1>1 DEF ForwardFails, Done, redis, conn, history, Types, LoginTypes, CommandTypes, Commands,
     Remotes
<1>3. UNCHANGED <<lease, generation>> /\ lost \subseteq lost' /\ Others(c)
  BY <1>1 DEF ForwardFails, Done, redis, conn, history, Types, LoginTypes, CommandTypes, Others
<1>4. answered <= answered' /\ answered' <= generation
  BY SMTT(30), <1>1 DEF ForwardFails, Done, redis, conn, history, Types, LoginTypes, CommandTypes, Current,
     LoginSound
<1>5. LoginSound(c)'
  BY <1>1, <1>3 DEF ForwardFails, Done, redis, conn, history, Types, LoginTypes, CommandTypes,
     Current, LoginSound, CommandSound, Leased, Bindings, Replies
<1>6. CommandSound(c)'
  BY SMTT(30), <1>1, <1>3 DEF ForwardFails, Done, redis, conn, history, Types, LoginTypes, CommandTypes,
     Current, LoginSound, CommandSound, Leased, Bindings
<1> QED BY <1>2, <1>cmd, <1>3, <1>4, <1>5, <1>6, Moves DEF Types

\* A connection is closed.
LEMMA DropKeeps ==
    ASSUME Inductive, NEW c \in Conns, Drop(c)
    PROVE  Inductive'
<1>1. Types /\ Current /\ LoginSound(c) /\ CommandSound(c)
  BY DEF Inductive
<1>2. LoginTypes'
  BY <1>1 DEF Drop, Close, redis, forward, rest, history, Types, LoginTypes, Stages, Replies
<1>cmd. CommandTypes'
  BY <1>1 DEF Drop, Close, redis, forward, rest, history, Types, LoginTypes, CommandTypes,
     Commands, Remotes
<1>3. UNCHANGED <<lease, generation>> /\ lost \subseteq lost' /\ Others(c)
  BY <1>1 DEF Drop, Close, redis, forward, rest, history, Types, LoginTypes, CommandTypes, Others
<1>4. answered <= answered' /\ answered' <= generation
  BY SMTT(30), <1>1 DEF Drop, Close, redis, forward, rest, history, Types, LoginTypes, CommandTypes,
     Current, LoginSound
<1>5. LoginSound(c)'
  BY <1>1, <1>3 DEF Drop, Close, redis, forward, rest, history, Types, LoginTypes, CommandTypes,
     Current, LoginSound, CommandSound, Leased, Bindings, Replies
<1>6. CommandSound(c)'
  BY <1>1, <1>3 DEF Drop, Close, redis, forward, rest, history, Types, LoginTypes, CommandTypes,
     Current, LoginSound, CommandSound, Leased, Bindings
<1> QED BY <1>2, <1>cmd, <1>3, <1>4, <1>5, <1>6, Moves DEF Types

\* The read loop ends.
LEMMA LeaveLoopKeeps ==
    ASSUME Inductive, NEW c \in Conns, LeaveLoop(c)
    PROVE  Inductive'
<1>1. Types /\ Current /\ LoginSound(c) /\ CommandSound(c)
  BY DEF Inductive
<1>2. LoginTypes'
  BY <1>1 DEF LeaveLoop, Close, Goto, redis, forward, rest, history, Types, LoginTypes, Stages,
     Replies
<1>cmd. CommandTypes'
  BY <1>1 DEF LeaveLoop, Close, Goto, redis, forward, rest, history, Types, LoginTypes,
     CommandTypes, Commands, Remotes
<1>3. UNCHANGED <<lease, generation>> /\ lost \subseteq lost' /\ Others(c)
  BY <1>1 DEF LeaveLoop, Close, Goto, redis, forward, rest, history, Types, LoginTypes,
     CommandTypes, Others
<1>4. answered <= answered' /\ answered' <= generation
  BY SMTT(30), <1>1 DEF LeaveLoop, Close, Goto, redis, forward, rest, history, Types, LoginTypes,
     CommandTypes, Current, LoginSound
<1>5. LoginSound(c)'
  BY <1>1, <1>3 DEF LeaveLoop, Close, Goto, redis, forward, rest, history, Types, LoginTypes,
     CommandTypes, Current, LoginSound, CommandSound, Leased, Bindings, Replies
<1>6. CommandSound(c)'
  BY <1>1, <1>3 DEF LeaveLoop, Close, Goto, redis, forward, rest, history, Types, LoginTypes,
     CommandTypes, Current, LoginSound, CommandSound, Leased, Bindings
<1> QED BY <1>2, <1>cmd, <1>3, <1>4, <1>5, <1>6, Moves DEF Types

\* A connection that has no lease to give back ends.
LEMMA SettleKeeps ==
    ASSUME Inductive, NEW c \in Conns, Settle(c)
    PROVE  Inductive'
<1>1. Types /\ Current /\ LoginSound(c) /\ CommandSound(c)
  BY DEF Inductive
<1>2. LoginTypes'
  BY SMTT(30), <1>1 DEF Settle, Goto, Destroy, redis, conn, forward, rest, history, Types, LoginTypes,
     Stages, Replies
<1>cmd. CommandTypes'
  BY <1>1 DEF Settle, Goto, Destroy, redis, conn, forward, rest, history, Types, LoginTypes,
     CommandTypes, Commands, Remotes
<1>3. UNCHANGED <<lease, generation>> /\ lost \subseteq lost' /\ Others(c)
  BY <1>1 DEF Settle, Goto, Destroy, redis, conn, forward, rest, history, Types, LoginTypes,
     CommandTypes, Others
<1>4. answered <= answered' /\ answered' <= generation
  BY SMTT(30), <1>1 DEF Settle, Goto, Destroy, redis, conn, forward, rest, history, Types, LoginTypes,
     CommandTypes, Current, LoginSound
<1>5. LoginSound(c)'
  BY SMTT(30), <1>1, <1>3 DEF Settle, Goto, Destroy, redis, conn, forward, rest, history, Types, LoginTypes,
     CommandTypes, Current, LoginSound, CommandSound, Leased, Bindings, Replies
<1>6. CommandSound(c)'
  BY <1>1, <1>3 DEF Settle, Goto, Destroy, redis, conn, forward, rest, history, Types, LoginTypes,
     CommandTypes, Current, LoginSound, CommandSound, Leased, Bindings
<1> QED BY <1>2, <1>cmd, <1>3, <1>4, <1>5, <1>6, Moves DEF Types

\* The clear call fails: the lease is written off.
LEMMA ClearFailsKeeps ==
    ASSUME Inductive, NEW c \in Conns, ClearFails(c)
    PROVE  Inductive'
<1>1. Types /\ Current /\ LoginSound(c) /\ CommandSound(c)
  BY DEF Inductive
<1>2. LoginTypes'
  BY <1>1 DEF ClearFails, Goto, Destroy, redis, forward, Types, LoginTypes, Stages, Replies
<1>cmd. CommandTypes'
  BY <1>1 DEF ClearFails, Goto, Destroy, redis, forward, Types, LoginTypes, CommandTypes,
     Commands, Remotes
<1>3. UNCHANGED <<lease, generation>> /\ lost \subseteq lost' /\ Others(c)
  BY <1>1 DEF ClearFails, Goto, Destroy, redis, forward, Types, LoginTypes, CommandTypes, Others
<1>4. answered <= answered' /\ answered' <= generation
  BY SMTT(30), <1>1 DEF ClearFails, Goto, Destroy, redis, forward, Types, LoginTypes, CommandTypes, Current,
     LoginSound
<1>5. LoginSound(c)'
  BY SMTT(30), <1>1, <1>3 DEF ClearFails, Goto, Destroy, redis, forward, Types, LoginTypes, CommandTypes,
     Current, LoginSound, CommandSound, Leased, Bindings, Replies
<1>6. CommandSound(c)'
  BY <1>1, <1>3 DEF ClearFails, Goto, Destroy, redis, forward, Types, LoginTypes, CommandTypes,
     Current, LoginSound, CommandSound, Leased, Bindings
<1> QED BY <1>2, <1>cmd, <1>3, <1>4, <1>5, <1>6, Moves DEF Types

\* The last refresh is no longer recent.
LEMMA ElapseKeeps ==
    ASSUME Inductive, NEW c \in Conns, Elapse(c)
    PROVE  Inductive'
<1>1. Types /\ Current /\ LoginSound(c) /\ CommandSound(c)
  BY DEF Inductive
<1>2. LoginTypes'
  BY <1>1 DEF Elapse, redis, forward, rest, history, Types, LoginTypes, Stages, Replies
<1>cmd. CommandTypes'
  BY <1>1 DEF Elapse, redis, forward, rest, history, Types, LoginTypes, CommandTypes, Commands,
     Remotes
<1>3. UNCHANGED <<lease, generation>> /\ lost \subseteq lost' /\ Others(c)
  BY <1>1 DEF Elapse, redis, forward, rest, history, Types, LoginTypes, CommandTypes, Others
<1>4. answered <= answered' /\ answered' <= generation
  BY SMTT(30), <1>1 DEF Elapse, redis, forward, rest, history, Types, LoginTypes, CommandTypes, Current,
     LoginSound
<1>5. LoginSound(c)'
  BY <1>1, <1>3 DEF Elapse, redis, forward, rest, history, Types, LoginTypes, CommandTypes,
     Current, LoginSound, CommandSound, Leased, Bindings, Replies
<1>6. CommandSound(c)'
  BY <1>1, <1>3 DEF Elapse, redis, forward, rest, history, Types, LoginTypes, CommandTypes,
     Current, LoginSound, CommandSound, Leased, Bindings
<1> QED BY <1>2, <1>cmd, <1>3, <1>4, <1>5, <1>6, Moves DEF Types
-----------------------------------------------------------------------------
\* The steps that change the lease, or no connection at all.

\* The bind script: with the new generation, what the other connections have is
\* old, and c has the new lease until its login has the reply.
LEMMA RunBindKeeps ==
    ASSUME Inductive, NEW c \in Conns, RunBind(c)
    PROVE  Inductive'
<1>1. Types /\ Current /\ \A d \in Conns : LoginSound(d) /\ CommandSound(d)
  BY DEF Inductive
<1>2. LoginTypes'
  <2>1. Lease(c, generation + 1) \in Leases
    BY SMTT(30), <1>1 DEF Lease, Leases, Types, LoginTypes
  <2>2. [reply[c] EXCEPT !.granted = generation + 1, !.previous = lease] \in Replies
    <3>1. reply[c] \in Replies /\ generation + 1 \in Nat /\ lease \in Leases
      BY SMTT(30), <1>1 DEF Types, LoginTypes
    <3>2. [reply[c] EXCEPT !.granted = generation + 1] \in Replies
      BY <3>1 DEF Replies
    <3> QED BY <3>1, <3>2 DEF Replies
  <2>3. reply' = [reply EXCEPT ![c] = [reply[c] EXCEPT !.granted = generation + 1, !.previous = lease]]
    BY <1>1 DEF RunBind, Types, LoginTypes
  <2>4. reply' \in [Conns -> Replies]
    BY <1>1, <2>2, <2>3 DEF Types, LoginTypes
  <2>5. stage' \in [Conns -> Stages]
    BY <1>1 DEF RunBind, Goto, Types, LoginTypes, Stages
  <2> QED BY SMTT(30), <1>1, <2>1, <2>4, <2>5 DEF RunBind, conn, Types, LoginTypes
<1>3. CommandTypes'
  BY <1>1 DEF RunBind, forward, Types, CommandTypes
<1>4. Current'
  BY SMTT(30), <1>1 DEF RunBind, Lease, Types, LoginTypes, Current
<1>5. ASSUME NEW d \in Conns PROVE LoginSound(d)'
  <2>1. CASE d = c
    BY SMTT(30), <1>1, <2>1 DEF RunBind, Goto, conn, Lease, Leased, Types, LoginTypes, LoginSound,
       Bindings, Replies
  <2>2. CASE d # c
    BY SMTT(30), <1>1, <2>2 DEF RunBind, Goto, conn, Lease, Types, LoginTypes, LoginSound, Bindings, Replies
  <2> QED BY <2>1, <2>2
<1>6. ASSUME NEW d \in Conns PROVE CommandSound(d)'
  BY SMTT(30), <1>1 DEF RunBind, Goto, conn, forward, Types, LoginTypes, CommandTypes, LoginSound,
     CommandSound, Bindings
<1> QED BY <1>2, <1>3, <1>4, <1>5, <1>6 DEF Inductive, Types

\* The clear script: the lease it deletes is nobody else's.
LEMMA RunClearKeeps ==
    ASSUME Inductive, NEW c \in Conns, RunClear(c)
    PROVE  Inductive'
<1>1. Types /\ Current /\ \A d \in Conns : LoginSound(d) /\ CommandSound(d)
  BY DEF Inductive
<1>2. Types' /\ Current'
  BY <1>1 DEF RunClear, Destroy, Goto, NoLease, forward, Types, LoginTypes, CommandTypes, Stages,
              Leases, Current
<1>3. lease'.conn = c => c \in lost
  BY SMTT(30), <1>1, SessionConstants
     DEF RunClear, Holds, Lease, NoLease, Leases, Types, LoginTypes, Current, LoginSound
<1>4. ASSUME NEW d \in Conns, d # c PROVE (Leased(d) => Leased(d)') /\ (lease'.conn = d => lease' = lease)
  BY SMTT(30), <1>1, <1>4, SessionConstants DEF RunClear, Holds, Lease, NoLease, Leased
<1>5. ASSUME NEW d \in Conns PROVE LoginSound(d)' /\ CommandSound(d)'
  <2>1. CASE d = c
    <3>1. LoginSound(c)'
      BY SMTT(30), <1>1, <1>3 DEF RunClear, Destroy, Goto, Types, LoginTypes, LoginSound, Bindings
    <3>2. CommandSound(c)'
      BY <1>1 DEF RunClear, Destroy, Goto, forward, Types, LoginTypes, CommandTypes, CommandSound
    <3> QED BY <2>1, <3>1, <3>2
  <2>2. CASE d # c
    <3>1. LoginSound(d)'
      BY <1>1, <1>4, <2>2 DEF RunClear, Destroy, Goto, Types, LoginTypes, LoginSound, Bindings
    <3>2. CommandSound(d)'
      BY <1>1, <1>4, <2>2 DEF RunClear, Destroy, Goto, forward, Types, LoginTypes,
         CommandTypes, CommandSound
    <3> QED BY <3>1, <3>2
  <2> QED BY <2>1, <2>2
<1> QED BY <1>2, <1>5 DEF Inductive

\* The TTL of the lease runs out only when nobody relies on it.
LEMMA ExpireKeeps ==
    ASSUME Inductive, Expire
    PROVE  Inductive'
<1>1. Types /\ Current /\ \A d \in Conns : LoginSound(d) /\ CommandSound(d)
  BY DEF Inductive
<1>2. Types' /\ Current'
  BY <1>1 DEF Expire, NoLease, conn, forward, Types, LoginTypes, CommandTypes, Leases, Current
<1>3. ASSUME NEW d \in Conns PROVE LoginSound(d)'
  BY SMTT(30), <1>1, SessionConstants
     DEF Expire, Holds, Lease, Leased, NoLease, conn, Types, LoginTypes, LoginSound
<1>4. ASSUME NEW d \in Conns PROVE CommandSound(d)'
  BY SMTT(30), <1>1, SessionConstants
     DEF Expire, Holds, Lease, Leased, NoLease, conn, forward, Types, LoginTypes, CommandTypes, CommandSound
<1> QED BY <1>2, <1>3, <1>4 DEF Inductive

\* What the invariant is about.
seen == <<lease, generation, stage, reply, mine, recent, forward, answered, lost>>

\* Lookups, the end of a Gateway process and stuttering.
LEMMA UnseenKeeps ==
    ASSUME Inductive, UNCHANGED seen
    PROVE  Inductive'
<1>1. Types' /\ Current'
  BY DEF Inductive, seen, forward, Types, LoginTypes, CommandTypes, Current
<1>2. ASSUME NEW c \in Conns PROVE LoginSound(c)' /\ CommandSound(c)'
  <2>1. LoginSound(c) /\ CommandSound(c)
    BY DEF Inductive
  <2>2. LoginSound(c)'
    BY <2>1 DEF seen, LoginSound, Leased
  <2>3. CommandSound(c)'
    BY <2>1 DEF seen, forward, CommandSound, Leased
  <2> QED BY <2>2, <2>3
<1> QED BY <1>1, <1>2 DEF Inductive
-----------------------------------------------------------------------------
\* A behaviour begins with no lease, or with the one of a finished login.
LEMMA InductiveInit == Init => Inductive
<1> SUFFICES ASSUME Init PROVE Inductive
  OBVIOUS
<1>1. scenario.bound \in scenario.conns \cup {NoConn} /\ scenario.bound \in Conns \cup {NoConn}
  BY SessionConstants DEF Init
<1> DEFINE first == {scenario.bound} \ {NoConn}
<1>2. CASE scenario.bound = NoConn
  <2>1. first = {} /\ Cardinality(first) = 0
    BY <1>2, FS_EmptySet
  <2>2. lease = NoLease /\ generation = 0 /\ answered = 0 /\ mine = [c \in Conns |-> 0] /\ recent = {}
    BY <2>1 DEF Init
  <2>3. Types /\ Current
    BY SMTT(30), <2>2, NoReplyTyped DEF Init, Types, LoginTypes, CommandTypes, Current, NoLease, Leases,
       Stages, Commands, Remotes
  <2>4. ASSUME NEW c \in Conns PROVE LoginSound(c) /\ CommandSound(c)
    BY SMTT(30), <2>2, SessionConstants DEF Init, LoginSound, CommandSound, Bindings, NoLease
  <2> QED BY <2>3, <2>4 DEF Inductive
<1>3. CASE scenario.bound # NoConn
  <2>1. first = {scenario.bound}
    BY <1>3
  <2>one. Cardinality(first) = 1
    BY <2>1, FS_Singleton
  <2>2. /\ lease = Lease(scenario.bound, 1) /\ generation = 1 /\ answered = 1
        /\ mine = [c \in Conns |-> IF c = scenario.bound THEN 1 ELSE 0] /\ recent = {scenario.bound}
    BY <2>1, <2>one DEF Init
  <2>3. Types /\ Current
    BY SMTT(30), <1>1, <1>3, <2>2, NoReplyTyped
       DEF Init, Types, LoginTypes, CommandTypes, Current, Lease, Leases, Stages, Commands, Remotes
  <2>4. ASSUME NEW c \in Conns PROVE LoginSound(c)
    <3>1. CASE c = scenario.bound
      <4>1. stage[c] = "idle"
        BY <1>1, <1>3, <3>1 DEF Init
      <4>2. mine[c] = 1 /\ lease = Lease(c, generation) /\ lease.gen = 1
        BY <2>2, <3>1 DEF Lease
      <4> QED BY SMTT(30), <2>2, <4>1, <4>2 DEF LoginSound, Bindings, Leased
    <3>2. CASE c # scenario.bound
      BY SMTT(30), <2>2, <3>2 DEF Init, LoginSound, Bindings, Lease
    <3> QED BY <3>1, <3>2
  <2>5. ASSUME NEW c \in Conns PROVE CommandSound(c)
    BY SMTT(30), <2>2 DEF Init, CommandSound
  <2> QED BY <2>3, <2>4, <2>5 DEF Inductive
<1> QED BY <1>2, <1>3

\* Every step keeps the invariant.
LEMMA InductiveStep == Inductive /\ [Next]_vars => Inductive'
<1> SUFFICES ASSUME Inductive, [Next]_vars PROVE Inductive'
  OBVIOUS
<1>1. ASSUME NEW c \in Conns, LoginStep(c) PROVE Inductive'
  BY <1>1, LoginKeeps, CheckRefusedKeeps, CheckPassedKeeps, RunBindKeeps, BindKeeps,
     ClosePreviousKeeps, RunRefreshKeeps, RefreshedKeeps, LoginFailsKeeps DEF LoginStep
<1>2. ASSUME NEW c \in Conns, ForwardStep(c) PROVE Inductive'
  BY <1>2, ForwardKeeps, RunForwardRefreshKeeps, ForwardRefreshedKeeps, RemoteCheckKeeps,
     RemoteExecuteKeeps, RemoteResultKeeps, CancelledKeeps, ForwardFailsKeeps DEF ForwardStep
<1>3. ASSUME NEW c \in Conns, EndStep(c) PROVE Inductive'
  BY <1>3, DropKeeps, LeaveLoopKeeps, SettleKeeps, RunClearKeeps, ClearFailsKeeps DEF EndStep
<1>4. ASSUME NEW g \in Gateways, StopGateway(g) PROVE Inductive'
  BY <1>4, UnseenKeeps DEF StopGateway, seen, redis, history
<1>5. ASSUME LookupMembers \/ LookupLease \/ LookupRemove \/ ListExpires PROVE Inductive'
  BY <1>5, UnseenKeeps
     DEF LookupMembers, LookupLease, LookupRemove, ListExpires, seen, redis, conn, history
<1>6. CASE UNCHANGED vars
  BY <1>6, UnseenKeeps DEF vars, seen, redis, conn, history
<1> QED BY <1>1, <1>2, <1>3, <1>4, <1>5, <1>6, ElapseKeeps, ExpireKeeps DEF Next

\* The invariant holds throughout.
LEMMA InductiveAlways == SafeSpec => []Inductive
BY InductiveInit, InductiveStep, PTL DEF SafeSpec
-----------------------------------------------------------------------------
\* The connection that bound last and has refreshed recently has its lease.
THEOREM NewestKeepsLeaseAlways == SafeSpec => []NewestKeepsLease
<1>1. Inductive => NewestKeepsLease
  BY DEF Inductive, Types, LoginTypes, LoginSound, NewestKeepsLease, Leased, Holds
<1> QED BY <1>1, InductiveAlways, PTL

\* What Message accepts comes from the newest login answered when it was sent.
THEOREM AcceptedIsNewestAlways == SafeSpec => []AcceptedIsNewest
<1>1. Inductive => AcceptedIsNewest
  BY DEF Inductive, CommandSound, AcceptedIsNewest
<1> QED BY <1>1, InductiveAlways, PTL

\* A connection that is gone has left no lease, except after a failed call.
THEOREM NoOrphanLeaseAlways == SafeSpec => []NoOrphanLease
<1>1. Inductive => NoOrphanLease
  BY SMTT(30), SessionConstants DEF Inductive, Types, LoginTypes, Current, LoginSound, NoOrphanLease, NoLease
<1> QED BY <1>1, InductiveAlways, PTL

\* A lease that was lost does not come back to the same session: only the bind
\* script writes a lease, with a generation that no connection has yet.
THEOREM NoRevivalAlways == SafeSpec => NoRevival
<1>1. ASSUME Inductive, [Next]_vars, NEW c \in Conns, mine[c] > 0, ~Holds(c) PROVE ~Holds(c)'
  <2>1. ASSUME NEW d \in Conns, RunBind(d) PROVE ~Holds(c)'
    BY SMTT(30), <1>1, <2>1 DEF Inductive, Types, LoginTypes, LoginSound, RunBind, conn, Lease, Holds
  <2>2. ASSUME NEW d \in Conns, Bind(d) PROVE ~Holds(c)'
    BY SMTT(30), <1>1, <2>2 DEF Inductive, Types, LoginTypes, LoginSound, Bindings, Bind, redis, Holds
  <2>3. ASSUME NEW d \in Conns, RunClear(d) PROVE ~Holds(c)'
    BY SMTT(30), <1>1, <2>3, SessionConstants DEF Inductive, Types, LoginTypes, RunClear, Destroy, Lease,
       NoLease, Holds
  <2>4. ASSUME NEW d \in Conns, Settle(d) \/ ClearFails(d) PROVE ~Holds(c)'
    BY SMTT(30), <1>1, <2>4 DEF Inductive, Types, LoginTypes, Settle, ClearFails, Destroy, redis, conn, Holds
  <2>5. CASE Expire
    BY <1>1, <2>5, SessionConstants DEF Expire, conn, Lease, NoLease, Holds
  <2>6. CASE UNCHANGED <<lease, mine>>
    BY <1>1, <2>6 DEF Holds
  <2>7. ASSUME NEW d \in Conns, LoginStep(d) PROVE ~Holds(c)'
    BY <2>1, <2>2, <2>6, <2>7
       DEF LoginStep, Login, CheckRefused, CheckPassed, ClosePrevious, RunRefresh, Refreshing, Refreshed,
           LoginFails, redis, conn
  <2>8. ASSUME NEW d \in Conns, ForwardStep(d) PROVE ~Holds(c)'
    BY <2>6, <2>8
       DEF ForwardStep, Forward, RunForwardRefresh, Refreshing, ForwardRefreshed, RemoteCheck, RemoteExecute,
           RemoteResult, Cancelled, ForwardFails, redis, conn
  <2>9. ASSUME NEW d \in Conns, EndStep(d) \/ Elapse(d) PROVE ~Holds(c)'
    BY <2>3, <2>4, <2>6, <2>9 DEF EndStep, Drop, LeaveLoop, Elapse, redis
  <2>10. ASSUME NEW g \in Gateways, StopGateway(g) PROVE ~Holds(c)'
    BY <2>6, <2>10 DEF StopGateway, redis
  <2>11. CASE LookupMembers \/ LookupLease \/ LookupRemove \/ ListExpires \/ UNCHANGED vars
    BY <2>6, <2>11 DEF LookupMembers, LookupLease, LookupRemove, ListExpires, vars, redis, conn
  <2> QED BY <1>1, <2>5, <2>7, <2>8, <2>9, <2>10, <2>11 DEF Next
<1>2. Inductive /\ [Next]_vars => [\A c \in Conns : mine[c] > 0 /\ ~Holds(c) => ~Holds(c)']_vars
  BY <1>1
<1> QED BY <1>2, InductiveAlways, PTL DEF SafeSpec, NoRevival

-----------------------------------------------------------------------------
\* The generations that a has, or is about to read from the reply to its bind.
Generations(a) ==
    {n \in {mine[a], reply[a].granted} : n # 0 /\ (n = mine[a] \/ stage[a] = "bound")}

\* A login in the same process has replaced the lease of a and has yet to close a.
Replacing(a, n) ==
    \E x \in Conns : /\ stage[x] \in {"bound", "previous"} /\ Home[x] = Home[a]
                     /\ reply[x].previous = Lease(a, n)

\* A connection has its lease, or somebody saw to its end, or nobody could.
ReplacedInv ==
    \A a \in Conns : \A n \in Generations(a) :
        a \in closed \cup lapsed \/ lease = Lease(a, n) \/ Replacing(a, n)

\* What a lease says.
LEMMA LeaseIs ==
    ASSUME NEW a, NEW n
    PROVE  Lease(a, n).conn = a /\ Lease(a, n).gen = n /\ (n # 0 => Lease(a, n) # NoLease)
BY SMTT(30) DEF Lease, NoLease

\* A step that touches neither the lease, nor a generation, nor a bind under way.
LEMMA ReplacedStays ==
    ASSUME ReplacedInv, UNCHANGED <<lease, mine>>, closed \subseteq closed', lapsed \subseteq lapsed',
           \A d \in Conns : stage'[d] = "bound" => stage[d] = "bound",
           \A d \in Conns : stage[d] \in {"bound", "previous"} => stage'[d] = stage[d] /\ reply'[d] = reply[d]
    PROVE  ReplacedInv'
<1> SUFFICES ASSUME NEW a \in Conns, NEW n \in Generations(a)'
             PROVE  a \in closed' \cup lapsed' \/ lease' = Lease(a, n) \/ Replacing(a, n)'
  BY DEF ReplacedInv, Lease
<1>1. n \in Generations(a)
  BY DEF Generations
<1>2. Replacing(a, n) => Replacing(a, n)'
  BY DEF Replacing, Lease
<1> QED BY <1>1, <1>2 DEF ReplacedInv

\* Connection c goes from one stage to another, neither of them of a bind.
LEMMA ReplacedGoes ==
    ASSUME Inductive, ReplacedInv, NEW c \in Conns, stage[c] \notin {"bound", "previous"},
           NEW s, s # "bound", Goto(c, s), UNCHANGED <<lease, mine>>,
           reply' = reply \/ \E r : reply' = [reply EXCEPT ![c] = r],
           closed \subseteq closed', lapsed \subseteq lapsed'
    PROVE  ReplacedInv'
<1>1. stage \in [Conns -> Stages] /\ reply \in [Conns -> Replies]
  BY DEF Inductive, Types, LoginTypes
<1>2. \A d \in Conns : stage'[d] = "bound" => stage[d] = "bound"
  BY <1>1 DEF Goto
<1>3. \A d \in Conns : stage[d] \in {"bound", "previous"} => stage'[d] = stage[d] /\ reply'[d] = reply[d]
  BY <1>1 DEF Goto
<1> QED BY <1>2, <1>3, ReplacedStays

\* The bind script: who had the lease is replaced by c, or by another process.
LEMMA ReplacedByBind ==
    ASSUME Inductive, ReplacedInv, NEW c \in Conns, RunBind(c)
    PROVE  ReplacedInv'
<1>1. /\ stage[c] = "bind" /\ mine[c] = 0 /\ stage \in [Conns -> Stages] /\ reply \in [Conns -> Replies]
      /\ lease \in Leases /\ (lease = NoLease \/ lease.conn \in Conns)
      /\ UNCHANGED <<mine, closed>> /\ stage' = [stage EXCEPT ![c] = "bound"]
      /\ lease' = Lease(c, generation + 1)
      /\ lapsed' = IF lease # NoLease /\ Home[lease.conn] # Home[c] THEN lapsed \cup {lease.conn} ELSE lapsed
  BY DEF Inductive, Types, LoginTypes, Current, LoginSound, Bindings, RunBind, Goto, conn
<1>2. reply'[c].granted = generation + 1 /\ reply'[c].previous = lease
  BY <1>1 DEF RunBind, Replies
<1>3. \A d \in Conns \ {c} : stage'[d] = stage[d] /\ reply'[d] = reply[d] /\ Generations(d)' = Generations(d)
  BY <1>1 DEF RunBind, Generations
<1>4. stage'[c] = "bound"
  BY <1>1
<1> SUFFICES ASSUME NEW a \in Conns, NEW n \in Generations(a)'
             PROVE  a \in closed' \cup lapsed' \/ lease' = Lease(a, n) \/ Replacing(a, n)'
  BY DEF ReplacedInv, Lease
<1>5. CASE a = c
  BY <1>1, <1>2, <1>5 DEF Generations
<1>6. CASE a # c
  <2>1. n \in Generations(a) /\ n # 0
    BY <1>3, <1>6 DEF Generations
  <2>2. Replacing(a, n) => Replacing(a, n)'
    BY <1>1, <1>3 DEF Replacing, Lease
  <2>3. CASE lease = Lease(a, n)
    <3>1. lease.conn = a
      BY <2>3, LeaseIs
    <3>2. lease # NoLease
      BY <2>1, <2>3, LeaseIs
    <3>3. CASE Home[a] = Home[c]
      BY <1>2, <1>4, <2>3, <3>3 DEF Replacing, Lease
    <3>4. CASE Home[a] # Home[c]
      BY <1>1, <3>1, <3>2, <3>4
    <3> QED BY <3>3, <3>4
  <2> QED BY <1>1, <2>1, <2>2, <2>3 DEF ReplacedInv
<1> QED BY <1>5, <1>6

\* login() has the reply and keeps its generation; it forgets whom it replaced
\* only if that is not a connection of its own process.
LEMMA ReplacedKept ==
    ASSUME Inductive, ReplacedInv, NEW c \in Conns, Bind(c)
    PROVE  ReplacedInv'
<1>1. /\ stage[c] = "bound" /\ mine[c] = 0 /\ mine \in [Conns -> Nat]
      /\ stage \in [Conns -> Stages] /\ reply \in [Conns -> Replies]
      /\ UNCHANGED <<lease, closed, lapsed>> /\ mine' = [mine EXCEPT ![c] = reply[c].granted]
  BY DEF Inductive, Types, LoginTypes, LoginSound, Bindings, Bind, redis, history
<1>2. \A d \in Conns \ {c} : stage'[d] = stage[d] /\ reply'[d] = reply[d] /\ mine'[d] = mine[d]
  BY <1>1 DEF Bind, Continue, Goto
<1>3. stage'[c] # "bound" /\ mine'[c] = reply[c].granted
  BY <1>1 DEF Bind, Continue, Goto
<1>4. ASSUME NEW a \in Conns, NEW n, n # 0, Replacing(a, n) PROVE Replacing(a, n)'
  <2>1. PICK x \in Conns : /\ stage[x] \in {"bound", "previous"} /\ Home[x] = Home[a]
                           /\ reply[x].previous = Lease(a, n)
    BY <1>4 DEF Replacing
  <2>2. CASE x = c
    <3>1. Lease(a, n) # NoLease /\ Lease(a, n).conn = a
      BY <1>4, LeaseIs
    <3>2. ReplacedHere(c)
      BY <2>1, <2>2, <3>1 DEF ReplacedHere
    <3>3. stage'[c] = "previous" /\ reply'[c] = reply[c]
      BY <1>1, <3>2 DEF Bind, Goto
    <3> QED BY <2>1, <2>2, <3>3 DEF Replacing, Lease
  <2>3. CASE x # c
    BY <1>2, <2>1, <2>3 DEF Replacing, Lease
  <2> QED BY <2>2, <2>3
<1> SUFFICES ASSUME NEW a \in Conns, NEW n \in Generations(a)'
             PROVE  a \in closed' \cup lapsed' \/ lease' = Lease(a, n) \/ Replacing(a, n)'
  BY DEF ReplacedInv, Lease
<1>5. n \in Generations(a) /\ n # 0
  <2>1. CASE a = c
    BY <1>1, <1>3, <2>1 DEF Generations
  <2>2. CASE a # c
    BY <1>2, <2>2 DEF Generations
  <2> QED BY <2>1, <2>2
<1> QED BY <1>1, <1>4, <1>5 DEF ReplacedInv

\* The connection that was replaced is closed: it is still there.
LEMMA ReplacedClosed ==
    ASSUME Inductive, ReplacedInv, NEW c \in Conns, ClosePrevious(c)
    PROVE  ReplacedInv'
<1>1. /\ stage[c] = "previous" /\ stage \in [Conns -> Stages] /\ reply \in [Conns -> Replies]
      /\ UNCHANGED <<lease, lapsed, mine>>
      /\ closed' = closed \cup {d \in {reply[c].previous.conn} : stage[d] # "gone"}
  BY DEF Inductive, Types, LoginTypes, ClosePrevious, Close, redis, history
<1>2. \A d \in Conns \ {c} : stage'[d] = stage[d] /\ reply'[d] = reply[d]
  BY <1>1 DEF ClosePrevious, Continue, Goto
<1>3. stage'[c] # "bound"
  BY <1>1 DEF ClosePrevious, Continue, Goto
<1> SUFFICES ASSUME NEW a \in Conns, NEW n \in Generations(a)'
             PROVE  a \in closed' \cup lapsed' \/ lease' = Lease(a, n) \/ Replacing(a, n)'
  BY DEF ReplacedInv, Lease
<1>4. n \in Generations(a) /\ n # 0
  BY <1>1, <1>2, <1>3 DEF Generations
<1>5. stage[a] # "gone"
  BY <1>4 DEF Generations, Inductive, LoginSound
<1>6. CASE Replacing(a, n)
  <2>1. PICK x \in Conns : /\ stage[x] \in {"bound", "previous"} /\ Home[x] = Home[a]
                           /\ reply[x].previous = Lease(a, n)
    BY <1>6 DEF Replacing
  <2>2. CASE x = c
    <3>1. reply[c].previous.conn = a
      BY <2>1, <2>2, LeaseIs
    <3> QED BY <1>1, <1>5, <3>1
  <2>3. CASE x # c
    BY <1>2, <2>1, <2>3 DEF Replacing, Lease
  <2> QED BY <2>2, <2>3
<1> QED BY <1>1, <1>4, <1>6 DEF ReplacedInv

\* A call of login() fails: nobody is left to close the one it replaced.
LEMMA ReplacedForgotten ==
    ASSUME Inductive, ReplacedInv, NEW c \in Conns, LoginFails(c)
    PROVE  ReplacedInv'
<1>1. /\ stage[c] # "previous" /\ stage \in [Conns -> Stages] /\ reply \in [Conns -> Replies]
      /\ UNCHANGED <<lease, closed, mine>> /\ stage' = [stage EXCEPT ![c] = "idle"]
      /\ lapsed' = IF reply[c].previous # NoLease THEN lapsed \cup {reply[c].previous.conn} ELSE lapsed
      /\ reply' = [reply EXCEPT ![c] = NoReply]
  BY DEF Inductive, Types, LoginTypes, LoginFails, Goto, redis, conn
<1>2. \A d \in Conns \ {c} : stage'[d] = stage[d] /\ reply'[d] = reply[d]
  BY <1>1
<1>3. stage'[c] = "idle"
  BY <1>1
<1> SUFFICES ASSUME NEW a \in Conns, NEW n \in Generations(a)'
             PROVE  a \in closed' \cup lapsed' \/ lease' = Lease(a, n) \/ Replacing(a, n)'
  BY DEF ReplacedInv, Lease
<1>4. n \in Generations(a) /\ n # 0
  BY <1>1, <1>2, <1>3 DEF Generations
<1>5. CASE Replacing(a, n)
  <2>1. PICK x \in Conns : /\ stage[x] \in {"bound", "previous"} /\ Home[x] = Home[a]
                           /\ reply[x].previous = Lease(a, n)
    BY <1>5 DEF Replacing
  <2>2. CASE x = c
    <3>1. Lease(a, n).conn = a /\ Lease(a, n) # NoLease
      BY <1>4, LeaseIs
    <3> QED BY <1>1, <2>1, <2>2, <3>1
  <2>3. CASE x # c
    BY <1>2, <2>1, <2>3 DEF Replacing, Lease
  <2> QED BY <2>2, <2>3
<1> QED BY <1>1, <1>4, <1>5 DEF ReplacedInv

\* run() ends: the connection has no generation any more.
LEMMA ReplacedGone ==
    ASSUME Inductive, ReplacedInv, NEW c \in Conns, stage[c] \in {"closing", "clear"}, Destroy(c),
           UNCHANGED reply, lease' = lease \/ Holds(c)
    PROVE  ReplacedInv'
<1>1. /\ stage \in [Conns -> Stages] /\ mine \in [Conns -> Nat]
      /\ UNCHANGED <<closed, reply>> /\ stage' = [stage EXCEPT ![c] = "gone"]
      /\ mine' = [mine EXCEPT ![c] = 0] /\ lapsed' = lapsed \ {c}
  BY DEF Inductive, Types, LoginTypes, Destroy, Goto
<1>2. \A d \in Conns \ {c} : stage'[d] = stage[d] /\ mine'[d] = mine[d] /\ Generations(d)' = Generations(d)
  BY <1>1 DEF Generations
<1>3. stage'[c] = "gone" /\ mine'[c] = 0
  BY <1>1
<1> SUFFICES ASSUME NEW a \in Conns, NEW n \in Generations(a)'
             PROVE  a \in closed' \cup lapsed' \/ lease' = Lease(a, n) \/ Replacing(a, n)'
  BY DEF ReplacedInv, Lease
<1>4. a # c
  BY <1>3 DEF Generations
<1>5. n \in Generations(a)
  BY <1>2, <1>4
<1>6. Replacing(a, n) => Replacing(a, n)'
  BY <1>1, <1>2 DEF Replacing, Lease
<1>7. lease = Lease(a, n) => lease' = lease
  <2>1. Lease(a, n).conn = a /\ Lease(c, mine[c]).conn = c
    BY LeaseIs
  <2> QED BY <1>4, <2>1 DEF Holds
<1> QED BY <1>1, <1>4, <1>5, <1>6, <1>7 DEF ReplacedInv

\* The TTL of the lease runs out.
LEMMA ReplacedExpires ==
    ASSUME Inductive, ReplacedInv, Expire
    PROVE  ReplacedInv'
<1>1. UNCHANGED <<stage, reply, mine, closed>> /\ lapsed' = lapsed \cup {lease.conn}
  BY DEF Expire, conn
<1> SUFFICES ASSUME NEW a \in Conns, NEW n \in Generations(a)'
             PROVE  a \in closed' \cup lapsed' \/ lease' = Lease(a, n) \/ Replacing(a, n)'
  BY DEF ReplacedInv, Lease
<1>2. n \in Generations(a)
  BY <1>1 DEF Generations
<1>3. Replacing(a, n) => Replacing(a, n)'
  BY <1>1 DEF Replacing, Lease
<1>4. lease = Lease(a, n) => a \in lapsed'
  BY <1>1, LeaseIs
<1> QED BY <1>1, <1>2, <1>3, <1>4 DEF ReplacedInv

\* The other steps of a connection.
LEMMA ReplacedLogin ==
    ASSUME Inductive, ReplacedInv, NEW c \in Conns,
           Login(c) \/ CheckRefused(c) \/ CheckPassed(c) \/ RunRefresh(c) \/ Refreshed(c)
    PROVE  ReplacedInv'
<1>1. stage \in [Conns -> Stages] /\ reply \in [Conns -> Replies]
  BY DEF Inductive, Types, LoginTypes
<1>2. CASE Login(c)
  BY <1>2, ReplacedGoes DEF Login, redis, conn, history
<1>3. CASE CheckRefused(c)
  BY <1>3, ReplacedGoes DEF CheckRefused, Checks, redis, conn, history
<1>4. CASE CheckPassed(c)
  <2>1. PICK s \in {"idle", "profile", "device", "bind"} : Goto(c, s)
    BY <1>4 DEF CheckPassed, Checks
  <2>2. stage[c] \notin {"bound", "previous"} /\ s # "bound"
    BY <1>4, <2>1 DEF CheckPassed, Checks
  <2> QED BY <1>4, <2>1, <2>2, ReplacedGoes DEF CheckPassed, redis
<1>5. CASE RunRefresh(c)
  <2>1. reply' = [reply EXCEPT ![c] = [reply[c] EXCEPT !.current = Holds(c)]]
    BY <1>1, <1>5 DEF RunRefresh
  <2> QED BY <1>5, <2>1, ReplacedGoes DEF RunRefresh, Refreshing, conn, history
<1>6. CASE Refreshed(c)
  BY <1>6, ReplacedGoes DEF Refreshed, Close, redis
<1> QED BY <1>2, <1>3, <1>4, <1>5, <1>6

\* The steps that leave logins alone.
LEMMA ReplacedElsewhere ==
    ASSUME ReplacedInv, UNCHANGED <<lease, mine, stage, reply>>,
           closed \subseteq closed', lapsed \subseteq lapsed'
    PROVE  ReplacedInv'
BY ReplacedStays

LEMMA ReplacedNext == Inductive /\ ReplacedInv /\ [Next]_vars => ReplacedInv'
<1> SUFFICES ASSUME Inductive, ReplacedInv, [Next]_vars PROVE ReplacedInv'
  OBVIOUS
<1>1. ASSUME NEW c \in Conns, LoginStep(c) PROVE ReplacedInv'
  BY <1>1, ReplacedLogin, ReplacedByBind, ReplacedKept, ReplacedClosed, ReplacedForgotten DEF LoginStep
<1>2. ASSUME NEW c \in Conns, ForwardStep(c) PROVE ReplacedInv'
  <2>1. UNCHANGED <<lease, mine, stage, reply>> /\ closed \subseteq closed' /\ lapsed \subseteq lapsed'
    BY <1>2 DEF ForwardStep, Forward, RunForwardRefresh, Refreshing, ForwardRefreshed, RemoteCheck,
       RemoteExecute, RemoteResult, Cancelled, ForwardFails, Close, redis, conn, history
  <2> QED BY <2>1, ReplacedElsewhere
<1>3. ASSUME NEW c \in Conns, Drop(c) \/ Elapse(c) PROVE ReplacedInv'
  BY <1>3, ReplacedElsewhere DEF Drop, Elapse, Close, redis, history
<1>4. ASSUME NEW c \in Conns, LeaveLoop(c) PROVE ReplacedInv'
  BY <1>4, ReplacedGoes DEF LeaveLoop, Close, redis, history
<1>5. ASSUME NEW c \in Conns, Settle(c) PROVE ReplacedInv'
  <2>1. stage[c] = "closing" /\ UNCHANGED <<lease, reply>>
    BY <1>5 DEF Settle, redis
  <2>2. CASE Destroy(c)
    BY <2>1, <2>2, ReplacedGone
  <2>3. CASE Goto(c, "clear") /\ UNCHANGED <<conn, history>>
    BY <2>1, <2>3, ReplacedGoes DEF conn, history
  <2> QED BY <1>5, <2>2, <2>3 DEF Settle
<1>6. ASSUME NEW c \in Conns, RunClear(c) \/ ClearFails(c) PROVE ReplacedInv'
  BY <1>6, ReplacedGone DEF RunClear, ClearFails, redis
<1>7. ASSUME NEW g \in Gateways, StopGateway(g) PROVE ReplacedInv'
  BY <1>7, ReplacedElsewhere DEF StopGateway, Close, redis, history
<1>8. CASE LookupMembers \/ LookupLease \/ LookupRemove \/ ListExpires \/ UNCHANGED vars
  BY <1>8, ReplacedElsewhere
     DEF LookupMembers, LookupLease, LookupRemove, ListExpires, vars, redis, conn, history
<1> QED BY <1>1, <1>2, <1>3, <1>4, <1>5, <1>6, <1>7, <1>8, ReplacedExpires DEF Next, EndStep

\* bind_session and close_previous leave no second session of a device open in
\* one Gateway process, however logins, lost replies and closing connections
\* interleave.
THEOREM OneSessionPerGatewayAlways == SafeSpec => []OneSessionPerGateway
<1>1. Init => ReplacedInv
  <2> SUFFICES ASSUME Init, NEW a \in Conns, NEW n \in Generations(a) PROVE lease = Lease(a, n)
    BY DEF ReplacedInv
  <2>1. stage[a] # "bound"
    BY DEF Init
  <2>2. mine[a] # 0 /\ n = mine[a]
    BY <2>1 DEF Generations
  <2>3. a = scenario.bound /\ a # NoConn /\ mine[a] = 1
    BY <2>2 DEF Init
  <2> QED BY <2>2, <2>3 DEF Init
<1>2. Inductive /\ ReplacedInv => OneSessionPerGateway
  <2> SUFFICES ASSUME Inductive, ReplacedInv, NEW a \in Conns, NEW b \in Conns,
                      mine[a] \in 1..(mine[b] - 1)
               PROVE  \/ a \in closed \cup lapsed
                      \/ \E x \in Conns : /\ stage[x] \in {"bound", "previous"}
                                          /\ reply[x].previous = Lease(a, mine[a])
    BY DEF OneSessionPerGateway
  <2>1. mine[a] # 0 /\ mine[a] # generation
    BY SMTT(30) DEF Inductive, Types, LoginTypes, LoginSound
  <2>2. mine[a] \in Generations(a)
    BY <2>1 DEF Generations
  <2>3. lease # Lease(a, mine[a])
    BY <2>1, LeaseIs DEF Inductive, Current
  <2> QED BY <2>2, <2>3 DEF ReplacedInv, Replacing
<1> QED BY <1>1, <1>2, InductiveAlways, ReplacedNext, PTL DEF SafeSpec
=============================================================================
