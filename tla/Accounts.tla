-------------------------------- MODULE Accounts --------------------------------
(***************************************************************************)
(* Accounts of the Gate: verification codes in Redis, sign-up, password    *)
(* reset and sign-in of gate/transaction/handlers.cc, with the operations  *)
(* of gate/io/driver.cc they are made of.  Every operation opens its own   *)
(* connection and is one script or one statement, so it is one step;       *)
(* requests interleave between any two.  Redis, the mail server and MySQL  *)
(* share no transaction.                                                   *)
(*                                                                         *)
(* A code is identified by the verification request that issued it; two    *)
(* random codes of one address are taken to differ.                        *)
(***************************************************************************)
EXTENDS Requests

CONSTANTS
    Emails,
    Names,        \* usernames
    MaxAttempts,  \* options.max_attempts
    Mailing,      \* the verification requests to a Gate with options.email_enabled
    Exposing,     \* and those to one with options.expose_code
    NoCode,
    Nobody

ASSUME AccountConstants ==
    /\ MaxAttempts \in Nat \ {0} /\ NoCode \notin Ops /\ Nobody \notin Ops
    /\ \A o \in Ops : /\ Op[o].kind \in {"verify", "signup", "reset"} => Op[o].email \in Emails
                      /\ Op[o].kind \in {"signup", "reset"} => Op[o].name \in Names

VARIABLES
    code,         \* Redis: the code stored for an address
    attempts,     \* Redis: the counter of wrong tries
    cooldown,     \* Redis: the addresses with a cooldown key
    known,        \* the codes clients were given, by mail or in an answer
    users,        \* MySQL: the sign-up that made the row of a name, or Nobody
    password,     \* MySQL: the request whose password the row has
    token,        \* Redis: the sign-in whose token is stored, per name
    fate,         \* history: what became of a code
    tries,        \* history: wrong tries while a code was stored
    buyers,       \* history: the requests that consumed a code
    before        \* history: what had succeeded when a request began

redis == <<code, attempts, cooldown, token>>
mysql == <<users, password>>
history == <<fate, tries, buyers, before>>
vars == <<requestVars, redis, known, mysql, history>>

Of(kind) == {o \in Ops : Op[o].kind = kind}
Codes == Of("verify")

Init ==
    /\ RequestInit
    /\ code = [e \in Emails |-> NoCode] /\ attempts = [e \in Emails |-> 0]
    /\ cooldown = {} /\ known = {}
    /\ users = [n \in Names |-> Nobody] /\ password = [n \in Names |-> Nobody]
    /\ token = [n \in Names |-> Nobody]
    /\ fate = [c \in Codes |-> "none"] /\ tries = [c \in Codes |-> 0]
    /\ buyers = [c \in Codes |-> {}]
    /\ before = [o \in Ops |-> {}]

Begins(o, kind) ==
    /\ Op[o].kind = kind /\ stage[o] = "new"
    /\ before' = [before EXCEPT ![o] = {p \in Ops : answer[p] = "success"}]

\* The code of e gives way to another value, for the given reason.
Ends(e, reason) ==
    fate' = [c \in Codes |-> IF c = code[e] THEN reason ELSE fate[c]]

\* A Gate that has no way to give a code to the client.
Unavailable(o) ==
    /\ Begins(o, "verify") /\ o \notin Mailing \cup Exposing
    /\ End(o, "failed")
    /\ UNCHANGED <<lost, faults, redis, known, mysql, fate, tries, buyers>>

\* The script of issue_verification_code: nothing during the cooldown, else a
\* new code with a fresh counter, which is then mailed or is in the answer.
Issue(o) ==
    LET e == Op[o].email IN
    /\ Begins(o, "verify") /\ o \in Mailing \cup Exposing
    /\ IF e \in cooldown
       THEN /\ \/ o \in Exposing /\ Goto(o, "get") /\ UNCHANGED answer
               \/ o \notin Exposing /\ End(o, "success")
            /\ UNCHANGED <<code, attempts, cooldown, known, fate>>
       ELSE /\ code' = [code EXCEPT ![e] = o]
            /\ cooldown' = cooldown \cup {e}
            /\ attempts' = [attempts EXCEPT ![e] = 0]
            /\ fate' = [c \in Codes |-> IF c = o THEN "live" ELSE IF c = code[e] THEN "replaced" ELSE fate[c]]
            /\ \/ o \in Mailing /\ Goto(o, "mail") /\ UNCHANGED <<answer, known>>
               \/ o \notin Mailing /\ End(o, "success") /\ known' = known \cup ({o} \ lost)
    /\ UNCHANGED <<lost, faults, token, mysql, tries, buyers>>

\* get_verification_code: the answer holds what is stored by now, if anything.
GetCode(o) ==
    /\ stage[o] = "get"
    /\ known' = known \cup ({code[Op[o].email]} \ {NoCode}) /\ End(o, "success")
    /\ UNCHANGED <<lost, faults, redis, mysql, history>>

\* send_verification_email returns.
Mail(o) ==
    /\ stage[o] = "mail"
    /\ known' = known \cup {o} /\ End(o, "success")
    /\ UNCHANGED <<lost, faults, redis, mysql, history>>

\* It fails, which does not prove that the mail was not delivered: the handler
\* goes on to take its code back.
MailFails(o) ==
    /\ stage[o] = "mail" /\ faults < MaxFaults /\ faults' = faults + 1
    /\ known' \in {known, known \cup {o}}
    /\ Goto(o, "clear")
    /\ UNCHANGED <<lost, answer, redis, mysql, history>>

\* As it would be if the script did not compare.
ClearAny(o) ==
    LET e == Op[o].email IN
    /\ stage[o] = "clear"
    /\ code' = [code EXCEPT ![e] = NoCode]
    /\ attempts' = [attempts EXCEPT ![e] = 0]
    /\ cooldown' = cooldown \ {e}
    /\ Ends(e, "cleared")
    /\ End(o, "failed")
    /\ UNCHANGED <<lost, faults, token, known, mysql, tries, buyers, before>>

\* The script of clear_verification_code, for a code that is still its own; the
\* failure of the mail is the answer.
Clear(o) ==
    LET e == Op[o].email IN
    /\ stage[o] = "clear"
    /\ IF code[e] = o
       THEN /\ code' = [code EXCEPT ![e] = NoCode]
            /\ attempts' = [attempts EXCEPT ![e] = 0]
            /\ cooldown' = cooldown \ {e}
            /\ Ends(e, "cleared")
       ELSE UNCHANGED <<code, attempts, cooldown, fate>>
    /\ End(o, "failed")
    /\ UNCHANGED <<lost, faults, token, known, mysql, tries, buyers, before>>

\* SETEX: keys expire.  The counter is given the remaining seconds of its code,
\* so it goes at about the same time, before or after it.
ExpireCode(e) ==
    /\ code[e] # NoCode
    /\ code' = [code EXCEPT ![e] = NoCode] /\ Ends(e, "expired")
    /\ UNCHANGED <<requestVars, attempts, cooldown, token, known, mysql, tries, buyers, before>>

ExpireAttempts(e) ==
    /\ attempts[e] # 0
    /\ attempts' = [attempts EXCEPT ![e] = 0]
    /\ UNCHANGED <<requestVars, code, cooldown, token, known, mysql, history>>

ExpireCooldown(e) ==
    /\ e \in cooldown /\ cooldown' = cooldown \ {e}
    /\ UNCHANGED <<requestVars, code, attempts, token, known, mysql, history>>

\* What a client may enter: a code it was given, or something else.
Entered(e) == {c \in known : Op[c].email = e} \cup {NoCode}

\* As it would be if the script did not delete the code it accepted.
AcceptKeeping(o, given) ==
    LET e == Op[o].email IN
    /\ code[e] # NoCode /\ code[e] = given
    /\ buyers' = [buyers EXCEPT ![given] = @ \cup {o}]
    /\ Goto(o, IF Op[o].kind = "signup" THEN "id" ELSE "change")
    /\ UNCHANGED <<code, attempts, cooldown, fate, tries, answer>>

\* The script of consume_verification_code: the code is right and is deleted
\* with its counter and the cooldown,
Accept(o, given) ==
    LET e == Op[o].email IN
    /\ code[e] # NoCode /\ code[e] = given
    /\ code' = [code EXCEPT ![e] = NoCode]
    /\ attempts' = [attempts EXCEPT ![e] = 0]
    /\ cooldown' = cooldown \ {e}
    /\ Ends(e, "used")
    /\ buyers' = [buyers EXCEPT ![given] = @ \cup {o}]
    /\ Goto(o, IF Op[o].kind = "signup" THEN "id" ELSE "change")
    /\ UNCHANGED <<tries, answer>>

\* or it is wrong and is deleted at the last of its tries, without the cooldown,
Miss(o, given) ==
    LET e == Op[o].email IN
    /\ code[e] # NoCode /\ code[e] # given
    /\ tries' = [tries EXCEPT ![code[e]] = @ + 1]
    /\ IF attempts[e] + 1 >= MaxAttempts
       THEN /\ code' = [code EXCEPT ![e] = NoCode]
            /\ attempts' = [attempts EXCEPT ![e] = 0]
            /\ Ends(e, "exhausted")
       ELSE /\ attempts' = [attempts EXCEPT ![e] = @ + 1]
            /\ UNCHANGED <<code, fate>>
    /\ End(o, "refused")
    /\ UNCHANGED <<cooldown, buyers>>

\* or there is none.
Missing(o) ==
    /\ code[Op[o].email] = NoCode /\ End(o, "refused")
    /\ UNCHANGED <<code, attempts, cooldown, fate, tries, buyers>>

Consume(o) ==
    /\ stage[o] = "consume"
    /\ \/ \E given \in Entered(Op[o].email) : Accept(o, given) \/ Miss(o, given)
       \/ Missing(o)
    /\ UNCHANGED <<lost, faults, token, known, mysql, before>>

Taken(n, e) == {m \in Names : users[m] # Nobody /\ (m = n \/ Op[users[m]].email = e)}

\* sign_up: user_exists, which reads no lock; ...
SignUp(o) ==
    /\ Begins(o, "signup")
    /\ IF Taken(Op[o].name, Op[o].email) # {}
       THEN End(o, "refused")
       ELSE Goto(o, "consume") /\ UNCHANGED answer
    /\ UNCHANGED <<lost, faults, redis, known, mysql, fate, tries, buyers>>

\* generate_user_id: a call of its own.
GenerateUserId(o) ==
    /\ stage[o] = "id" /\ Goto(o, "change")
    /\ UNCHANGED <<lost, answer, faults, redis, known, mysql, history>>

\* As it would be if the unique keys of the table were only the user's id.
RegisterUnchecked(o) ==
    LET n == Op[o].name IN
    /\ Op[o].kind = "signup" /\ stage[o] = "change"
    /\ users' = [users EXCEPT ![n] = o] /\ password' = [password EXCEPT ![n] = o]
    /\ End(o, "success")
    /\ UNCHANGED <<lost, faults, redis, known, history>>

\* register_user: the unique keys on name and address decide.
Register(o) ==
    LET n == Op[o].name IN
    /\ Op[o].kind = "signup" /\ stage[o] = "change"
    /\ IF Taken(n, Op[o].email) # {}
       THEN End(o, "refused") /\ UNCHANGED mysql
       ELSE /\ users' = [users EXCEPT ![n] = o] /\ password' = [password EXCEPT ![n] = o]
            /\ End(o, "success")
    /\ UNCHANGED <<lost, faults, redis, known, history>>

\* find_user: the row of a name, if there is one.
Found(n) == users[n] # Nobody

\* reset_password: find_user and the address on record.
Reset(o) ==
    LET n == Op[o].name IN
    /\ Begins(o, "reset")
    /\ IF ~ Found(n) \/ Op[users[n]].email # Op[o].email
       THEN End(o, "refused")
       ELSE Goto(o, "consume") /\ UNCHANGED answer
    /\ UNCHANGED <<lost, faults, redis, known, mysql, fate, tries, buyers>>

\* As it would be if the UPDATE matched no row.
UpdateNothing(o) ==
    /\ Op[o].kind = "reset" /\ stage[o] = "change"
    /\ End(o, "success")
    /\ UNCHANGED <<lost, faults, redis, known, mysql, history>>

\* update_password by the uid that find_user read.
UpdatePassword(o) ==
    /\ Op[o].kind = "reset" /\ stage[o] = "change"
    /\ password' = [password EXCEPT ![Op[o].name] = o]
    /\ End(o, "success")
    /\ UNCHANGED <<lost, faults, redis, known, users, history>>

\* sign_in: find_user and the comparison with the password of Op[o].with.
SignIn(o) ==
    LET n == Op[o].name IN
    /\ Begins(o, "signin")
    /\ IF ~ Found(n) \/ password[n] # Op[o].with
       THEN End(o, "refused")
       ELSE Goto(o, "route") /\ UNCHANGED answer
    /\ UNCHANGED <<lost, faults, redis, known, mysql, fate, tries, buyers>>

\* pick_gateway and has_user_info, which only read.
PickGateway(o) ==
    /\ stage[o] = "route" /\ Goto(o, "token")
    /\ UNCHANGED <<lost, answer, faults, redis, known, mysql, history>>

\* set_chat_token: the new token takes the place of the one before.
SetChatToken(o) ==
    /\ stage[o] = "token"
    /\ token' = [token EXCEPT ![Op[o].name] = o]
    /\ End(o, "success")
    /\ UNCHANGED <<lost, faults, code, attempts, cooldown, known, mysql, history>>

ExpireToken(n) ==
    /\ token[n] # Nobody /\ token' = [token EXCEPT ![n] = Nobody]
    /\ UNCHANGED <<requestVars, code, attempts, cooldown, known, mysql, history>>

\* redis_command throws: the command may have been carried out.
RedisFails(o) ==
    /\ \/ stage[o] \in {"get", "clear", "consume", "id", "token"}
       \/ o \in Codes \cap (Mailing \cup Exposing) /\ stage[o] = "new"
    /\ GiveUp(o, {"get", "id"})
    /\ UNCHANGED <<redis, known, mysql, history>>

\* mysql_query throws, or State does not answer; a SELECT leaves nothing behind.
QueryFails(o) ==
    /\ stage[o] \in {"route", "change"} \/ (o \notin Codes /\ stage[o] = "new")
    /\ GiveUp(o, {"new", "route"})
    /\ UNCHANGED <<redis, known, mysql, history>>

Step(o) ==
    \/ Unavailable(o) \/ Issue(o) \/ GetCode(o) \/ Mail(o) \/ Clear(o)
    \/ SignUp(o) \/ Reset(o) \/ SignIn(o)
    \/ Consume(o) \/ GenerateUserId(o) \/ PickGateway(o)
    \/ Register(o) \/ UpdatePassword(o) \/ SetChatToken(o)

Settle(o) == Drop(o) /\ UNCHANGED <<redis, known, mysql, history>>

Next ==
    \/ \E o \in Ops : Step(o) \/ Settle(o) \/ MailFails(o) \/ RedisFails(o) \/ QueryFails(o)
    \/ \E e \in Emails : ExpireCode(e) \/ ExpireAttempts(e) \/ ExpireCooldown(e)
    \/ \E n \in Names : ExpireToken(n)

Spec == Init /\ [][Next]_vars

(* Properties *)

\* A code ends for a reason of its own: it is taken back only by the request
\* whose mail failed, not by one whose code it replaced, it is exhausted only
\* by MaxAttempts wrong tries of itself, not by those of the code before, and
\* it is replaced only by a later request of the same address.
CodeEndsOnItsOwn ==
    \A c \in Codes :
        /\ fate[c] = "cleared" => answer[c] = "failed"
        /\ fate[c] = "exhausted" => tries[c] >= MaxAttempts
        /\ fate[c] = "live" => code[Op[c].email] = c

\* Every account and every change of a password has a code of its address to
\* itself: no two requests, however they interleave and whatever replies are
\* lost, go through on the same code.
OneCodePerChange ==
    /\ \A c \in Codes : Cardinality(buyers[c]) <= 1
    /\ \A n \in Names : users[n] # Nobody =>
          \A o \in {users[n], password[n]} :
              \E c \in Codes : o \in buyers[c] /\ Op[c].email = Op[users[n]].email

\* The answer to a sign-up says whether it made the account, although the name
\* and the address were checked before the code was consumed: the one that
\* succeeds owns the row, the row's owner was not told that the user exists,
\* and no address has two rows.
SignUpsAgree ==
    /\ \A o \in Of("signup") : answer[o] = "success" => users[Op[o].name] = o
    /\ \A n \in Names : users[n] # Nobody => answer[users[n]] \in {"success", "failed"}
    /\ \A m, n \in Names :
          users[m] # Nobody /\ users[n] # Nobody /\ Op[users[m]].email = Op[users[n]].email => m = n

\* A password that a reset replaced is over: a sign-in that begins after the
\* reset succeeded and goes through uses the password of that reset, or of one
\* that had not succeeded yet when it began.
OldPasswordIsOver ==
    \A s \in Of("signin") : answer[s] = "success" =>
        \A r \in before[s] \cap Of("reset") :
            Op[r].name = Op[s].name => Op[s].with \in Of("reset") \ before[r]

=============================================================================
