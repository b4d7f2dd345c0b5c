---------------------------- MODULE AccountProofs ----------------------------
(***************************************************************************)
(* Theorems about Accounts, for every set of addresses, names and requests *)
(* and any number of failures: what Redis decided about a code and what    *)
(* MySQL decided about a row fit together, without a transaction around    *)
(* the two; a code ends for its own reasons, and a replaced password is    *)
(* over.                                                                   *)
(***************************************************************************)
EXTENDS Accounts, FiniteSetTheorems, TLAPS

\* Leaves that are not marked SMTT are for Zenon.
USE ZenonT(90)

Stages == {"new", "get", "mail", "clear", "consume", "id", "change", "route", "token", "done"}
Answers == {"none", "success", "refused", "failed"}

Tables ==
    /\ stage \in [Ops -> Stages] /\ answer \in [Ops -> Answers]
    /\ users \in [Names -> Ops \cup {Nobody}] /\ password \in [Names -> Ops \cup {Nobody}]
    /\ code \in [Emails -> Codes \cup {NoCode}] /\ buyers \in [Codes -> SUBSET Ops]

\* A code that is stored has been issued, for its own address, and was bought by
\* nobody; one that is not yet issued was bought by nobody either; and no code
\* has two buyers.
CodesSold ==
    /\ \A e \in Emails : code[e] # NoCode =>
          Op[code[e]].email = e /\ stage[code[e]] # "new" /\ buyers[code[e]] = {}
    /\ \A c \in Codes : stage[c] = "new" => buyers[c] = {}
    /\ \A c \in Codes : \A o, p \in buyers[c] : o = p

Bought(o) == \E c \in Codes : o \in buyers[c] /\ Op[c].email = Op[o].email

\* A reset has found the row of its name, with its own address.
Owned(o) == users[Op[o].name] # Nobody /\ Op[users[Op[o].name]].email = Op[o].email

\* What is known of a request that has come to stage s.
Fits(o, s) ==
    /\ s \in {"get", "mail", "clear"} => Op[o].kind = "verify"
    /\ s \in {"consume", "change"} => Op[o].kind \in {"signup", "reset"}
    /\ s = "id" => Op[o].kind = "signup"
    /\ s \in {"route", "token"} => Op[o].kind = "signin"
    /\ s \in {"id", "change"} => Bought(o)
    /\ s \in {"consume", "change"} /\ Op[o].kind = "reset" => Owned(o)

Progress == \A o \in Ops : Fits(o, stage[o])

\* A request that was given up was told so; one that made a row has ended.
Told ==
    /\ \A o \in Ops \cap lost : answer[o] = "failed"
    /\ \A n \in Names : users[n] # Nobody => stage[users[n]] = "done"

\* The second half of OneCodePerChange.
Paid ==
    \A n \in Names : users[n] # Nobody =>
        \A o \in {users[n], password[n]} :
            \E c \in Codes : o \in buyers[c] /\ Op[c].email = Op[users[n]].email

Inductive == Tables /\ CodesSold /\ Progress /\ Told /\ Paid /\ SignUpsAgree

-----------------------------------------------------------------------------
\* A step of one request that leaves MySQL alone keeps the invariant when it
\* fits the stage it goes to, tells nobody wrongly of a success, and treats the
\* codes as it should.
LEMMA Moves ==
    ASSUME Inductive, NEW o \in Ops, stage[o] # "done",
           NEW s \in Stages, stage' = [stage EXCEPT ![o] = s], Fits(o, s)',
           NEW a \in Answers, answer' \in {answer, [answer EXCEPT ![o] = a]},
           a = "success" => Op[o].kind # "signup",
           lost' \in {lost, lost \cup {o}}, o \in lost' => answer'[o] = "failed",
           UNCHANGED mysql,
           code' \in [Emails -> Codes \cup {NoCode}], buyers' \in [Codes -> SUBSET Ops],
           \A c \in Codes : buyers[c] \subseteq buyers'[c],
           CodesSold'
    PROVE  Inductive'
<1>1. users' = users /\ password' = password
  BY DEF mysql
<1>2. Tables'
  BY SMTT(30), <1>1 DEF Inductive, Tables
<1>3. \A p \in Ops \ {o} : stage'[p] = stage[p] /\ answer'[p] = answer[p]
  BY DEF Inductive, Tables
<1>4. \A n \in Names : users[n] # Nobody => users[n] \in Ops \ {o}
  BY DEF Inductive, Told, Tables
<1>5. Progress'
  <2> SUFFICES ASSUME NEW p \in Ops PROVE Fits(p, stage[p])'
    BY DEF Progress
  <2>1. CASE p = o
    <3>1. stage'[o] = s
      BY DEF Inductive, Tables
    <3> QED BY <2>1, <3>1 DEF Fits, Bought, Owned
  <2>2. CASE p # o
    <3>1. Fits(p, stage[p]) /\ stage'[p] = stage[p]
      BY <2>2, <1>3 DEF Inductive, Progress
    <3>2. (Bought(p) => Bought(p)') /\ (Owned(p) => Owned(p)')
      BY <1>1 DEF Bought, Owned
    <3> QED BY <3>1, <3>2 DEF Fits
  <2> QED BY <2>1, <2>2
<1>6. Told'
  BY <1>1, <1>3, <1>4 DEF Inductive, Told
<1>7. Paid'
  BY SMTT(30), <1>1 DEF Inductive, Paid
<1>8. SignUpsAgree'
  <2>1. ASSUME NEW p \in Of("signup"), answer'[p] = "success" PROVE answer[p] = "success"
    BY <2>1, <1>3 DEF Of, Inductive, Tables
  <2>2. \A n \in Names : users[n] # Nobody => answer'[users[n]] = answer[users[n]]
    BY <1>3, <1>4
  <2> QED BY <1>1, <2>1, <2>2 DEF Inductive, SignUpsAgree
<1> QED BY <1>2, <1>5, <1>6, <1>7, <1>8 DEF Inductive

\* Codes that stay, go, or are taken by nobody are still sold as they should be.
LEMMA CodesStay ==
    ASSUME Inductive, UNCHANGED buyers, code' \in [Emails -> Codes \cup {NoCode}],
           \A e \in Emails : code'[e] \in {code[e], NoCode},
           \A c \in Codes : stage'[c] = "new" => stage[c] = "new"
    PROVE  CodesSold'
<1>1. \A e \in Emails : code[e] # NoCode => code[e] \in Codes
  BY DEF Inductive, Tables
<1> QED BY SMTT(30), <1>1 DEF Inductive, CodesSold

\* Such a step, in the forms it takes in Requests.
LEMMA Goes ==
    ASSUME Inductive, NEW o \in Ops, stage[o] # "done",
           NEW s \in Stages, s # "new", Goto(o, s), Fits(o, s),
           NEW a \in Answers,
           UNCHANGED answer \/ answer' = IF o \in lost THEN answer ELSE [answer EXCEPT ![o] = a],
           a = "success" => Op[o].kind # "signup",
           UNCHANGED <<lost, mysql, buyers>>,
           code' \in [Emails -> Codes \cup {NoCode}],
           \A e \in Emails : code'[e] \in {code[e], NoCode}
    PROVE  Inductive'
<1>1. PICK r \in Stages : stage' = [stage EXCEPT ![o] = r] /\ (r = s \/ r = "done")
  BY DEF Goto, Stages
<1>2. \A c \in Codes : c \in Ops
  BY DEF Codes, Of
<1>3. \A c \in Codes : stage'[c] = "new" => stage[c] = "new"
  BY <1>1, <1>2 DEF Inductive, Tables
<1>4. CodesSold'
  BY <1>3, CodesStay
<1>5. Fits(o, r)'
  BY <1>1 DEF Fits, Bought, Owned, mysql
<1>6. o \in lost' => answer'[o] = "failed"
  BY DEF Inductive, Told
<1>7. answer' \in {answer, [answer EXCEPT ![o] = a]} /\ buyers' \in [Codes -> SUBSET Ops]
  BY DEF Inductive, Tables
<1> QED BY <1>1, <1>4, <1>5, <1>6, <1>7, Moves

\* The steps that leave MySQL and the codes alone, or take a code away: of a
\* verification, of a sign-in, the checks before a code is consumed, and the
\* end of a lost request.
LEMMA PlainSteps ==
    ASSUME Inductive, NEW o \in Ops,
           \/ Mail(o) \/ MailFails(o) \/ Clear(o) \/ SignUp(o) \/ Reset(o) \/ SignIn(o)
           \/ GenerateUserId(o) \/ PickGateway(o) \/ SetChatToken(o) \/ Settle(o)
           \/ Unavailable(o) \/ GetCode(o)
    PROVE  Inductive'
<1> USE DEF Stages, Answers
<1>1. Fits(o, stage[o]) /\ code \in [Emails -> Codes \cup {NoCode}]
  BY DEF Inductive, Progress, Tables
<1>2. CASE Mail(o)
  BY <1>1, <1>2, Goes DEF Mail, End, Fits, redis, history
<1>3. CASE MailFails(o)
  BY <1>1, <1>3, Goes DEF MailFails, Fits, redis, history
<1>4. CASE Clear(o)
  <2>1. /\ code' \in [Emails -> Codes \cup {NoCode}]
        /\ \A e \in Emails : code'[e] \in {code[e], NoCode}
    BY <1>1, <1>4 DEF Clear
  <2> QED BY <1>1, <1>4, <2>1, Goes DEF Clear, End, Fits
<1>5. CASE SignUp(o)
  BY <1>1, <1>5, Goes DEF SignUp, Begins, End, Fits, redis
<1>6. CASE Reset(o)
  BY <1>1, <1>6, Goes DEF Reset, Begins, End, Fits, Found, Owned, redis
<1>7. CASE SignIn(o)
  BY <1>1, <1>7, Goes DEF SignIn, Begins, End, Fits, redis
<1>8. CASE GenerateUserId(o)
  BY <1>1, <1>8, Goes DEF GenerateUserId, Fits, redis, history
<1>9. CASE PickGateway(o)
  BY <1>1, <1>9, Goes DEF PickGateway, Fits, redis, history
<1>10. CASE SetChatToken(o)
  BY <1>1, <1>10, Goes DEF SetChatToken, End, Fits, history
<1>11. CASE Settle(o)
  BY <1>1, <1>11, Goes DEF Settle, Drop, Goto, Fits, redis, history
<1>12. CASE Unavailable(o)
  BY <1>1, <1>12, Goes DEF Unavailable, Begins, End, Fits, redis
<1>13. CASE GetCode(o)
  BY <1>1, <1>13, Goes DEF GetCode, End, Fits, redis, history
<1> QED BY <1>2, <1>3, <1>4, <1>5, <1>6, <1>7, <1>8, <1>9, <1>10, <1>11, <1>12, <1>13

\* A failed call: the request is told so and stays where it is, or ends.
LEMMA FailedCalls ==
    ASSUME Inductive, NEW o \in Ops, RedisFails(o) \/ QueryFails(o)
    PROVE  Inductive'
<1>1. /\ UNCHANGED <<mysql, code, buyers>> /\ stage[o] # "done"
      /\ answer' = [answer EXCEPT ![o] = "failed"]
      /\ \/ stage' = [stage EXCEPT ![o] = "done"] /\ UNCHANGED lost
         \/ lost' = lost \cup {o} /\ UNCHANGED stage
  BY DEF RedisFails, QueryFails, GiveUp, redis, history
<1>2. PICK s \in Stages : stage' = [stage EXCEPT ![o] = s] /\ s \in {stage[o], "done"}
  BY SMTT(30), <1>1 DEF Inductive, Tables, Stages
<1>3. Fits(o, s)'
  <2>1. Fits(o, stage[o])
    BY DEF Inductive, Progress
  <2> QED BY <1>1, <1>2, <2>1 DEF Fits, Bought, Owned, mysql
<1>4. CodesSold'
  <2>1. \A c \in Codes : stage'[c] = "new" => stage[c] = "new"
    BY <1>2 DEF Inductive, Tables, Codes, Of
  <2> QED BY <1>1, <2>1, CodesStay DEF Inductive, Tables
<1>5. "failed" \in Answers /\ answer'[o] = "failed"
  BY <1>1 DEF Answers, Inductive, Tables
<1>6. code' \in [Emails -> Codes \cup {NoCode}] /\ buyers' \in [Codes -> SUBSET Ops]
  BY <1>1 DEF Inductive, Tables
<1> QED BY <1>1, <1>2, <1>3, <1>4, <1>5, <1>6, Moves

\* Keys that expire.
LEMMA Expiry ==
    ASSUME Inductive, UNCHANGED <<requestVars, mysql, buyers>>,
           code' \in [Emails -> Codes \cup {NoCode}],
           \A e \in Emails : code'[e] \in {code[e], NoCode}
    PROVE  Inductive'
<1>1. UNCHANGED <<stage, lost, answer, users, password, buyers>>
  BY DEF requestVars, mysql
<1>2. CodesSold'
  BY <1>1, CodesStay
<1>3. Tables'
  BY <1>1 DEF Inductive, Tables
<1>4. Progress'
  BY <1>1 DEF Inductive, Progress, Fits, Bought, Owned
<1>5. Told' /\ Paid' /\ SignUpsAgree'
  BY <1>1 DEF Inductive, Told, Paid, SignUpsAgree
<1> QED BY <1>2, <1>3, <1>4, <1>5 DEF Inductive

\* A new code is issued, or the cooldown stands (issue_verification_code).
LEMMA Issues ==
    ASSUME Inductive, NEW o \in Ops, Issue(o)
    PROVE  Inductive'
<1> DEFINE e == Op[o].email
<1>1. /\ Op[o].kind = "verify" /\ o \in Codes /\ e \in Emails /\ stage[o] = "new"
      /\ UNCHANGED <<lost, mysql, buyers>>
      /\ code \in [Emails -> Codes \cup {NoCode}]
  BY AccountConstants DEF Issue, Begins, Codes, Of, Inductive, Tables
<1>2. CASE e \in cooldown
  BY <1>1, <1>2, Goes DEF Issue, End, Fits, Stages, Answers
<1>3. CASE e \notin cooldown
  <2>1. /\ code' = [code EXCEPT ![e] = o]
        /\ \/ Goto(o, "mail") /\ UNCHANGED answer
           \/ Goto(o, "done") /\ answer' = IF o \in lost THEN answer ELSE [answer EXCEPT ![o] = "success"]
    BY <1>3 DEF Issue, End
  <2>2. PICK s \in Stages : stage' = [stage EXCEPT ![o] = s] /\ s \in {"mail", "done"}
    BY <2>1 DEF Goto, Stages
  <2>3. code' \in [Emails -> Codes \cup {NoCode}]
    BY <1>1, <2>1
  <2>4. CodesSold'
    <3>1. \A c \in Codes : stage'[c] = "new" => stage[c] = "new"
      BY <2>2 DEF Inductive, Tables, Codes, Of
    <3>2. stage'[o] # "new" /\ buyers[o] = {}
      BY <1>1, <2>2 DEF Inductive, Tables, CodesSold
    <3>3. ASSUME NEW d \in Emails, code'[d] # NoCode
          PROVE Op[code'[d]].email = d /\ stage'[code'[d]] # "new" /\ buyers[code'[d]] = {}
      <4>1. CASE d = e
        BY <1>1, <2>1, <3>2, <4>1
      <4>2. CASE d # e
        <5>1. code'[d] = code[d] /\ code[d] \in Codes
          BY <1>1, <2>1, <3>3, <4>2
        <5> QED BY <3>1, <3>3, <5>1 DEF Inductive, CodesSold
      <4> QED BY <4>1, <4>2
    <3> QED BY SMTT(30), <1>1, <3>1, <3>3 DEF Inductive, CodesSold
  <2>5. Fits(o, s)'
    BY <1>1, <2>2 DEF Fits
  <2>6. o \in lost' => answer'[o] = "failed"
    BY <1>1, <2>1 DEF Inductive, Told
  <2>7. /\ buyers' \in [Codes -> SUBSET Ops] /\ "success" \in Answers
        /\ answer' \in {answer, [answer EXCEPT ![o] = "success"]}
    BY <1>1, <2>1 DEF Inductive, Tables, Answers
  <2> QED BY <1>1, <2>1, <2>2, <2>3, <2>4, <2>5, <2>6, <2>7, Moves
<1> QED BY <1>2, <1>3

\* A code is bought, tried in vain, or not there (consume_verification_code).
LEMMA Consumes ==
    ASSUME Inductive, NEW o \in Ops, Consume(o)
    PROVE  Inductive'
<1> DEFINE e == Op[o].email
<1>1. /\ stage[o] = "consume" /\ Fits(o, "consume") /\ UNCHANGED <<lost, mysql>>
      /\ Op[o].kind \in {"signup", "reset"} /\ e \in Emails
      /\ code \in [Emails -> Codes \cup {NoCode}]
  BY AccountConstants DEF Consume, Inductive, Progress, Fits, Tables
<1>2. CASE Missing(o)
  BY <1>1, <1>2, Goes DEF Missing, End, Fits, Stages, Answers
<1>3. ASSUME NEW given, Miss(o, given) PROVE Inductive'
  <2>1. /\ code' \in [Emails -> Codes \cup {NoCode}]
        /\ \A d \in Emails : code'[d] \in {code[d], NoCode}
    BY <1>1, <1>3 DEF Miss
  <2> QED BY <1>1, <1>3, <2>1, Goes DEF Miss, End, Fits, Stages, Answers
<1>4. ASSUME NEW given, Accept(o, given) PROVE Inductive'
  <2>1. /\ code[e] = given /\ given \in Codes /\ given # NoCode
        /\ code' = [code EXCEPT ![e] = NoCode]
        /\ buyers' = [buyers EXCEPT ![given] = @ \cup {o}]
        /\ Goto(o, IF Op[o].kind = "signup" THEN "id" ELSE "change") /\ UNCHANGED answer
    BY <1>1, <1>4 DEF Accept
  <2>2. buyers \in [Codes -> SUBSET Ops] /\ buyers[given] = {} /\ Op[given].email = e /\ stage[given] # "new"
    BY <1>1, <2>1 DEF Inductive, Tables, CodesSold
  <2>3. /\ code' \in [Emails -> Codes \cup {NoCode}] /\ buyers' \in [Codes -> SUBSET Ops]
        /\ \A c \in Codes : buyers[c] \subseteq buyers'[c]
        /\ buyers'[given] = {o} /\ \A c \in Codes \ {given} : buyers'[c] = buyers[c]
    BY <1>1, <2>1, <2>2
  <2>4. PICK s \in Stages : /\ stage' = [stage EXCEPT ![o] = s]
                            /\ s = "done" \/ s = IF Op[o].kind = "signup" THEN "id" ELSE "change"
    BY <2>1 DEF Goto, Stages
  <2>5. Fits(o, s)'
    <3>1. Bought(o)'
      BY <2>1, <2>2, <2>3 DEF Bought
    <3>2. Op[o].kind = "reset" => Owned(o)'
      BY <1>1 DEF Fits, Owned, mysql
    <3> QED BY <1>1, <2>4, <3>1, <3>2 DEF Fits
  <2>6. \A c \in Codes : stage'[c] = "new" => stage[c] = "new" /\ c # given
    BY <2>2, <2>4, <1>1 DEF Inductive, Tables, Codes, Of
  <2>7. CodesSold'
    <3>1. ASSUME NEW d \in Emails, code'[d] # NoCode
          PROVE Op[code'[d]].email = d /\ stage'[code'[d]] # "new" /\ buyers'[code'[d]] = {}
      <4>1. d # e /\ code'[d] = code[d] /\ code[d] \in Codes
        BY <1>1, <2>1, <3>1
      <4>2. Op[code[d]].email = d /\ stage[code[d]] # "new" /\ buyers[code[d]] = {}
        BY <3>1, <4>1 DEF Inductive, CodesSold
      <4>3. code[d] # given
        BY <2>2, <4>1, <4>2
      <4> QED BY <2>3, <2>6, <4>1, <4>2, <4>3
    <3>2. \A c \in Codes : stage'[c] = "new" => buyers'[c] = {}
      BY <2>3, <2>6 DEF Inductive, CodesSold
    <3>3. ASSUME NEW c \in Codes PROVE \A p, q \in buyers'[c] : p = q
      BY SMTT(30), <2>3 DEF Inductive, CodesSold
    <3> QED BY <3>1, <3>2, <3>3 DEF CodesSold
  <2>8. o \in lost' => answer'[o] = "failed"
    BY <1>1, <2>1 DEF Inductive, Told
  <2>9. "none" \in Answers
    BY DEF Answers
  <2> QED BY <1>1, <2>1, <2>3, <2>4, <2>5, <2>7, <2>8, <2>9, Moves
<1> QED BY <1>2, <1>3, <1>4 DEF Consume

\* A request that writes to MySQL is over, and rows stay with who made them.
LEMMA Changes ==
    ASSUME Inductive, NEW o \in Ops, stage[o] = "change", End(o, "success"),
           UNCHANGED <<lost, code, buyers>>,
           users' \in [Names -> Ops \cup {Nobody}],
           \A n \in Names : users[n] # Nobody => users'[n] = users[n],
           \A n \in Names : users'[n] \in {users[n], o}
    PROVE  /\ stage' = [stage EXCEPT ![o] = "done"] /\ stage' \in [Ops -> Stages]
           /\ answer' \in [Ops -> Answers] /\ answer'[o] \in {"success", "failed"}
           /\ \A p \in Ops \ {o} : answer'[p] = answer[p]
           /\ CodesSold' /\ Progress' /\ Told'
<1>1. stage' = [stage EXCEPT ![o] = "done"] /\ stage' \in [Ops -> Stages]
  BY DEF End, Goto, Inductive, Tables, Stages
<1>2. answer' = IF o \in lost THEN answer ELSE [answer EXCEPT ![o] = "success"]
  BY DEF End
<1>3. /\ answer' \in [Ops -> Answers] /\ answer'[o] \in {"success", "failed"}
      /\ \A p \in Ops \ {o} : answer'[p] = answer[p]
  BY <1>2 DEF Inductive, Tables, Told, Answers
<1>4. CodesSold'
  <2>1. \A c \in Codes : stage'[c] = "new" => stage[c] = "new"
    BY <1>1 DEF Inductive, Tables, Codes, Of
  <2> QED BY <2>1, CodesStay DEF Inductive, Tables
<1>5. Progress'
  <2> SUFFICES ASSUME NEW p \in Ops PROVE Fits(p, stage[p])'
    BY DEF Progress
  <2>1. CASE p = o
    <3>1. stage'[p] = "done"
      BY <1>1, <2>1 DEF Inductive, Tables
    <3> QED BY <3>1 DEF Fits
  <2>2. CASE p # o
    <3>1. Fits(p, stage[p]) /\ stage'[p] = stage[p]
      BY <1>1, <2>2 DEF Inductive, Progress, Tables
    <3>2. Bought(p) => Bought(p)'
      BY DEF Bought
    <3>3. Op[p].kind = "reset" /\ Owned(p) => Owned(p)'
      BY AccountConstants DEF Owned
    <3> QED BY <3>1, <3>2, <3>3 DEF Fits
  <2> QED BY <2>1, <2>2
<1>6. Told'
  <2>1. \A p \in Ops \cap lost' : answer'[p] = "failed"
    BY SMTT(30), <1>2 DEF Inductive, Told
  <2>2. ASSUME NEW n \in Names, users'[n] # Nobody PROVE stage'[users'[n]] = "done"
    BY SMTT(30), <1>1, <2>2 DEF Inductive, Told, Tables
  <2> QED BY <2>1, <2>2 DEF Told
<1> QED BY <1>1, <1>3, <1>4, <1>5, <1>6

\* register_user.
LEMMA Registers ==
    ASSUME Inductive, NEW o \in Ops, Register(o)
    PROVE  Inductive'
<1> DEFINE n == Op[o].name
<1>1. /\ Op[o].kind = "signup" /\ stage[o] = "change" /\ Fits(o, "change")
      /\ UNCHANGED <<lost, code, buyers>> /\ n \in Names /\ o # Nobody
  BY AccountConstants DEF Register, Inductive, Progress, redis, history
<1>2. CASE Taken(n, Op[o].email) # {}
  BY <1>1, <1>2, Goes DEF Register, End, Fits, Stages, Answers, Inductive, Tables
<1>3. CASE Taken(n, Op[o].email) = {}
  <2>1. /\ users' = [users EXCEPT ![n] = o] /\ password' = [password EXCEPT ![n] = o]
        /\ End(o, "success")
    BY <1>3 DEF Register
  <2>2. users[n] = Nobody /\ \A m \in Names : users[m] # Nobody => Op[users[m]].email # Op[o].email
    BY <1>1, <1>3 DEF Taken
  <2>3. /\ users \in [Names -> Ops \cup {Nobody}] /\ password \in [Names -> Ops \cup {Nobody}]
        /\ users' \in [Names -> Ops \cup {Nobody}] /\ password' \in [Names -> Ops \cup {Nobody}]
        /\ users'[n] = o /\ password'[n] = o
        /\ \A m \in Names \ {n} : users'[m] = users[m] /\ password'[m] = password[m]
    BY <1>1, <2>1 DEF Inductive, Tables
  <2>4. /\ stage' \in [Ops -> Stages]
        /\ answer' \in [Ops -> Answers] /\ answer'[o] \in {"success", "failed"}
        /\ \A p \in Ops \ {o} : answer'[p] = answer[p]
        /\ CodesSold' /\ Progress' /\ Told'
    BY <1>1, <2>1, <2>2, <2>3, Changes
  <2>5. Tables'
    BY <1>1, <2>3, <2>4 DEF Inductive, Tables
  <2>6. Paid'
    <3> SUFFICES ASSUME NEW m \in Names, users'[m] # Nobody, NEW p \in {users'[m], password'[m]}
                 PROVE \E c \in Codes : p \in buyers[c] /\ Op[c].email = Op[users'[m]].email
      BY <1>1 DEF Paid
    <3>1. CASE m = n
      BY SMTT(30), <1>1, <2>3, <3>1 DEF Fits, Bought
    <3>2. CASE m # n
      BY SMTT(30), <2>3, <3>2 DEF Inductive, Paid
    <3> QED BY <3>1, <3>2
  <2>7. SignUpsAgree'
    <3>1. ASSUME NEW p \in Of("signup"), answer'[p] = "success" PROVE users'[Op[p].name] = p
      <4>1. p \in Ops /\ Op[p].name \in Names /\ p # Nobody
        BY AccountConstants DEF Of
      <4>2. CASE p = o
        BY <2>3, <4>2
      <4>3. CASE p # o
        <5>1. users[Op[p].name] = p
          BY <2>4, <3>1, <4>1, <4>3 DEF Inductive, SignUpsAgree
        <5> QED BY <2>2, <2>3, <4>1, <5>1
      <4> QED BY <4>2, <4>3
    <3>2. ASSUME NEW m \in Names, users'[m] # Nobody PROVE answer'[users'[m]] \in {"success", "failed"}
      <4>1. CASE m = n
        BY <2>3, <2>4, <4>1
      <4>2. CASE m # n
        <5>1. users'[m] = users[m] /\ users[m] \in Ops \ {o}
          BY <1>1, <2>3, <3>2, <4>2 DEF Inductive, Told
        <5> QED BY <2>4, <3>2, <5>1 DEF Inductive, SignUpsAgree
      <4> QED BY <4>1, <4>2
    <3>3. ASSUME NEW k \in Names, NEW m \in Names, users'[k] # Nobody, users'[m] # Nobody,
                 Op[users'[k]].email = Op[users'[m]].email
          PROVE  k = m
      BY SMTT(30), <2>2, <2>3, <3>3 DEF Inductive, SignUpsAgree
    <3> QED BY <3>1, <3>2, <3>3 DEF SignUpsAgree
  <2> QED BY <2>4, <2>5, <2>6, <2>7 DEF Inductive
<1> QED BY <1>2, <1>3

\* update_password.
LEMMA Updates ==
    ASSUME Inductive, NEW o \in Ops, UpdatePassword(o)
    PROVE  Inductive'
<1> DEFINE n == Op[o].name
<1>1. /\ Op[o].kind = "reset" /\ stage[o] = "change" /\ Fits(o, "change")
      /\ UNCHANGED <<lost, code, buyers, users>> /\ n \in Names
      /\ password' = [password EXCEPT ![n] = o] /\ End(o, "success")
  BY AccountConstants DEF UpdatePassword, Inductive, Progress, redis, history
<1>2. /\ users \in [Names -> Ops \cup {Nobody}] /\ password' \in [Names -> Ops \cup {Nobody}]
      /\ password'[n] = o /\ \A m \in Names \ {n} : password'[m] = password[m]
  BY <1>1 DEF Inductive, Tables
<1>3. /\ stage' \in [Ops -> Stages]
      /\ answer' \in [Ops -> Answers] /\ answer'[o] \in {"success", "failed"}
      /\ \A p \in Ops \ {o} : answer'[p] = answer[p]
      /\ CodesSold' /\ Progress' /\ Told'
  BY <1>1, <1>2, Changes
<1>4. Tables'
  BY <1>1, <1>2, <1>3 DEF Inductive, Tables
<1>5. Paid'
  <2> SUFFICES ASSUME NEW m \in Names, users[m] # Nobody, NEW p \in {users[m], password'[m]}
               PROVE \E c \in Codes : p \in buyers[c] /\ Op[c].email = Op[users[m]].email
    BY <1>1 DEF Paid
  <2>1. CASE m = n /\ p = o
    BY <1>1, <2>1 DEF Fits, Bought, Owned
  <2>2. CASE p \in {users[m], password[m]}
    BY <2>2 DEF Inductive, Paid
  <2> QED BY <1>2, <2>1, <2>2
<1>6. SignUpsAgree'
  <2>1. o \notin Of("signup")
    BY <1>1 DEF Of
  <2>2. \A m \in Names : users[m] # Nobody => users[m] \in Ops \ {o}
    BY SMTT(30), <1>1, <1>2 DEF Inductive, Told
  <2>3. \A p \in Of("signup") : answer'[p] = answer[p]
    BY <1>3, <2>1 DEF Of
  <2> QED BY <1>1, <1>3, <2>2, <2>3 DEF Inductive, SignUpsAgree
<1> QED BY <1>3, <1>4, <1>5, <1>6 DEF Inductive

-----------------------------------------------------------------------------
\* The first state: nothing is issued, bought or made.
LEMMA InitInductive == Init => Inductive
<1> SUFFICES ASSUME Init PROVE Inductive
  OBVIOUS
<1>1. /\ code = [e \in Emails |-> NoCode] /\ buyers = [c \in Codes |-> {}]
      /\ users = [n \in Names |-> Nobody] /\ password = [n \in Names |-> Nobody]
      /\ answer = [o \in Ops |-> "none"] /\ lost = {}
      /\ \A o \in Ops : stage[o] \in {"new", "done"}
      /\ stage \in [Ops -> Stages]
  BY DEF Init, RequestInit, Stages
<1>2. Tables
  BY <1>1 DEF Tables, Answers
<1>3. CodesSold
  BY <1>1 DEF CodesSold
<1>4. Progress
  BY <1>1 DEF Progress, Fits
<1>5. Told /\ Paid
  BY <1>1 DEF Told, Paid
<1>6. SignUpsAgree
  BY <1>1 DEF SignUpsAgree, Of
<1> QED BY <1>2, <1>3, <1>4, <1>5, <1>6 DEF Inductive

\* Every step keeps the invariant.
LEMMA NextInductive == Inductive /\ [Next]_vars => Inductive'
<1> SUFFICES ASSUME Inductive, [Next]_vars PROVE Inductive'
  OBVIOUS
<1>1. ASSUME NEW o \in Ops, Step(o) \/ Settle(o) \/ MailFails(o) PROVE Inductive'
  BY <1>1, Issues, Consumes, Registers, Updates, PlainSteps DEF Step
<1>2. ASSUME NEW o \in Ops, RedisFails(o) \/ QueryFails(o) PROVE Inductive'
  BY <1>2, FailedCalls
<1>3. code \in [Emails -> Codes \cup {NoCode}]
  BY DEF Inductive, Tables
<1>4. ASSUME NEW e \in Emails, ExpireCode(e) PROVE Inductive'
  <2>1. /\ code' \in [Emails -> Codes \cup {NoCode}]
        /\ \A d \in Emails : code'[d] \in {code[d], NoCode}
    BY <1>3, <1>4 DEF ExpireCode
  <2> QED BY <1>4, <2>1, Expiry DEF ExpireCode
<1>5. ASSUME NEW e \in Emails, ExpireAttempts(e) \/ ExpireCooldown(e) PROVE Inductive'
  BY <1>3, <1>5, Expiry DEF ExpireAttempts, ExpireCooldown, history
<1>6. ASSUME NEW n \in Names, ExpireToken(n) PROVE Inductive'
  BY <1>3, <1>6, Expiry DEF ExpireToken, history
<1>7. CASE UNCHANGED vars
  BY <1>3, <1>7, Expiry DEF vars, redis, history
<1> QED BY <1>1, <1>2, <1>4, <1>5, <1>6, <1>7 DEF Next

\* The invariant holds throughout.
LEMMA InductiveAlways == Spec => []Inductive
<1>1. Init => Inductive
  BY InitInductive
<1>2. Inductive /\ [Next]_vars => Inductive'
  BY NextInductive
<1> QED BY <1>1, <1>2, PTL DEF Spec

\* Every account and every change of a password has a code of its address to
\* itself, however the scripts of consume_verification_code and the statements
\* of register_user and update_password interleave and fail.
THEOREM OneCodePerChangeAlways == Spec => []OneCodePerChange
<1>1. Inductive => OneCodePerChange
  <2> SUFFICES ASSUME Inductive PROVE OneCodePerChange
    OBVIOUS
  <2>1. ASSUME NEW c \in Codes PROVE Cardinality(buyers[c]) <= 1
    <3>1. \A o, p \in buyers[c] : o = p
      BY DEF Inductive, CodesSold
    <3>2. CASE buyers[c] = {}
      BY SMTT(30), <3>2, FS_EmptySet
    <3>3. CASE buyers[c] # {}
      <4>1. PICK o : buyers[c] = {o}
        BY <3>1, <3>3
      <4> QED BY SMTT(30), <4>1, FS_Singleton
    <3> QED BY <3>2, <3>3
  <2> QED BY <2>1 DEF Inductive, Paid, OneCodePerChange
<1> QED BY <1>1, InductiveAlways, PTL

\* What a sign-up is told agrees with the row, although it looked for the name
\* and the address before its code was consumed: the unique keys decide.
THEOREM SignUpsAgreeAlways == Spec => []SignUpsAgree
<1>1. Inductive => SignUpsAgree
  BY DEF Inductive
<1> QED BY <1>1, InductiveAlways, PTL

-----------------------------------------------------------------------------
\* What became of a code.  The request of a code that was taken back has ended
\* and was told of the failure; a code in the store is as far as its counter,
\* at least; and a code is live only as long as it is in the store.
FateInv ==
    /\ attempts \in [Emails -> Nat] /\ tries \in [Codes -> Nat]
    /\ \A c \in Codes :
          /\ fate[c] = "cleared" => stage[c] = "done" /\ answer[c] = "failed"
          /\ fate[c] = "exhausted" => tries[c] >= MaxAttempts
          /\ fate[c] = "live" => code[Op[c].email] = c
    /\ \A e \in Emails : code[e] # NoCode => attempts[e] <= tries[code[e]]

\* A request that succeeded has ended, and what it found had succeeded.
Succeeded ==
    /\ \A o \in Ops : answer[o] = "success" => stage[o] = "done"
    /\ \A o \in Ops : \A p \in before[o] : p \in Ops /\ answer[p] = "success"

\* The password of n is one that r made, or a reset that r did not find done.
Renewed(r, p) == p \in Of("reset") \ before[r]

\* The row of a name keeps to what the resets that succeeded left there, and so
\* does a sign-in that got past the comparison.
PasswordInv ==
    /\ before \in [Ops -> SUBSET Ops]
    /\ Succeeded
    /\ \A r \in Of("reset") : answer[r] = "success" =>
          users[Op[r].name] # Nobody /\ Renewed(r, password[Op[r].name])
    /\ \A s \in Of("signin") : stage[s] \in {"route", "token"} \/ answer[s] = "success" =>
          \A r \in before[s] \cap Of("reset") :
              Op[r].name = Op[s].name => Renewed(r, Op[s].with)

\* A request that has ended is answered for good, and one that hears of success
\* has ended.
Steady ==
    \A p \in Ops :
        /\ stage[p] = "done" => stage'[p] = "done" /\ answer'[p] = answer[p]
        /\ answer'[p] = "success" => answer[p] = "success" \/ stage'[p] = "done"

\* The forms a step of a request takes in Requests.
LEMMA FormsSteady ==
    ASSUME Inductive, NEW o \in Ops, stage[o] # "done",
           \/ (\E s : Goto(o, s)) /\ UNCHANGED answer
           \/ \E a : End(o, a)
           \/ \E idle : GiveUp(o, idle)
           \/ Drop(o)
    PROVE  Steady
<1>1. stage \in [Ops -> Stages] /\ answer \in [Ops -> Answers]
  BY DEF Inductive, Tables
<1>2. CASE (\E s : Goto(o, s)) /\ UNCHANGED answer
  BY <1>1, <1>2 DEF Goto, Steady
<1>3. ASSUME NEW a, End(o, a) PROVE Steady
  <2>1. stage' = [stage EXCEPT ![o] = "done"]
    BY <1>3 DEF End, Goto
  <2>2. \A p \in Ops \ {o} : answer'[p] = answer[p] /\ stage'[p] = stage[p]
    BY <1>1, <1>3, <2>1 DEF End
  <2>3. stage'[o] = "done"
    BY <1>1, <2>1
  <2> QED BY <2>2, <2>3 DEF Steady
<1>4. ASSUME NEW idle, GiveUp(o, idle) PROVE Steady
  <2>1. answer'[o] = "failed" /\ \A p \in Ops \ {o} : answer'[p] = answer[p] /\ stage'[p] = stage[p]
    BY <1>1, <1>4 DEF GiveUp
  <2> QED BY <2>1 DEF Steady
<1>5. CASE Drop(o)
  BY <1>1, <1>5 DEF Drop, Steady
<1> QED BY <1>2, <1>3, <1>4, <1>5

\* Every step of a request takes one of the forms.
LEMMA RequestsSteady ==
    ASSUME Inductive, NEW o \in Ops,
           Step(o) \/ Settle(o) \/ MailFails(o) \/ RedisFails(o) \/ QueryFails(o)
    PROVE  Steady
<1>1. CASE Unavailable(o) \/ Issue(o) \/ GetCode(o) \/ Mail(o) \/ MailFails(o) \/ Clear(o)
  BY <1>1, FormsSteady DEF Unavailable, Issue, GetCode, Begins, Mail, MailFails, Clear
<1>2. CASE SignUp(o) \/ Reset(o) \/ SignIn(o)
  BY <1>2, FormsSteady DEF SignUp, Reset, SignIn, Begins
<1>3. CASE Consume(o)
  BY <1>3, FormsSteady DEF Consume, Accept, Miss, Missing
<1>4. CASE GenerateUserId(o) \/ PickGateway(o) \/ SetChatToken(o)
  BY <1>4, FormsSteady DEF GenerateUserId, PickGateway, SetChatToken
<1>5. CASE Register(o) \/ UpdatePassword(o)
  BY <1>5, FormsSteady DEF Register, UpdatePassword
<1>6. CASE Settle(o)
  BY <1>6, FormsSteady DEF Settle, Drop
<1>7. CASE RedisFails(o) \/ QueryFails(o)
  BY <1>7, FormsSteady DEF RedisFails, QueryFails, GiveUp
<1> QED BY <1>1, <1>2, <1>3, <1>4, <1>5, <1>6, <1>7 DEF Step

\* A step with a reason for every code it touches keeps FateInv.
LEMMA ReasonsKeep ==
    ASSUME FateInv, Steady, attempts' \in [Emails -> Nat], tries' \in [Codes -> Nat],
           \A c \in Codes : tries[c] <= tries'[c],
           \A c \in Codes :
               \/ fate'[c] = fate[c] /\ (fate[c] = "live" => code'[Op[c].email] = c)
               \/ fate'[c] \in {"used", "expired", "replaced"}
               \/ fate'[c] = "cleared" /\ stage'[c] = "done" /\ answer'[c] = "failed"
               \/ fate'[c] = "exhausted" /\ tries'[c] >= MaxAttempts
               \/ fate'[c] = "live" /\ code'[Op[c].email] = c,
           \A e \in Emails : code'[e] # NoCode => attempts'[e] <= tries'[code'[e]]
    PROVE  FateInv'
<1>1. ASSUME NEW c \in Codes PROVE fate'[c] = "cleared" => stage'[c] = "done" /\ answer'[c] = "failed"
  BY DEF FateInv, Steady, Codes, Of
<1>2. ASSUME NEW c \in Codes PROVE fate'[c] = "live" => code'[Op[c].email] = c
  OBVIOUS
<1>3. ASSUME NEW c \in Codes, fate'[c] = "exhausted" PROVE tries'[c] >= MaxAttempts
  <2>1. CASE fate[c] = "exhausted"
    BY SMTT(30), <2>1, AccountConstants DEF FateInv
  <2>2. CASE fate[c] # "exhausted"
    BY <1>3, <2>2
  <2> QED BY <2>1, <2>2
<1> QED BY <1>1, <1>2, <1>3 DEF FateInv

\* A step that leaves the codes and their fates alone.
LEMMA FatesStay ==
    ASSUME Inductive, FateInv, Steady, UNCHANGED <<code, fate, tries>>,
           attempts' \in [Emails -> Nat], \A e \in Emails : attempts'[e] <= attempts[e]
    PROVE  FateInv'
<1>1. tries \in [Codes -> Nat] /\ attempts \in [Emails -> Nat]
  BY DEF FateInv
<1>2. \A c \in Codes : tries[c] <= tries'[c]
  BY SMTT(30), <1>1
<1>3. \A c \in Codes : fate'[c] = fate[c] /\ (fate[c] = "live" => code'[Op[c].email] = c)
  BY DEF FateInv
<1>4. ASSUME NEW e \in Emails, code'[e] # NoCode PROVE attempts'[e] <= tries'[code'[e]]
  <2>1. code[e] \in Codes /\ attempts[e] <= tries[code[e]]
    BY <1>4 DEF Inductive, Tables, FateInv
  <2> QED BY SMTT(30), <1>1, <2>1
<1> QED BY <1>1, <1>2, <1>3, <1>4, ReasonsKeep

\* The codes that a step leaves in the store are as they were.
LEMMA OtherCodes ==
    ASSUME Inductive, FateInv, NEW e \in Emails,
           NEW d \in Emails, d # e, code[d] # NoCode
    PROVE  /\ code[d] \in Codes /\ code[d] # code[e] /\ Op[code[d]].email = d
           /\ attempts[d] <= tries[code[d]]
<1>1. code[d] \in Codes
  BY DEF Inductive, Tables
<1>2. Op[code[d]].email = d /\ (code[d] = code[e] => Op[code[d]].email = e)
  BY DEF Inductive, CodesSold
<1>3. attempts[d] <= tries[code[d]]
  BY DEF FateInv
<1> QED BY <1>1, <1>2, <1>3

\* A code is taken out of the store, for a reason.
LEMMA TakenOut ==
    ASSUME Inductive, FateInv, Steady, NEW e \in Emails, code[e] # NoCode,
           code' = [code EXCEPT ![e] = NoCode],
           NEW reason, Ends(e, reason), UNCHANGED tries \/ tries' = [tries EXCEPT ![code[e]] = @ + 1],
           attempts' \in [Emails -> Nat], \A d \in Emails \ {e} : attempts'[d] = attempts[d],
           \/ reason \in {"used", "expired"}
           \/ reason = "cleared" /\ stage'[code[e]] = "done" /\ answer'[code[e]] = "failed"
           \/ reason = "exhausted" /\ tries'[code[e]] >= MaxAttempts
    PROVE  FateInv'
<1>1. /\ code[e] \in Codes /\ code \in [Emails -> Codes \cup {NoCode}]
      /\ tries \in [Codes -> Nat] /\ attempts \in [Emails -> Nat]
  BY DEF Inductive, Tables, FateInv
<1>2. tries' \in [Codes -> Nat] /\ \A c \in Codes : tries[c] <= tries'[c]
  BY SMTT(30), <1>1
<1>3. \A c \in Codes : fate'[c] = IF c = code[e] THEN reason ELSE fate[c]
  BY DEF Ends
<1>4. ASSUME NEW c \in Codes, c # code[e], fate[c] = "live" PROVE code'[Op[c].email] = c
  <2>1. code[Op[c].email] = c /\ Op[c].email \in Emails
    BY <1>4, AccountConstants DEF FateInv, Codes, Of
  <2> QED BY <1>1, <1>4, <2>1
<1>5. ASSUME NEW d \in Emails, code'[d] # NoCode PROVE attempts'[d] <= tries'[code'[d]]
  <2>1. d # e /\ code'[d] = code[d]
    BY <1>1, <1>5
  <2>2. code[d] \in Codes /\ attempts[d] <= tries[code[d]]
    BY <1>5, <2>1, OtherCodes
  <2>3. attempts'[d] = attempts[d] /\ attempts[d] \in Nat /\ tries[code[d]] <= tries'[code[d]]
    BY <1>1, <1>2, <2>1, <2>2
  <2> QED BY SMTT(30), <1>1, <1>2, <2>1, <2>2, <2>3
<1> QED BY <1>2, <1>3, <1>4, <1>5, ReasonsKeep

\* A code is put in the store (issue_verification_code).
LEMMA FatesIssue ==
    ASSUME Inductive, FateInv, NEW o \in Ops, Issue(o)
    PROVE  FateInv'
<1> DEFINE e == Op[o].email
<1>1. /\ o \in Codes /\ e \in Emails /\ o # NoCode /\ UNCHANGED tries
      /\ code \in [Emails -> Codes \cup {NoCode}]
      /\ tries \in [Codes -> Nat] /\ attempts \in [Emails -> Nat]
  BY AccountConstants DEF Issue, Begins, Codes, Of, Inductive, Tables, FateInv
<1>2. Steady
  BY RequestsSteady DEF Step
<1>3. CASE e \in cooldown
  <2>1. UNCHANGED <<code, attempts, fate>>
    BY <1>3 DEF Issue
  <2>2. \A d \in Emails : attempts'[d] <= attempts[d]
    BY SMTT(30), <1>1, <2>1
  <2> QED BY <1>1, <1>2, <2>1, <2>2, FatesStay
<1>4. CASE e \notin cooldown
  <2>1. /\ code' = [code EXCEPT ![e] = o] /\ attempts' = [attempts EXCEPT ![e] = 0]
        /\ fate' = [c \in Codes |-> IF c = o THEN "live" ELSE IF c = code[e] THEN "replaced" ELSE fate[c]]
    BY <1>4 DEF Issue
  <2>2. attempts' \in [Emails -> Nat] /\ \A c \in Codes : tries[c] <= tries'[c]
    BY SMTT(30), <1>1, <2>1
  <2>3. ASSUME NEW c \in Codes \ {o, code[e]}, fate[c] = "live" PROVE code'[Op[c].email] = c
    <3>1. code[Op[c].email] = c /\ Op[c].email \in Emails
      BY <2>3, AccountConstants DEF FateInv, Codes, Of
    <3> QED BY <1>1, <2>1, <2>3, <3>1
  <2>4. code'[e] = o
    BY <1>1, <2>1
  <2>5. ASSUME NEW d \in Emails, code'[d] # NoCode PROVE attempts'[d] <= tries'[code'[d]]
    <3>1. CASE d = e
      BY SMTT(30), <1>1, <2>1, <3>1
    <3>2. CASE d # e
      <4>1. code'[d] = code[d] /\ attempts'[d] = attempts[d]
        BY <1>1, <2>1, <3>2
      <4>2. attempts[d] <= tries[code[d]]
        BY <1>1, <2>5, <3>2, <4>1, OtherCodes
      <4> QED BY <1>1, <4>1, <4>2
    <3> QED BY <3>1, <3>2
  <2> QED BY <1>1, <1>2, <2>1, <2>2, <2>3, <2>4, <2>5, ReasonsKeep
<1> QED BY <1>3, <1>4

\* A code is bought, tried in vain, or not there.
LEMMA FatesConsume ==
    ASSUME Inductive, FateInv, NEW o \in Ops, Consume(o)
    PROVE  FateInv'
<1> DEFINE e == Op[o].email
<1>1. /\ e \in Emails /\ code \in [Emails -> Codes \cup {NoCode}]
      /\ tries \in [Codes -> Nat] /\ attempts \in [Emails -> Nat]
  BY AccountConstants DEF Consume, Inductive, Tables, FateInv, Progress, Fits
<1>2. Steady
  BY RequestsSteady DEF Step
<1>3. CASE Missing(o)
  <2>1. UNCHANGED <<code, fate, tries, attempts>> /\ \A d \in Emails : attempts'[d] <= attempts[d]
    BY SMTT(30), <1>1, <1>3 DEF Missing
  <2> QED BY <1>1, <1>2, <2>1, FatesStay
<1>4. ASSUME NEW given, Accept(o, given) PROVE FateInv'
  <2>1. /\ code[e] # NoCode /\ code' = [code EXCEPT ![e] = NoCode] /\ Ends(e, "used")
        /\ UNCHANGED tries /\ attempts' = [attempts EXCEPT ![e] = 0]
    BY <1>4 DEF Accept
  <2>2. attempts' \in [Emails -> Nat] /\ \A d \in Emails \ {e} : attempts'[d] = attempts[d]
    BY SMTT(30), <1>1, <2>1
  <2> QED BY <1>1, <1>2, <2>1, <2>2, TakenOut
<1>5. ASSUME NEW given, Miss(o, given) PROVE FateInv'
  <2>1. /\ code[e] # NoCode /\ code[e] \in Codes /\ tries' = [tries EXCEPT ![code[e]] = @ + 1]
        /\ attempts[e] <= tries[code[e]]
    BY <1>1, <1>5 DEF Miss, FateInv
  <2>2. CASE attempts[e] + 1 >= MaxAttempts
    <3>1. /\ code' = [code EXCEPT ![e] = NoCode] /\ attempts' = [attempts EXCEPT ![e] = 0]
          /\ Ends(e, "exhausted")
      BY <1>5, <2>2 DEF Miss
    <3>2. attempts' \in [Emails -> Nat] /\ \A d \in Emails \ {e} : attempts'[d] = attempts[d]
      BY SMTT(30), <1>1, <3>1
    <3>3. tries'[code[e]] >= MaxAttempts
      BY SMTT(30), <1>1, <2>1, <2>2, AccountConstants
    <3> QED BY <1>1, <1>2, <2>1, <3>1, <3>2, <3>3, TakenOut
  <2>3. CASE ~ (attempts[e] + 1 >= MaxAttempts)
    <3>1. attempts' = [attempts EXCEPT ![e] = @ + 1] /\ UNCHANGED <<code, fate>>
      BY <1>5, <2>3 DEF Miss
    <3>2. /\ attempts' \in [Emails -> Nat] /\ tries' \in [Codes -> Nat]
          /\ \A c \in Codes : tries[c] <= tries'[c]
      BY SMTT(30), <1>1, <2>1, <3>1
    <3>3. \A c \in Codes : fate'[c] = fate[c] /\ (fate[c] = "live" => code'[Op[c].email] = c)
      BY <3>1 DEF FateInv
    <3>4. ASSUME NEW d \in Emails, code'[d] # NoCode PROVE attempts'[d] <= tries'[code'[d]]
      <4>1. CASE d = e
        BY SMTT(30), <1>1, <2>1, <3>1, <4>1
      <4>2. CASE d # e
        <5>1. code[d] \in Codes /\ code[d] # code[e] /\ attempts[d] <= tries[code[d]]
          BY <1>1, <3>1, <3>4, <4>2, OtherCodes
        <5> QED BY <1>1, <2>1, <3>1, <4>2, <5>1
      <4> QED BY <4>1, <4>2
    <3> QED BY <1>2, <3>2, <3>3, <3>4, ReasonsKeep
  <2> QED BY <2>2, <2>3
<1> QED BY <1>3, <1>4, <1>5 DEF Consume

\* The other steps: a code is taken back, keys expire, and most steps do not
\* touch the codes.
LEMMA FatesClear ==
    ASSUME Inductive, FateInv, NEW o \in Ops, Clear(o)
    PROVE  FateInv'
<1> DEFINE e == Op[o].email
<1>1. /\ e \in Emails /\ code \in [Emails -> Codes \cup {NoCode}] /\ o # NoCode
      /\ attempts \in [Emails -> Nat] /\ UNCHANGED tries
  BY AccountConstants DEF Clear, Inductive, Tables, FateInv, Progress, Fits
<1>2. Steady
  BY RequestsSteady DEF Step
<1>3. stage'[o] = "done" /\ answer'[o] = "failed"
  BY DEF Clear, End, Goto, Inductive, Tables, Told
<1>4. CASE code[e] = o
  <2>1. /\ code' = [code EXCEPT ![e] = NoCode] /\ Ends(e, "cleared")
        /\ attempts' = [attempts EXCEPT ![e] = 0]
    BY <1>4 DEF Clear
  <2>2. attempts' \in [Emails -> Nat] /\ \A d \in Emails \ {e} : attempts'[d] = attempts[d]
    BY SMTT(30), <1>1, <2>1
  <2> QED BY <1>1, <1>2, <1>3, <1>4, <2>1, <2>2, TakenOut
<1>5. CASE code[e] # o
  <2>1. UNCHANGED <<code, fate, attempts>>
    BY <1>5 DEF Clear
  <2>2. \A d \in Emails : attempts'[d] <= attempts[d]
    BY SMTT(30), <1>1, <2>1
  <2> QED BY <1>1, <1>2, <2>1, <2>2, FatesStay
<1> QED BY <1>4, <1>5

LEMMA FatesElsewhere ==
    ASSUME Inductive, FateInv, Steady, UNCHANGED <<code, fate, tries, attempts>>
    PROVE  FateInv'
<1>1. attempts' \in [Emails -> Nat] /\ \A d \in Emails : attempts'[d] <= attempts[d]
  BY SMTT(30) DEF FateInv
<1> QED BY <1>1, FatesStay

LEMMA FatesNext == Inductive /\ FateInv /\ [Next]_vars => FateInv'
<1> SUFFICES ASSUME Inductive, FateInv, [Next]_vars PROVE FateInv'
  OBVIOUS
<1>1. ASSUME NEW o \in Ops,
             \/ Mail(o) \/ SignUp(o) \/ Reset(o) \/ SignIn(o) \/ GenerateUserId(o) \/ PickGateway(o)
             \/ Register(o) \/ UpdatePassword(o) \/ SetChatToken(o)
             \/ Unavailable(o) \/ GetCode(o)
             \/ Settle(o) \/ MailFails(o) \/ RedisFails(o) \/ QueryFails(o)
      PROVE  FateInv'
  <2>1. Steady
    BY <1>1, RequestsSteady DEF Step
  <2>2. UNCHANGED <<code, fate, tries, attempts>>
    BY <1>1 DEF Mail, SignUp, Reset, SignIn, GenerateUserId, PickGateway, Register, UpdatePassword,
                SetChatToken, Unavailable, GetCode, Settle, MailFails, RedisFails, QueryFails, redis, history
  <2> QED BY <2>1, <2>2, FatesElsewhere
<1>2. ASSUME NEW o \in Ops, Step(o) \/ Settle(o) \/ MailFails(o) \/ RedisFails(o) \/ QueryFails(o)
      PROVE  FateInv'
  BY <1>1, <1>2, FatesIssue, FatesConsume, FatesClear DEF Step
<1>3. UNCHANGED requestVars => Steady
  BY DEF requestVars, Steady
<1>4. ASSUME NEW e \in Emails, ExpireCode(e) PROVE FateInv'
  <2>1. /\ code[e] # NoCode /\ code' = [code EXCEPT ![e] = NoCode] /\ Ends(e, "expired")
        /\ UNCHANGED <<requestVars, tries, attempts>>
    BY <1>4 DEF ExpireCode
  <2>2. attempts' \in [Emails -> Nat] /\ \A d \in Emails \ {e} : attempts'[d] = attempts[d]
    BY <2>1 DEF FateInv
  <2> QED BY <1>3, <2>1, <2>2, TakenOut
<1>5. ASSUME NEW e \in Emails, ExpireAttempts(e) PROVE FateInv'
  <2>1. /\ attempts' = [attempts EXCEPT ![e] = 0]
        /\ UNCHANGED <<requestVars, code, fate, tries>>
    BY <1>5 DEF ExpireAttempts, history
  <2>2. attempts' \in [Emails -> Nat] /\ \A d \in Emails : attempts'[d] <= attempts[d]
    BY SMTT(30), <2>1 DEF FateInv
  <2> QED BY <1>3, <2>1, <2>2, FatesStay
<1>6. ASSUME NEW x, ExpireCooldown(x) \/ ExpireToken(x) PROVE FateInv'
  BY <1>3, <1>6, FatesElsewhere DEF ExpireCooldown, ExpireToken, history
<1>7. CASE UNCHANGED vars
  BY <1>3, <1>7, FatesElsewhere DEF vars, redis, history
<1> QED BY <1>2, <1>4, <1>5, <1>6, <1>7 DEF Next

\* Issuing, trying, taking back, expiring: whatever ends a code is its own doing
\* (issue_verification_code, clear_verification_code, consume_verification_code).
THEOREM CodeEndsOnItsOwnAlways == Spec => []CodeEndsOnItsOwn
<1>1. Init => FateInv
  <2> SUFFICES ASSUME Init PROVE FateInv
    OBVIOUS
  <2>1. /\ attempts \in [Emails -> Nat] /\ tries \in [Codes -> Nat]
    BY SMTT(30) DEF Init
  <2>2. \A c \in Codes : fate[c] = "none"
    BY DEF Init
  <2>3. \A e \in Emails : code[e] = NoCode
    BY DEF Init
  <2> QED BY <2>1, <2>2, <2>3 DEF FateInv
<1>2. FateInv => CodeEndsOnItsOwn
  BY DEF FateInv, CodeEndsOnItsOwn
<1> QED BY <1>1, <1>2, InductiveAlways, FatesNext, PTL DEF Spec

-----------------------------------------------------------------------------
\* A step that makes no account, changes no password and lets no reset or
\* sign-in succeed keeps PasswordInv.
LEMMA PasswordsStay ==
    ASSUME PasswordInv, Steady, UNCHANGED <<before, users, password>>,
           \A r \in Of("reset") : answer'[r] = "success" => answer[r] = "success",
           \A s \in Of("signin") : stage'[s] \in {"route", "token"} \/ answer'[s] = "success" =>
               stage[s] \in {"route", "token"} \/ answer[s] = "success"
    PROVE  PasswordInv'
<1>1. Succeeded'
  BY DEF PasswordInv, Succeeded, Steady
<1>2. \A r, p : Renewed(r, p)' = Renewed(r, p)
  BY DEF Renewed
<1> QED BY <1>1, <1>2 DEF PasswordInv, Renewed

\* A request begins.
LEMMA PasswordsBegin ==
    ASSUME Inductive, PasswordInv, Steady, NEW o \in Ops, NEW kind, Begins(o, kind),
           UNCHANGED <<users, password>>,
           \A p \in Ops \ {o} : stage'[p] = stage[p] /\ answer'[p] = answer[p],
           kind # "verify" => answer'[o] # "success",
           kind = "signin" /\ stage'[o] \in {"route", "token"} => password[Op[o].name] = Op[o].with
    PROVE  PasswordInv'
<1>1. /\ Op[o].kind = kind /\ stage[o] = "new" /\ answer[o] # "success"
      /\ before' = [before EXCEPT ![o] = {p \in Ops : answer[p] = "success"}]
      /\ before \in [Ops -> SUBSET Ops]
  BY DEF Begins, PasswordInv, Succeeded
<1>2. /\ before' \in [Ops -> SUBSET Ops] /\ before'[o] = {p \in Ops : answer[p] = "success"}
      /\ \A p \in Ops \ {o} : before'[p] = before[p]
  BY <1>1
<1>3. Succeeded'
  <2>1. \A p \in Ops : answer'[p] = "success" => stage'[p] = "done"
    BY DEF PasswordInv, Succeeded, Steady
  <2>2. \A p \in Ops : answer[p] = "success" => answer'[p] = "success"
    BY DEF PasswordInv, Succeeded, Steady
  <2>3. \A p \in Ops : \A q \in before'[p] : q \in Ops /\ answer'[q] = "success"
    BY <1>2, <2>2 DEF PasswordInv, Succeeded
  <2> QED BY <2>1, <2>3 DEF Succeeded
<1>4. ASSUME NEW r \in Of("reset"), answer'[r] = "success"
      PROVE  r \in Ops \ {o} /\ answer[r] = "success" /\ \A p : Renewed(r, p)' = Renewed(r, p)
  <2>1. r \in Ops /\ Op[r].kind = "reset"
    BY DEF Of
  <2>2. r # o
    BY <1>1, <1>4, <2>1
  <2> QED BY <1>2, <1>4, <2>1, <2>2 DEF Renewed
<1>5. ASSUME NEW r \in Of("reset"), answer'[r] = "success"
      PROVE  users'[Op[r].name] # Nobody /\ Renewed(r, password[Op[r].name])'
  <2>1. users[Op[r].name] # Nobody /\ Renewed(r, password[Op[r].name])
    BY <1>4, <1>5 DEF PasswordInv
  <2> QED BY <1>4, <1>5, <2>1 DEF Renewed
<1>6. ASSUME NEW s \in Of("signin"), stage'[s] \in {"route", "token"} \/ answer'[s] = "success",
             NEW r \in before'[s] \cap Of("reset"), Op[r].name = Op[s].name
      PROVE  Renewed(r, Op[s].with)'
  <2>1. s \in Ops /\ Op[s].kind = "signin" /\ r \in Ops /\ answer'[r] = "success"
    BY <1>3 DEF Of, Succeeded
  <2>2. Renewed(r, Op[s].with)
    <3>1. CASE s = o
      <4>1. password[Op[r].name] = Op[s].with
        BY <1>1, <1>6, <2>1, <3>1
      <4> QED BY <1>4, <2>1, <4>1 DEF PasswordInv
    <3>2. CASE s # o
      BY <1>2, <1>6, <2>1, <3>2 DEF PasswordInv
    <3> QED BY <3>1, <3>2
  <2> QED BY <1>4, <2>1, <2>2
<1> QED BY <1>2, <1>3, <1>5, <1>6 DEF PasswordInv

\* A password is written, of a row that was not there or by a reset: neither can
\* be one that a reset found done.
LEMMA PasswordsChange ==
    ASSUME Inductive, PasswordInv, Steady, NEW o \in Ops, stage[o] = "change",
           NEW n \in Names, n = Op[o].name, password' = [password EXCEPT ![n] = o],
           users[n] = Nobody \/ Op[o].kind = "reset",
           users'[n] # Nobody, \A m \in Names \ {n} : users'[m] = users[m],
           Op[o].kind = "signup" \/ Op[o].kind = "reset",
           \A p \in Ops \ {o} : stage'[p] = stage[p] /\ answer'[p] = answer[p],
           UNCHANGED before
    PROVE  PasswordInv'
<1>1. /\ password'[n] = o /\ \A m \in Names \ {n} : password'[m] = password[m]
      /\ before \in [Ops -> SUBSET Ops]
  BY DEF Inductive, Tables, PasswordInv
<1>2. Succeeded'
  BY DEF PasswordInv, Succeeded, Steady
<1>3. \A r, p : Renewed(r, p)' = Renewed(r, p)
  BY DEF Renewed
<1>4. answer[o] # "success" /\ \A r \in Ops : o \notin before[r]
  BY DEF PasswordInv, Succeeded
<1>5. ASSUME NEW r \in Of("reset"), answer'[r] = "success"
      PROVE  users'[Op[r].name] # Nobody /\ Renewed(r, password'[Op[r].name])
  <2>1. r \in Ops /\ Op[r].kind = "reset" /\ Op[r].name \in Names
    BY AccountConstants DEF Of
  <2>2. r # o => users[Op[r].name] # Nobody /\ Renewed(r, password[Op[r].name])
    BY <1>5, <2>1 DEF PasswordInv
  <2>3. CASE Op[r].name # n
    BY <1>1, <2>1, <2>2, <2>3
  <2>4. CASE Op[r].name = n
    <3>1. o \in Of("reset")
      BY <2>1, <2>2, <2>4 DEF Of
    <3> QED BY <1>1, <1>4, <2>1, <2>4, <3>1 DEF Renewed
  <2> QED BY <2>3, <2>4
<1>6. \A s \in Of("signin") : s \in Ops \ {o}
  BY DEF Of
<1>7. \A s \in Of("signin") : stage'[s] \in {"route", "token"} \/ answer'[s] = "success" =>
          \A r \in before[s] \cap Of("reset") :
              Op[r].name = Op[s].name => Renewed(r, Op[s].with)
  BY <1>6 DEF PasswordInv
<1> QED BY <1>1, <1>2, <1>3, <1>5, <1>7 DEF PasswordInv, Renewed

\* A step of one request leaves the others where they are.
LEMMA OthersStay ==
    ASSUME Inductive, NEW o \in Ops, NEW s, Goto(o, s),
           \/ UNCHANGED answer
           \/ \E a : answer' = IF o \in lost THEN answer ELSE [answer EXCEPT ![o] = a]
    PROVE  \A p \in Ops \ {o} : stage'[p] = stage[p] /\ answer'[p] = answer[p]
BY DEF Goto, Inductive, Tables

\* A request goes on, or ends: a sign-up or a verification anyhow, a sign-in
\* from behind the comparison, a reset without success.
LEMMA PasswordsGo ==
    ASSUME Inductive, PasswordInv, Steady, NEW o \in Ops, UNCHANGED <<before, users, password>>,
           NEW s, Goto(o, s),
           \/ UNCHANGED answer
           \/ \E a : /\ answer' = IF o \in lost THEN answer ELSE [answer EXCEPT ![o] = a]
                     /\ a = "success" => Op[o].kind # "reset",
           Op[o].kind = "signin" => stage[o] \in {"route", "token"}
    PROVE  PasswordInv'
<1>1. \A p \in Ops \ {o} : stage'[p] = stage[p] /\ answer'[p] = answer[p]
  BY OthersStay
<1>2. \A r \in Of("reset") : answer'[r] = "success" => answer[r] = "success"
  BY <1>1 DEF Of, Inductive, Tables
<1>3. \A i \in Of("signin") : stage'[i] \in {"route", "token"} \/ answer'[i] = "success" =>
          stage[i] \in {"route", "token"} \/ answer[i] = "success"
  BY <1>1 DEF Of
<1> QED BY <1>2, <1>3, PasswordsStay

\* The steps that do, and the ones of a lost or failed request.
LEMMA PasswordsPlain ==
    ASSUME Inductive, PasswordInv, NEW o \in Ops,
           \/ GetCode(o) \/ Mail(o) \/ MailFails(o) \/ Clear(o) \/ Consume(o) \/ GenerateUserId(o)
           \/ PickGateway(o) \/ SetChatToken(o)
           \/ Settle(o) \/ RedisFails(o) \/ QueryFails(o)
    PROVE  PasswordInv'
<1>1. Steady
  BY RequestsSteady DEF Step
<1>2. Fits(o, stage[o]) /\ stage \in [Ops -> Stages] /\ answer \in [Ops -> Answers]
  BY DEF Inductive, Progress, Tables
<1>3. CASE GetCode(o) \/ Mail(o) \/ MailFails(o) \/ Clear(o)
  <2>1. Op[o].kind = "verify"
    BY <1>2, <1>3 DEF GetCode, Mail, MailFails, Clear, Fits
  <2>2. Op[o].kind # "reset" /\ Op[o].kind # "signin"
    BY <2>1
  <2>3. UNCHANGED <<before, users, password>>
    BY <1>3 DEF GetCode, Mail, MailFails, Clear, mysql, history
  <2>4. \E s : /\ Goto(o, s)
               /\ \/ UNCHANGED answer
                  \/ \E a : answer' = IF o \in lost THEN answer ELSE [answer EXCEPT ![o] = a]
    BY <1>3 DEF GetCode, Mail, MailFails, Clear, End
  <2> QED BY <1>1, <2>2, <2>3, <2>4, PasswordsGo
<1>4. CASE Consume(o)
  <2>1. Op[o].kind # "signin" /\ UNCHANGED <<before, users, password>>
    BY <1>2, <1>4 DEF Consume, Fits, mysql
  <2>2. \E s : /\ Goto(o, s)
               /\ \/ UNCHANGED answer
                  \/ answer' = IF o \in lost THEN answer ELSE [answer EXCEPT ![o] = "refused"]
    BY <1>4 DEF Consume, Accept, Miss, Missing, End
  <2> QED BY <1>1, <2>1, <2>2, PasswordsGo
<1>5. CASE GenerateUserId(o)
  <2>1. Op[o].kind # "signin"
    BY <1>2, <1>5 DEF GenerateUserId, Fits
  <2> QED BY <1>1, <1>5, <2>1, PasswordsGo DEF GenerateUserId, mysql, history
<1>6. CASE PickGateway(o)
  BY <1>1, <1>6, PasswordsGo DEF PickGateway, mysql, history
<1>7. CASE SetChatToken(o)
  <2>1. Op[o].kind # "reset"
    BY <1>2, <1>7 DEF SetChatToken, Fits
  <2> QED BY <1>1, <1>7, <2>1, PasswordsGo DEF SetChatToken, End, mysql, history
<1>8. CASE Settle(o) \/ RedisFails(o) \/ QueryFails(o)
  <2>1. UNCHANGED <<before, users, password>>
    BY <1>8 DEF Settle, RedisFails, QueryFails, mysql, history
  <2>2. /\ UNCHANGED answer \/ answer' = [answer EXCEPT ![o] = "failed"]
        /\ UNCHANGED stage \/ stage' = [stage EXCEPT ![o] = "done"]
    BY <1>8 DEF Settle, Drop, RedisFails, QueryFails, GiveUp
  <2>3. \A p \in Ops : /\ answer'[p] = "success" => answer[p] = "success"
                       /\ stage'[p] \in {stage[p], "done"}
    BY <1>2, <2>2
  <2>4. \A p \in Ops : stage'[p] \in {"route", "token"} => stage[p] \in {"route", "token"}
    BY <2>3
  <2> QED BY <1>1, <2>1, <2>3, <2>4, PasswordsStay DEF Of
<1> QED BY <1>3, <1>4, <1>5, <1>6, <1>7, <1>8

\* Every request that begins.
LEMMA PasswordsAllBegin ==
    ASSUME Inductive, PasswordInv, NEW o \in Ops,
           Unavailable(o) \/ Issue(o) \/ SignUp(o) \/ Reset(o) \/ SignIn(o)
    PROVE  PasswordInv'
<1>1. Steady
  BY RequestsSteady DEF Step
<1>2. PICK kind : Begins(o, kind)
  BY DEF Unavailable, Issue, SignUp, Reset, SignIn
<1>3. stage[o] = "new" /\ answer[o] # "success" /\ Op[o].kind = kind
      /\ answer \in [Ops -> Answers] /\ stage \in [Ops -> Stages]
  BY <1>2 DEF Begins, PasswordInv, Succeeded, Inductive, Tables
<1>4. UNCHANGED <<users, password>>
  BY DEF Unavailable, Issue, SignUp, Reset, SignIn, mysql
<1>5. PICK s : /\ Goto(o, s)
               /\ \/ UNCHANGED answer
                  \/ \E a : answer' = IF o \in lost THEN answer ELSE [answer EXCEPT ![o] = a]
  BY DEF Unavailable, Issue, SignUp, Reset, SignIn, End
<1>6. \A p \in Ops \ {o} : stage'[p] = stage[p] /\ answer'[p] = answer[p]
  BY <1>5, OthersStay
<1>7. kind # "verify" => answer'[o] # "success"
  BY <1>3 DEF Unavailable, Issue, SignUp, Reset, SignIn, Begins, End
<1>8. ASSUME kind = "signin", stage'[o] \in {"route", "token"} PROVE password[Op[o].name] = Op[o].with
  <2>1. SignIn(o)
    BY <1>3, <1>8 DEF Unavailable, Issue, SignUp, Reset, Begins
  <2>2. End(o, "refused") => stage'[o] = "done"
    BY <1>3 DEF End, Goto
  <2> QED BY <1>8, <2>1, <2>2 DEF SignIn
<1> QED BY <1>1, <1>2, <1>4, <1>6, <1>7, <1>8, PasswordsBegin

\* register_user and update_password.
LEMMA PasswordsWrite ==
    ASSUME Inductive, PasswordInv, NEW o \in Ops, Register(o) \/ UpdatePassword(o)
    PROVE  PasswordInv'
<1> DEFINE n == Op[o].name
<1>1. /\ Steady /\ stage[o] = "change" /\ n \in Names /\ o # Nobody /\ UNCHANGED before
      /\ users \in [Names -> Ops \cup {Nobody}]
  BY RequestsSteady, AccountConstants DEF Step, Register, UpdatePassword, history, Inductive, Tables
<1>2. CASE Register(o) /\ Taken(n, Op[o].email) # {}
  <2>1. /\ UNCHANGED <<users, password>> /\ Op[o].kind # "signin" /\ Goto(o, "done")
        /\ \E a : /\ answer' = IF o \in lost THEN answer ELSE [answer EXCEPT ![o] = a]
                  /\ a = "success" => Op[o].kind # "reset"
    BY <1>2 DEF Register, End, mysql
  <2> QED BY <1>1, <2>1, PasswordsGo
<1>3. ASSUME End(o, "success") PROVE \A p \in Ops \ {o} : stage'[p] = stage[p] /\ answer'[p] = answer[p]
  BY <1>3, OthersStay DEF End
<1>4. CASE Register(o) /\ Taken(n, Op[o].email) = {}
  <2>1. /\ users' = [users EXCEPT ![n] = o] /\ password' = [password EXCEPT ![n] = o]
        /\ Op[o].kind = "signup" /\ End(o, "success") /\ users[n] = Nobody
    BY <1>1, <1>4 DEF Register, Taken
  <2>2. users'[n] # Nobody /\ \A m \in Names \ {n} : users'[m] = users[m]
    BY <1>1, <2>1
  <2> QED BY <1>1, <1>3, <2>1, <2>2, PasswordsChange
<1>5. CASE UpdatePassword(o)
  <2>1. /\ UNCHANGED users /\ password' = [password EXCEPT ![n] = o]
        /\ Op[o].kind = "reset" /\ End(o, "success")
    BY <1>5 DEF UpdatePassword
  <2>2. users[n] # Nobody
    BY <1>1, <2>1 DEF Inductive, Progress, Fits, Owned
  <2> QED BY <1>1, <1>3, <2>1, <2>2, PasswordsChange
<1> QED BY <1>2, <1>4, <1>5

\* A password that a reset replaced lets nobody in any more: sign_in compares
\* once and is not asked again, update_password overwrites what is there.
THEOREM OldPasswordIsOverAlways == Spec => []OldPasswordIsOver
<1>1. Init => PasswordInv
  <2> SUFFICES ASSUME Init PROVE PasswordInv
    OBVIOUS
  <2>1. before \in [Ops -> SUBSET Ops] /\ \A o \in Ops : before[o] = {}
    BY DEF Init
  <2>2. \A o \in Ops : answer[o] = "none" /\ stage[o] \in {"new", "done"}
    BY DEF Init, RequestInit
  <2>3. Succeeded
    BY <2>1, <2>2 DEF Succeeded
  <2> QED BY <2>1, <2>2, <2>3 DEF PasswordInv, Of
<1>2. Inductive /\ PasswordInv /\ [Next]_vars => PasswordInv'
  <2> SUFFICES ASSUME Inductive, PasswordInv, [Next]_vars PROVE PasswordInv'
    OBVIOUS
  <2>1. ASSUME NEW o \in Ops, Step(o) \/ Settle(o) \/ MailFails(o) \/ RedisFails(o) \/ QueryFails(o)
        PROVE  PasswordInv'
    BY <2>1, PasswordsPlain, PasswordsAllBegin, PasswordsWrite DEF Step
  <2>2. ASSUME UNCHANGED <<requestVars, mysql, before>> PROVE PasswordInv'
    BY <2>2, PasswordsStay DEF requestVars, mysql, Steady
  <2>3. ASSUME NEW x, ExpireCode(x) \/ ExpireAttempts(x) \/ ExpireCooldown(x) \/ ExpireToken(x)
        PROVE  PasswordInv'
    BY <2>2, <2>3 DEF ExpireCode, ExpireAttempts, ExpireCooldown, ExpireToken, history
  <2>4. CASE UNCHANGED vars
    BY <2>2, <2>4 DEF vars, history
  <2> QED BY <2>1, <2>3, <2>4 DEF Next
<1>3. PasswordInv => OldPasswordIsOver
  <2> SUFFICES ASSUME PasswordInv, NEW s \in Of("signin"), answer[s] = "success",
                      NEW r \in before[s] \cap Of("reset"), Op[r].name = Op[s].name
               PROVE  Op[s].with \in Of("reset") \ before[r]
    BY DEF OldPasswordIsOver
  <2> QED BY DEF PasswordInv, Renewed
<1> QED BY <1>1, <1>2, <1>3, InductiveAlways, PTL DEF Spec
=============================================================================
