-------------------------- MODULE CustomersProofs ---------------------------
(***************************************************************************)
(* Proofs about what the shop knows of its customers, for any number of    *)
(* people, logins, uploads, addresses and workers, and any bounds: who has *)
(* an account, what a bulk import reports, and which address is the        *)
(* default.                                                                *)
(***************************************************************************)
EXTENDS Accounts, Addresses, SumLemmas

-----------------------------------------------------------------------------
(* Logging in.  An account that a login made is spelt in full, because     *)
(* every code is sent to a full number unless the number was typed in an   *)
(* undocumented way.  A code is accepted before it signs in, so whoever    *)
(* reads it unverified while another still enters with it has been seen    *)
(* beside that other before it was accepted.                               *)

Code == [phone : People \X Spellings, verified : BOOLEAN, expired : BOOLEAN]

Verification == [code : Nat, pc : {"idle", "accept", "enter"}]

LoginTypeOK ==
    /\ codes \in Seq(Code) /\ Len(codes) <= MaxCodes
    /\ login \in [Logins -> Verification]
    /\ uses \in [1..MaxCodes -> Nat]

InFull(user) == user = <<user[1], user[2]>> /\ (user[1] \notin misspelt => user[2] = Full)

SpeltInFull == \A user \in accounts : InFull(user)

SentInFull == \A i \in DOMAIN codes : InFull(codes[i].phone)

Holds(w, i) == login[w].pc # "idle" /\ login[w].code = i

CodesInUse ==
    /\ \A w \in Logins : login[w].pc # "idle" => login[w].code \in DOMAIN codes
    /\ \A w \in Logins : login[w].pc = "enter" => codes[login[w].code].verified
    /\ \A i \in 1..MaxCodes : uses[i] # 0 => i \in DOMAIN codes /\ codes[i].verified

\* A code that two never held at once has one holder before its use, none after.
HeldByOne ==
    \A i \in 1..MaxCodes \ overlapped :
        /\ uses[i] <= 1
        /\ uses[i] # 0 => \A w \in Logins : ~Holds(w, i)
        /\ \A v, w \in Logins : Holds(v, i) /\ Holds(w, i) => v = w

LoginInv == LoginTypeOK /\ SpeltInFull /\ SentInFull /\ CodesInUse /\ HeldByOne

LEMMA BoundsNatural == ReportEvery \in Nat /\ ReportEvery > 0 /\ KeepErrors \in Nat
  BY AccountsAssumption

LEMMA LoginStart == AccountsInit => LoginInv
<1> SUFFICES ASSUME AccountsInit PROVE LoginInv
  OBVIOUS
<1>1. LoginTypeOK
  <2>1. NoLogin \in Verification
    BY DEF NoLogin, Verification
  <2>2. codes \in Seq(Code) /\ Len(codes) <= MaxCodes
    BY AccountsAssumption DEF AccountsInit
  <2> QED
    BY <2>1, <2>2 DEF AccountsInit, LoginTypeOK
<1>2. SpeltInFull /\ SentInFull /\ CodesInUse /\ HeldByOne
  BY DEF SpeltInFull, SentInFull, CodesInUse, HeldByOne, Holds, AccountsInit, NoLogin
<1> QED
  BY <1>1, <1>2 DEF LoginInv

\* A new account is spelt in full, or its person is counted among the misspelt.
LEMMA AccountAdded ==
    ASSUME LoginInv, UNCHANGED <<codes, login, uses, overlapped>>,
           NEW p, NEW spelling, accounts' \subseteq accounts \cup {<<p, spelling>>},
           misspelt \subseteq misspelt', spelling # Full => p \in misspelt'
    PROVE  LoginInv'
<1>1. LoginTypeOK' /\ CodesInUse' /\ HeldByOne'
  BY DEF LoginInv, LoginTypeOK, CodesInUse, HeldByOne, Holds
<1>2. SpeltInFull' /\ SentInFull'
  BY DEF LoginInv, SpeltInFull, SentInFull, InFull
<1> QED
  BY <1>1, <1>2 DEF LoginInv

LEMMA LoginStays ==
    ASSUME LoginInv, UNCHANGED <<accounts, misspelt, codes, login, uses, overlapped>>
    PROVE  LoginInv'
  BY AccountAdded

\* Codes are added behind the others, and stay verified.
LEMMA CodesKept ==
    ASSUME LoginInv, UNCHANGED <<accounts, login, uses, overlapped>>,
           misspelt \subseteq misspelt', SentInFull',
           codes' \in Seq(Code), Len(codes') <= MaxCodes, DOMAIN codes \subseteq DOMAIN codes',
           \A i \in DOMAIN codes : codes[i].verified => codes'[i].verified
    PROVE  LoginInv'
<1> USE DEF LoginInv
<1>1. LoginTypeOK' /\ SpeltInFull'
  BY DEF LoginTypeOK, SpeltInFull, InFull
<1>2. CodesInUse'
  BY DEF CodesInUse
<1>3. HeldByOne'
  BY DEF HeldByOne, Holds
<1> QED
  BY <1>1, <1>2, <1>3

LEMMA CanonicalForm ==
    ASSUME NEW typed \in Spellings
    PROVE  Canonical(typed) \in Spellings /\ (typed \in Documented => Canonical(typed) = Full)
  BY DialledAssumption DEF Spellings, Documented, Canonical, Full

LEMMA SendOK ==
    ASSUME LoginInv, NEW p \in People, NEW typed \in Spellings, SendOtp(p, typed) PROVE LoginInv'
<1> DEFINE code == [phone |-> <<p, Canonical(typed)>>, verified |-> FALSE, expired |-> FALSE]
<1>0. Canonical(typed) \in Spellings /\ (typed \in Documented => Canonical(typed) = Full)
  BY CanonicalForm
<1>1. code \in Code /\ code.phone = <<p, Canonical(typed)>>
  BY <1>0 DEF Code
<1>2. codes \in Seq(Code) /\ Len(codes) < MaxCodes /\ codes' = Append(codes, code)
  BY DEF SendOtp, LoginInv, LoginTypeOK
<1>3. /\ UNCHANGED <<accounts, login, uses, overlapped>>
      /\ misspelt \subseteq misspelt' /\ (typed \notin Documented => p \in misspelt')
  BY DEF SendOtp, loginVars, Misspelt
<1> HIDE DEF code
<1>4. codes' \in Seq(Code) /\ Len(codes') = Len(codes) + 1
  BY <1>1, <1>2
<1>5. DOMAIN codes \subseteq DOMAIN codes' /\ \A i \in DOMAIN codes : codes'[i] = codes[i]
  BY <1>1, <1>2
<1>6. Len(codes') <= MaxCodes
  BY <1>2, <1>4, AccountsAssumption
<1>7. SentInFull'
  <2>1. \A i \in DOMAIN codes' \ DOMAIN codes : codes'[i] = code
    BY <1>1, <1>2
  <2>2. InFull(code.phone)'
    BY <1>0, <1>1, <1>3 DEF InFull
  <2>3. \A i \in DOMAIN codes : InFull(codes[i].phone)'
    BY <1>3, <1>5 DEF LoginInv, SentInFull, InFull
  <2> QED
    BY <2>1, <2>2, <2>3, <1>5 DEF SentInFull, InFull
<1> QED
  BY <1>3, <1>4, <1>5, <1>6, <1>7, CodesKept

LEMMA ExpiresOK == ASSUME LoginInv, NEW i \in DOMAIN codes, CodeExpires(i) PROVE LoginInv'
<1>1. codes' = [codes EXCEPT ![i].expired = TRUE]
      /\ UNCHANGED <<accounts, misspelt, login, uses, overlapped>>
  BY DEF CodeExpires, loginVars
<1>2. codes \in Seq(Code) /\ codes[i] \in Code
  BY DEF LoginInv, LoginTypeOK
<1>3. PICK code \in Code : code = [codes[i] EXCEPT !.expired = TRUE]
  BY <1>2 DEF Code
<1>4. code.verified = codes[i].verified /\ code.phone = codes[i].phone
  BY <1>2, <1>3 DEF Code
<1>5. codes' = [codes EXCEPT ![i] = code]
  BY <1>1, <1>3
<1>6. codes' \in Seq(Code) /\ Len(codes') = Len(codes) /\ DOMAIN codes' = DOMAIN codes
  BY <1>2, <1>5
<1>7. \A k \in DOMAIN codes : /\ codes'[k].verified = codes[k].verified
                               /\ codes'[k].phone = codes[k].phone
  BY <1>2, <1>4, <1>5
<1>8. SentInFull'
  BY <1>1, <1>6, <1>7 DEF LoginInv, SentInFull, InFull
<1> QED
  BY <1>1, <1>6, <1>7, <1>8, CodesKept DEF LoginInv, LoginTypeOK

LEMMA AskVerifyOK ==
    ASSUME LoginInv, NEW w \in Logins, NEW i \in DOMAIN codes, NEW typed \in Spellings,
           AskVerify(w, i, typed)
    PROVE  LoginInv'
<1> USE DEF LoginInv
<1>1. /\ login[w] = NoLogin /\ ~codes[i].verified
      /\ login' = [login EXCEPT ![w] = [code |-> i, pc |-> "accept"]]
      /\ overlapped' = IF \E x \in Logins \ {w} : login[x] = [code |-> i, pc |-> "accept"]
                         THEN overlapped \cup {i} ELSE overlapped
      /\ UNCHANGED <<accounts, misspelt, codes, uses>>
  BY DEF AskVerify, peopleVars
<1>2. i \in Nat /\ i \in 1..MaxCodes
  BY AccountsAssumption DEF LoginTypeOK
<1>3. /\ login'[w] = [code |-> i, pc |-> "accept"]
      /\ \A x \in Logins \ {w} : login'[x] = login[x]
  BY <1>1 DEF LoginTypeOK
<1>4. LoginTypeOK'
  BY <1>1, <1>2 DEF LoginTypeOK, Verification
<1>5. SpeltInFull' /\ SentInFull'
  BY <1>1 DEF SpeltInFull, SentInFull, InFull
<1>6. CodesInUse'
  BY <1>1, <1>3 DEF CodesInUse
<1>7. HeldByOne'
  <2> SUFFICES ASSUME NEW k \in 1..MaxCodes \ overlapped'
               PROVE  /\ uses[k] <= 1
                      /\ uses[k] # 0 => \A x \in Logins : ~Holds(x, k)'
                      /\ \A v, x \in Logins : Holds(v, k)' /\ Holds(x, k)' => v = x
    BY <1>1 DEF HeldByOne
  <2>1. k \in 1..MaxCodes \ overlapped
    BY <1>1
  <2>2. CASE k # i
    <3>1. \A x \in Logins : Holds(x, k)' => Holds(x, k)
      BY <2>2, <1>3 DEF Holds
    <3> QED
      BY <2>1, <3>1 DEF HeldByOne
  <2>3. CASE k = i
    <3>1. uses[k] = 0
      BY <2>3, <1>1, <1>2 DEF CodesInUse
    <3>2. ASSUME NEW x \in Logins \ {w} PROVE ~Holds(x, i)
      <4>1. login[x] \in Verification /\ login[x] # [code |-> i, pc |-> "accept"]
        BY <1>1, <2>3 DEF LoginTypeOK
      <4>2. ~(login[x].pc = "enter" /\ login[x].code = i)
        BY <1>1 DEF CodesInUse
      <4> QED
        BY <4>1, <4>2 DEF Verification, Holds
    <3>3. \A x \in Logins \ {w} : ~Holds(x, i)'
      BY <3>2, <1>3 DEF Holds
    <3> QED
      BY <2>3, <3>1, <3>3
  <2> QED
    BY <2>2, <2>3
<1> QED
  BY <1>4, <1>5, <1>6, <1>7

LEMMA AcceptOK == ASSUME LoginInv, NEW w \in Logins, AcceptCode(w) PROVE LoginInv'
<1> USE DEF LoginInv
<1>1. PICK i \in DOMAIN codes : i = login[w].code
  BY DEF AcceptCode, CodesInUse
<1>2. /\ login[w].pc = "accept" /\ login' = [login EXCEPT ![w].pc = "enter"]
      /\ codes' = [codes EXCEPT ![i].verified = TRUE]
      /\ UNCHANGED <<accounts, misspelt, uses, overlapped>>
  BY <1>1 DEF AcceptCode
<1>3. codes \in Seq(Code) /\ codes[i] \in Code
  BY DEF LoginTypeOK
<1>4. PICK code \in Code : code = [codes[i] EXCEPT !.verified = TRUE]
  BY <1>3 DEF Code
<1>5. code.verified /\ code.phone = codes[i].phone
  BY <1>3, <1>4 DEF Code
<1>6. codes' = [codes EXCEPT ![i] = code]
  BY <1>2, <1>4
<1>7. codes' \in Seq(Code) /\ Len(codes') = Len(codes) /\ DOMAIN codes' = DOMAIN codes
  BY <1>3, <1>6
<1>8. /\ codes'[i].verified /\ \A k \in DOMAIN codes : codes[k].verified => codes'[k].verified
      /\ \A k \in DOMAIN codes : codes'[k].phone = codes[k].phone
  BY <1>3, <1>5, <1>6
<1>9. /\ login'[w].pc = "enter" /\ login'[w].code = i
      /\ \A x \in Logins \ {w} : login'[x] = login[x]
  BY <1>1, <1>2 DEF LoginTypeOK, Verification
<1>10. LoginTypeOK' /\ SpeltInFull' /\ SentInFull'
  <2>1. LoginTypeOK'
    BY <1>2, <1>7 DEF LoginTypeOK, Verification
  <2>2. SpeltInFull' /\ SentInFull'
    BY <1>2, <1>7, <1>8 DEF SpeltInFull, SentInFull, InFull
  <2> QED
    BY <2>1, <2>2
<1>11. CodesInUse'
  BY <1>2, <1>5, <1>8, <1>9 DEF CodesInUse
<1>12. \A x \in Logins, k \in 1..MaxCodes : Holds(x, k)' <=> Holds(x, k)
  BY <1>1, <1>2, <1>9 DEF Holds
<1>13. HeldByOne'
  BY <1>2, <1>12 DEF HeldByOne
<1> QED
  BY <1>10, <1>11, <1>13

LEMMA SignInOK == ASSUME LoginInv, NEW w \in Logins, SignIn(w) PROVE LoginInv'
<1> USE DEF LoginInv
<1>1. PICK i \in DOMAIN codes : i = login[w].code
  BY DEF SignIn, CodesInUse
<1>2. /\ login[w].pc = "enter" /\ accounts' = accounts \cup {codes[i].phone}
      /\ uses' = [uses EXCEPT ![i] = @ + 1] /\ login' = [login EXCEPT ![w] = NoLogin]
      /\ UNCHANGED <<misspelt, codes, overlapped>>
  BY <1>1 DEF SignIn
<1>3. i \in 1..MaxCodes /\ codes[i].verified
  BY <1>1, <1>2, AccountsAssumption DEF LoginTypeOK, CodesInUse
<1>4. LoginTypeOK'
  <2>1. NoLogin \in Verification
    BY DEF Verification, NoLogin
  <2>2. uses' \in [1..MaxCodes -> Nat]
    <3>1. uses[i] + 1 \in Nat
      BY <1>3 DEF LoginTypeOK
    <3> QED
      BY <3>1, <1>2, <1>3 DEF LoginTypeOK
  <2>3. login' \in [Logins -> Verification]
    BY <2>1, <1>2 DEF LoginTypeOK
  <2> QED
    BY <2>2, <2>3, <1>2 DEF LoginTypeOK
<1>5. SpeltInFull' /\ SentInFull'
  BY <1>2 DEF SpeltInFull, SentInFull, InFull
<1>6. /\ login'[w] = NoLogin /\ \A x \in Logins \ {w} : login'[x] = login[x]
      /\ uses'[i] = uses[i] + 1 /\ \A k \in 1..MaxCodes \ {i} : uses'[k] = uses[k]
  BY <1>2, <1>3 DEF LoginTypeOK
<1>7. CodesInUse'
  BY <1>2, <1>3, <1>6 DEF CodesInUse, NoLogin
<1>8. HeldByOne'
  <2>1. Holds(w, i) /\ ~Holds(w, i)'
    BY <1>1, <1>2, <1>6 DEF Holds, NoLogin
  <2>2. \A x \in Logins, k \in 1..MaxCodes : Holds(x, k)' => Holds(x, k)
    BY <1>6 DEF Holds, NoLogin
  <2>3. \A k \in 1..MaxCodes \ overlapped' : k # i =>
          /\ uses'[k] <= 1
          /\ uses'[k] # 0 => \A x \in Logins : ~Holds(x, k)'
          /\ \A v, x \in Logins : Holds(v, k)' /\ Holds(x, k)' => v = x
    BY <1>2, <1>6, <2>2 DEF HeldByOne
  <2>4. i \notin overlapped' =>
          /\ uses'[i] <= 1
          /\ \A x \in Logins : ~Holds(x, i)'
    BY <1>2, <1>3, <1>6, <2>1, <2>2 DEF HeldByOne
  <2> QED
    BY <2>3, <2>4 DEF HeldByOne
<1> QED
  BY <1>4, <1>5, <1>7, <1>8

LEMMA LoginDiesOK == ASSUME LoginInv, NEW w \in Logins, LoginDies(w) PROVE LoginInv'
<1> USE DEF LoginInv
<1>1. login' = [login EXCEPT ![w] = NoLogin] /\ UNCHANGED <<accounts, misspelt, codes, uses, overlapped>>
  BY DEF LoginDies, peopleVars
<1>2. LoginTypeOK' /\ SpeltInFull' /\ SentInFull'
  BY <1>1 DEF LoginTypeOK, Verification, NoLogin, SpeltInFull, SentInFull, InFull
<1>3. CodesInUse'
  BY <1>1 DEF CodesInUse, NoLogin, LoginTypeOK
<1>4. \A x \in Logins, k \in 1..MaxCodes : Holds(x, k)' => Holds(x, k)
  BY <1>1 DEF Holds, NoLogin, LoginTypeOK
<1>5. HeldByOne'
  BY <1>1, <1>4 DEF HeldByOne
<1> QED
  BY <1>2, <1>3, <1>5

LEMMA RowAddsOK == ASSUME LoginInv, NEW j \in Uploads, RunRow(j) PROVE LoginInv'
<1> DEFINE row == runner[j].rows[runner[j].at + 1]
<1>1. PICK p : p = row.who
  OBVIOUS
<1>2. PICK spelling : spelling = row.spelling
  OBVIOUS
<1>3. UNCHANGED <<codes, login, uses, overlapped>>
  BY DEF RunRow, loginVars
<1>4. accounts' \subseteq accounts \cup {<<p, spelling>>} /\ misspelt \subseteq misspelt'
  BY <1>1, <1>2 DEF RunRow, Misspelt
<1>5. CASE RowFails(job[j].kind, row)
  <2>1. accounts' = accounts /\ misspelt' = misspelt
    BY <1>5 DEF RunRow, Misspelt
  <2> QED
    BY <1>3, <2>1, LoginStays
<1>6. CASE ~RowFails(job[j].kind, row)
  <2>1. spelling # Full => p \in misspelt'
    BY <1>1, <1>2, <1>6 DEF RunRow, Misspelt
  <2> QED
    BY <1>3, <1>4, <2>1, AccountAdded
<1> QED
  BY <1>5, <1>6

LEMMA AddedByHandOK ==
    ASSUME LoginInv, NEW p \in People, NEW typed \in Spellings,
           OnboardRider(p, typed) \/ AdminAddsUser(p, typed)
    PROVE  LoginInv'
<1>1. /\ UNCHANGED <<codes, login, uses, overlapped>>
      /\ accounts' \subseteq accounts \cup {<<p, typed>>} /\ misspelt \subseteq misspelt'
      /\ typed # Full => p \in misspelt'
  BY DEF OnboardRider, AdminAddsUser, loginVars, Misspelt
<1> QED
  BY <1>1, AccountAdded

LEMMA UploadsLeaveLogins ==
    ASSUME LoginInv, UNCHANGED <<peopleVars, loginVars, misspelt>> PROVE LoginInv'
  BY LoginStays DEF peopleVars, loginVars

(* Whatever prefixes the validator lets through, a person who types the    *)
(* number in a documented way has one account, unless a sheet, the ops     *)
(* board or the admin site stored it in another form than the full one;    *)
(* and a code signs in once unless two verifications held it unverified at *)
(* the same time.  Workers may die between accepting a code and signing    *)
(* in.                                                                     *)
THEOREM OneAccountPerPerson == AccountsSpec => []AccountPerPerson
<1>1. LoginInv /\ [AccountsNext]_accountsVars => LoginInv'
  <2> SUFFICES ASSUME LoginInv, [AccountsNext]_accountsVars PROVE LoginInv'
    OBVIOUS
  <2>1. CASE UNCHANGED accountsVars
    BY <2>1, UploadsLeaveLogins DEF accountsVars
  <2>2. CASE AccountsNext
    <3>1. ASSUME NEW j \in Uploads,
                 \/ \E kind \in {"customers", "riders"}, rows \in Files : Upload(j, kind, rows)
                 \/ RunnerBegins(j) \/ ReportProgress(j) \/ RunnerFinishes(j) \/ RunnerFails(j)
          PROVE  LoginInv'
      BY <3>1, UploadsLeaveLogins
         DEF Upload, RunnerBegins, ReportProgress, RunnerFinishes, RunnerFails
    <3>2. WebRestart => LoginInv'
      BY UploadsLeaveLogins DEF WebRestart
    <3> QED
      BY <2>2, <3>1, <3>2, SendOK, AddedByHandOK, ExpiresOK, AskVerifyOK, AcceptOK, SignInOK,
         LoginDiesOK, RowAddsOK DEF AccountsNext
  <2> QED
    BY <2>1, <2>2
<1>2. LoginInv => AccountPerPerson
  <2> SUFFICES ASSUME LoginInv PROVE AccountPerPerson
    OBVIOUS
  <2>1. ASSUME NEW p \in People \ misspelt PROVE Cardinality({a \in accounts : a[1] = p}) <= 1
    <3> DEFINE own == {a \in accounts : a[1] = p}
    <3>1. own \subseteq {<<p, Full>>}
      BY DEF LoginInv, SpeltInFull, InFull
    <3>2. IsFiniteSet({<<p, Full>>}) /\ Cardinality({<<p, Full>>}) = 1
      BY FS_Singleton
    <3> HIDE DEF own
    <3>3. Cardinality(own) <= Cardinality({<<p, Full>>})
      BY <3>1, <3>2, FS_Subset
    <3> QED
      BY <3>2, <3>3 DEF own
  <2> QED
    BY <2>1 DEF AccountPerPerson, LoginInv, HeldByOne
<1> QED
  BY <1>1, <1>2, LoginStart, PTL DEF AccountsSpec

-----------------------------------------------------------------------------
(* Bulk imports.                                                           *)

Runner == [pc : {"none", "begin", "row", "report", "finish", "done", "killed"},
           rows : Seq(SheetRow),
           at : Nat, success : Nat, errors : Nat, kept : Nat]

Job == [status : {"absent", "pending", "processing", "completed", "failed"},
        kind : {"", "customers", "riders"}, total : Nat, processed : Nat,
        success : Nat, errors : Nat, kept : Nat]

ImportTypeOK == job \in [Uploads -> Job] /\ runner \in [Uploads -> Runner]

\* What the panel may see of a run that has come so far.
Capped(n) == IF n < KeepErrors THEN n ELSE KeepErrors

Counted(j) ==
    LET r == runner[j]
        seen == job[j].processed
    IN  /\ r.success + r.errors = r.at /\ r.kept = Capped(r.errors)
        /\ r.pc = "none" <=> job[j].status = "absent"
        /\ r.pc = "begin" => r.at = 0 /\ seen = 0 /\ job[j].total > 0 /\ job[j].status = "pending"
        /\ r.pc = "row" => r.at < job[j].total /\ seen <= r.at /\ r.at - seen < ReportEvery
        /\ r.pc = "report" => r.at <= job[j].total /\ seen <= r.at /\ r.at - seen <= ReportEvery
        /\ r.pc = "report" => r.at = job[j].total \/ r.at % ReportEvery = 0
        /\ r.pc \in {"row", "report"} => job[j].status = "processing" /\ seen % ReportEvery = 0
        /\ r.pc = "finish" => r.at = job[j].total /\ seen = r.at /\ job[j].status = "processing"
        /\ r.pc = "done" => job[j].status \in {"completed", "failed"}
        /\ r.pc = "killed" => job[j].status \in {"pending", "processing"} /\ r.at - seen <= ReportEvery
        /\ job[j].status = "completed" =>
              /\ seen = job[j].total /\ job[j].success + job[j].errors = seen
              /\ job[j].kept = Capped(job[j].errors)

ImportInv == ImportTypeOK /\ \A j \in Uploads : Counted(j)

-----------------------------------------------------------------------------
LEMMA MultipleOf == ASSUME NEW q \in Nat, NEW d \in Nat \ {0} PROVE (q * d) % d = 0
<1> DEFINE r == (q * d) % d
           k == (q * d) \div d
<1>1. r \in 0..d - 1 /\ k \in Int /\ q * d = d * k + r
  OBVIOUS
<1> HIDE DEF r, k
<1>2. r = d * (q - k)
  BY <1>1
<1>3. CASE q - k <= 0
  <2>1. d * (q - k) <= 0
    BY <1>1, <1>3
  <2> QED
    BY <2>1, <1>1, <1>2
<1>4. CASE q - k >= 1
  <2>1. d * (q - k) >= d
    BY <1>1, <1>4
  <2> QED
    BY <2>1, <1>1, <1>2
<1>5. r = 0
  BY <1>1, <1>3, <1>4
<1> QED
  BY <1>5 DEF r

\* The report after a report is due when as many rows as that are done.
LEMMA NextMultiple ==
    ASSUME NEW s \in Nat, NEW d \in Nat \ {0}, s % d = 0 PROVE (s + d) % d = 0
<1>1. PICK q \in Int : q = s \div d
  OBVIOUS
<1>2. s = d * q
  BY <1>1
<1>3. q \in Nat
  BY <1>2
<1>4. s + d = (q + 1) * d /\ q + 1 \in Nat
  BY <1>2, <1>3
<1>5. ((q + 1) * d) % d = 0
  BY <1>4, MultipleOf
<1> QED
  BY <1>4, <1>5

LEMMA ImportStart == AccountsInit => ImportInv
<1> SUFFICES ASSUME AccountsInit PROVE ImportInv
  OBVIOUS
<1>1. NoJob \in Job /\ NoRunner \in Runner
  BY DEF NoJob, Job, NoRunner, Runner
<1>2. ImportTypeOK
  BY <1>1 DEF AccountsInit, ImportTypeOK
<1>3. ASSUME NEW j \in Uploads PROVE Counted(j)
  <2>1. job[j] = NoJob /\ runner[j] = NoRunner
    <3>1. job = [k \in Uploads |-> NoJob] /\ runner = [k \in Uploads |-> NoRunner]
      BY DEF AccountsInit
    <3> QED
      BY <3>1
  <2>2. job[j].status = "absent"
    <3>1. NoJob.status = "absent"
      BY DEF NoJob
    <3> QED
      BY <2>1, <3>1
  <2>3. /\ runner[j].pc = "none" /\ runner[j].at = 0
        /\ runner[j].success = 0 /\ runner[j].errors = 0 /\ runner[j].kept = 0
    BY <2>1 DEF NoRunner
  <2> QED
    BY <2>2, <2>3, BoundsNatural DEF Counted, Capped
<1> QED
  BY <1>2, <1>3 DEF ImportInv

\* A step of one upload leaves the others alone.
LEMMA OneUpload ==
    ASSUME ImportInv, NEW j \in Uploads, NEW newJob \in Job, NEW newRunner \in Runner,
           job' = [job EXCEPT ![j] = newJob], runner' = [runner EXCEPT ![j] = newRunner],
           job'[j] = newJob /\ runner'[j] = newRunner => Counted(j)'
    PROVE  ImportInv'
<1>1. ImportTypeOK' /\ job'[j] = newJob /\ runner'[j] = newRunner
  BY DEF ImportInv, ImportTypeOK
<1>2. ASSUME NEW k \in Uploads \ {j} PROVE Counted(k)'
  BY DEF ImportInv, ImportTypeOK, Counted
<1> QED
  BY <1>1, <1>2 DEF ImportInv

LEMMA UploadOK ==
    ASSUME ImportInv, NEW j \in Uploads, NEW kind \in {"customers", "riders"}, NEW rows \in Files,
           Upload(j, kind, rows)
    PROVE  ImportInv'
<1>1. rows \in Seq(SheetRow) /\ Len(rows) \in Nat \ {0}
  BY AccountsAssumption DEF Upload
<1>2. PICK new \in Job : new = [NoJob EXCEPT !.status = "pending", !.kind = kind, !.total = Len(rows)]
  BY <1>1 DEF Job, NoJob
<1>3. PICK run \in Runner : run = [NoRunner EXCEPT !.pc = "begin", !.rows = rows]
  BY <1>1 DEF Runner, NoRunner
<1>4. job' = [job EXCEPT ![j] = new] /\ runner' = [runner EXCEPT ![j] = run]
  BY <1>2, <1>3 DEF Upload
<1>5. /\ new.status = "pending" /\ new.total > 0 /\ new.processed = 0
      /\ run.pc = "begin" /\ run.at = 0 /\ run.success = 0 /\ run.errors = 0 /\ run.kept = 0
  BY <1>1, <1>2, <1>3 DEF NoJob, NoRunner
<1>6. job'[j] = new /\ runner'[j] = run => Counted(j)'
  BY <1>5, BoundsNatural DEF Counted, Capped, NoJob
<1> QED
  BY <1>4, <1>6, OneUpload

LEMMA BeginsOK == ASSUME ImportInv, NEW j \in Uploads, RunnerBegins(j) PROVE ImportInv'
<1>1. job[j] \in Job /\ runner[j] \in Runner /\ runner[j].pc = "begin" /\ Counted(j)
  BY DEF ImportInv, ImportTypeOK, RunnerBegins
<1>2. PICK new \in Job : new = [job[j] EXCEPT !.status = "processing"]
  BY <1>1 DEF Job
<1>3. PICK run \in Runner : run = [runner[j] EXCEPT !.pc = "row"]
  BY <1>1 DEF Runner
<1>4. job' = [job EXCEPT ![j] = new] /\ runner' = [runner EXCEPT ![j] = run]
  BY <1>2, <1>3 DEF RunnerBegins
<1>5. 0 % ReportEvery = 0
  BY MultipleOf, BoundsNatural
<1>6. /\ new.status = "processing" /\ new.total = job[j].total /\ new.processed = 0
      /\ run.pc = "row" /\ run.at = 0 /\ run.success = runner[j].success
      /\ run.errors = runner[j].errors /\ run.kept = runner[j].kept
      /\ new.total > 0 /\ new.total \in Nat
  BY <1>1, <1>2, <1>3 DEF Counted, Job, Runner
<1>7. job'[j] = new /\ runner'[j] = run => Counted(j)'
  BY <1>1, <1>5, <1>6, BoundsNatural DEF Counted, Capped, NoJob
<1> QED
  BY <1>4, <1>7, OneUpload

LEMMA RunRowOK == ASSUME ImportInv, NEW j \in Uploads, RunRow(j) PROVE ImportInv'
<1> DEFINE r     == runner[j]
           fails == RowFails(job[j].kind, r.rows[r.at + 1])
<1>1. job[j] \in Job /\ r \in Runner /\ r.pc = "row" /\ Counted(j)
  BY DEF ImportInv, ImportTypeOK, RunRow
<1>2. PICK at \in Nat : at = r.at + 1
  BY <1>1 DEF Runner
<1>3. PICK bad \in BOOLEAN : bad = fails
  BY DEF RowFails
<1>4. PICK due \in BOOLEAN : due = ReportDue(at, job[j].total)
  BY DEF ReportDue
<1>5. PICK run \in Runner :
        /\ run = [r EXCEPT !.at = @ + 1,
                        !.success = IF bad THEN @ ELSE @ + 1,
                        !.errors = IF bad THEN @ + 1 ELSE @,
                        !.kept = IF bad /\ @ < KeepErrors THEN @ + 1 ELSE @,
                        !.pc = IF due THEN "report" ELSE "row"]
        /\ run.at = at /\ run.success = IF bad THEN r.success ELSE r.success + 1
        /\ run.errors = IF bad THEN r.errors + 1 ELSE r.errors
        /\ run.kept = IF bad /\ r.kept < KeepErrors THEN r.kept + 1 ELSE r.kept
        /\ run.pc = IF due THEN "report" ELSE "row"
  <2>1. PICK success \in Nat : success = IF bad THEN r.success ELSE r.success + 1
    BY <1>1 DEF Runner
  <2>2. PICK errors \in Nat : errors = IF bad THEN r.errors + 1 ELSE r.errors
    BY <1>1 DEF Runner
  <2>3. PICK kept \in Nat : kept = IF bad /\ r.kept < KeepErrors THEN r.kept + 1 ELSE r.kept
    BY <1>1 DEF Runner
  <2>4. PICK pc \in {"report", "row"} : pc = IF due THEN "report" ELSE "row"
    OBVIOUS
  <2> DEFINE new == [r EXCEPT !.at = at, !.success = success, !.errors = errors, !.kept = kept, !.pc = pc]
  <2>5. /\ new \in Runner /\ new.at = at /\ new.success = success /\ new.errors = errors
        /\ new.kept = kept /\ new.pc = pc
    BY <1>1 DEF Runner
  <2>6. new = [r EXCEPT !.at = @ + 1,
                        !.success = IF bad THEN @ ELSE @ + 1,
                        !.errors = IF bad THEN @ + 1 ELSE @,
                        !.kept = IF bad /\ @ < KeepErrors THEN @ + 1 ELSE @,
                        !.pc = IF due THEN "report" ELSE "row"]
    BY <1>1, <1>2, <2>1, <2>2, <2>3, <2>4 DEF Runner
  <2> HIDE DEF new
  <2> QED
    BY <2>1, <2>2, <2>3, <2>4, <2>5, <2>6
<1>6. job' = [job EXCEPT ![j] = job[j]] /\ runner' = [runner EXCEPT ![j] = run]
  BY <1>2, <1>3, <1>4, <1>5 DEF RunRow, ImportInv, ImportTypeOK
<1>8. /\ r.success \in Nat /\ r.errors \in Nat /\ r.kept \in Nat /\ r.at \in Nat
      /\ job[j].total \in Nat /\ job[j].processed \in Nat
  BY <1>1 DEF Runner, Job
<1>9. run.success + run.errors = run.at /\ run.kept = Capped(run.errors)
  <2>1. r.success + r.errors = r.at /\ r.kept = Capped(r.errors)
    BY <1>1 DEF Counted
  <2> QED
    BY <2>1, <1>2, <1>5, <1>8, BoundsNatural DEF Capped
<1>10. /\ r.at < job[j].total /\ job[j].processed <= r.at /\ r.at - job[j].processed < ReportEvery
       /\ job[j].status = "processing" /\ job[j].processed % ReportEvery = 0
  BY <1>1 DEF Counted
<1>11. at <= job[j].total /\ job[j].processed <= at /\ at - job[j].processed <= ReportEvery
  BY <1>2, <1>8, <1>10, BoundsNatural
<1>12. due => at = job[j].total \/ at % ReportEvery = 0
  BY <1>4 DEF ReportDue
<1>13. ~due => at < job[j].total /\ at - job[j].processed < ReportEvery
  <2> SUFFICES ASSUME ~due PROVE at < job[j].total /\ at - job[j].processed < ReportEvery
    OBVIOUS
  <2>1. at # job[j].total /\ at % ReportEvery # 0
    BY <1>4 DEF ReportDue
  <2>2. at # job[j].processed + ReportEvery
    BY <2>1, <1>8, <1>10, NextMultiple, BoundsNatural
  <2> QED
    BY <2>1, <2>2, <1>8, <1>11, BoundsNatural
<1>14. job'[j] = job[j] /\ runner'[j] = run => Counted(j)'
  <2> SUFFICES ASSUME job'[j] = job[j], runner'[j] = run PROVE Counted(j)'
    OBVIOUS
  <2> QED
    BY <1>5, <1>9, <1>10, <1>11, <1>12, <1>13 DEF Counted
<1> QED
  BY <1>1, <1>6, <1>14, OneUpload

\* What a report copies to the row of the job.
LEMMA ProgressCopies ==
    ASSUME ImportInv, NEW j \in Uploads, NEW status \in {"processing", "completed"}, Progress(j, status)
    PROVE  \E new \in Job :
              /\ job' = [job EXCEPT ![j] = new]
              /\ new.status = status /\ new.total = job[j].total /\ new.processed = runner[j].at
              /\ new.success = runner[j].success /\ new.errors = runner[j].errors
              /\ new.kept = runner[j].kept
<1>1. job[j] \in Job /\ runner[j] \in Runner
  BY DEF ImportInv, ImportTypeOK
<1>2. PICK new \in Job :
        new = [job[j] EXCEPT !.status = status, !.processed = runner[j].at,
                 !.success = runner[j].success, !.errors = runner[j].errors, !.kept = runner[j].kept]
  BY <1>1 DEF Job, Runner
<1>3. job' = [job EXCEPT ![j] = new]
  BY <1>2 DEF Progress
<1> QED
  BY <1>1, <1>2, <1>3 DEF Job

LEMMA ReportOK == ASSUME ImportInv, NEW j \in Uploads, ReportProgress(j) PROVE ImportInv'
<1>1. job[j] \in Job /\ runner[j] \in Runner /\ runner[j].pc = "report" /\ Counted(j)
  BY DEF ImportInv, ImportTypeOK, ReportProgress
<1>2. job[j].status = "processing" /\ Progress(j, "processing")
  BY <1>1 DEF Counted, ReportProgress
<1>3. PICK new \in Job :
              /\ job' = [job EXCEPT ![j] = new]
              /\ new.status = "processing" /\ new.total = job[j].total /\ new.processed = runner[j].at
  BY <1>2, ProgressCopies
<1>4. PICK run \in Runner :
        run = [runner[j] EXCEPT !.pc = IF runner[j].at = job[j].total THEN "finish" ELSE "row"]
  BY <1>1 DEF Runner
<1>5. runner' = [runner EXCEPT ![j] = run]
  BY <1>4 DEF ReportProgress
<1>6. /\ run.at = runner[j].at /\ run.success = runner[j].success /\ run.errors = runner[j].errors
      /\ run.kept = runner[j].kept /\ run.at \in Nat /\ new.total \in Nat
      /\ run.pc = IF run.at = new.total THEN "finish" ELSE "row"
  BY <1>1, <1>3, <1>4 DEF Runner, Job
<1>7. job'[j] = new /\ runner'[j] = run => Counted(j)'
  <2> SUFFICES ASSUME job'[j] = new, runner'[j] = run PROVE Counted(j)'
    OBVIOUS
  <2>2. /\ run.success + run.errors = run.at /\ run.kept = Capped(run.errors)
        /\ run.at <= new.total /\ (run.at = new.total \/ run.at % ReportEvery = 0)
    BY <1>1, <1>3, <1>6 DEF Counted
  <2>3. run.pc = "row" => run.at < new.total /\ run.at % ReportEvery = 0
    BY <2>2, <1>6
  <2>4. run.at <= run.at /\ run.at - run.at < ReportEvery
    BY <1>6, BoundsNatural
  <2> QED
    BY <2>2, <2>3, <2>4, <1>3, <1>6 DEF Counted
<1> QED
  BY <1>3, <1>5, <1>7, OneUpload

LEMMA FinishOK == ASSUME ImportInv, NEW j \in Uploads, RunnerFinishes(j) PROVE ImportInv'
<1>1. job[j] \in Job /\ runner[j] \in Runner /\ runner[j].pc = "finish" /\ Counted(j)
  BY DEF ImportInv, ImportTypeOK, RunnerFinishes
<1>2. PICK new \in Job :
              /\ job' = [job EXCEPT ![j] = new]
              /\ new.status = "completed" /\ new.total = job[j].total /\ new.processed = runner[j].at
              /\ new.success = runner[j].success /\ new.errors = runner[j].errors
              /\ new.kept = runner[j].kept
  BY ProgressCopies DEF RunnerFinishes
<1>3. PICK run \in Runner : run = [runner[j] EXCEPT !.pc = "done"]
  BY <1>1 DEF Runner
<1>4. runner' = [runner EXCEPT ![j] = run]
  BY <1>3 DEF RunnerFinishes
<1>5. /\ run.pc = "done" /\ run.at = runner[j].at /\ run.success = runner[j].success
      /\ run.errors = runner[j].errors /\ run.kept = runner[j].kept
  BY <1>1, <1>3 DEF Runner
<1>6. job'[j] = new /\ runner'[j] = run => Counted(j)'
  BY <1>1, <1>2, <1>5 DEF Counted, NoJob
<1> QED
  BY <1>2, <1>4, <1>6, OneUpload

LEMMA FailsOK == ASSUME ImportInv, NEW j \in Uploads, RunnerFails(j) PROVE ImportInv'
<1>1. job[j] \in Job /\ runner[j] \in Runner /\ runner[j].pc \in {"begin", "report", "finish"} /\ Counted(j)
  BY DEF ImportInv, ImportTypeOK, RunnerFails
<1>2. PICK new \in Job, pc \in {"done", "killed"} :
        /\ job' = [job EXCEPT ![j] = new] /\ runner' = [runner EXCEPT ![j].pc = pc]
        /\ \/ new = [job[j] EXCEPT !.status = "failed"] /\ pc = "done"
           \/ new = job[j] /\ pc = "killed"
  <2> DEFINE failed == [job[j] EXCEPT !.status = "failed"]
  <2>1. failed \in Job
    BY <1>1 DEF Job
  <2>2. job = [job EXCEPT ![j] = job[j]]
    BY DEF ImportInv, ImportTypeOK
  <2> QED
    BY <1>1, <2>1, <2>2 DEF RunnerFails
<1>3. PICK run \in Runner : run = [runner[j] EXCEPT !.pc = pc]
  BY <1>1 DEF Runner
<1>4. runner' = [runner EXCEPT ![j] = run]
  BY <1>2, <1>3
<1>5. /\ run.pc = pc /\ run.at = runner[j].at
      /\ run.success = runner[j].success /\ run.errors = runner[j].errors /\ run.kept = runner[j].kept
  BY <1>1, <1>3 DEF Runner
<1>6. job'[j] = new /\ runner'[j] = run => Counted(j)'
  <2>1. CASE new = [job[j] EXCEPT !.status = "failed"] /\ pc = "done"
    <3>1. new.status = "failed" /\ run.pc = "done"
      BY <1>1, <1>5, <2>1 DEF Job
    <3>2. runner[j].success + runner[j].errors = runner[j].at
          /\ runner[j].kept = Capped(runner[j].errors)
      BY <1>1 DEF Counted
    <3> QED
      BY <1>5, <3>1, <3>2 DEF Counted
  <2>2. CASE new = job[j] /\ pc = "killed"
    <3>1. runner[j].at \in Nat /\ job[j].processed \in Nat
      BY <1>1 DEF Runner, Job
    <3>2. job[j].status \in {"pending", "processing"} /\ runner[j].at - job[j].processed <= ReportEvery
      BY <1>1, <3>1, BoundsNatural DEF Counted
    <3> QED
      BY <1>1, <1>5, <2>2, <3>2 DEF Counted, NoJob
  <2> QED
    BY <1>2, <2>1, <2>2
<1> QED
  BY <1>2, <1>4, <1>6, OneUpload

LEMMA RestartOK == ASSUME ImportInv, WebRestart PROVE ImportInv'
<1>1. /\ runner' = [j \in Uploads |-> IF runner[j].pc \in {"none", "done"} THEN runner[j]
                                        ELSE [runner[j] EXCEPT !.pc = "killed"]]
      /\ job' = job
  BY DEF WebRestart
<1>2. ImportTypeOK'
  BY <1>1 DEF ImportInv, ImportTypeOK, Runner
<1>3. ASSUME NEW j \in Uploads PROVE Counted(j)'
  <2>1. job[j] \in Job /\ runner[j] \in Runner /\ Counted(j)
    BY DEF ImportInv, ImportTypeOK
  <2>2. CASE runner[j].pc \in {"none", "done"}
    BY <2>1, <2>2, <1>1 DEF Counted
  <2>3. CASE runner[j].pc \notin {"none", "done"}
    <3>1. /\ runner'[j].pc = "killed" /\ runner'[j].at = runner[j].at
          /\ runner'[j].success = runner[j].success /\ runner'[j].errors = runner[j].errors
          /\ runner'[j].kept = runner[j].kept
      BY <2>1, <2>3, <1>1 DEF Runner
    <3>2. /\ job[j].status \in {"pending", "processing"}
          /\ runner[j].at - job[j].processed <= ReportEvery
      <4>1. runner[j].at \in Nat /\ job[j].processed \in Nat
        BY <2>1 DEF Runner, Job
      <4>2. runner[j].pc \in {"begin", "row", "report", "finish", "killed"}
        BY <2>1, <2>3 DEF Runner
      <4> QED
        BY <4>1, <4>2, <2>1, BoundsNatural DEF Counted
    <3> QED
      BY <2>1, <2>3, <3>1, <3>2, <1>1 DEF Counted
  <2> QED
    BY <2>2, <2>3
<1> QED
  BY <1>2, <1>3 DEF ImportInv

LEMMA ImportKept == ASSUME ImportInv, [AccountsNext]_accountsVars PROVE ImportInv'
<1>1. ASSUME UNCHANGED jobVars PROVE ImportInv'
  BY <1>1 DEF jobVars, ImportInv, ImportTypeOK, Counted
<1>2. CASE UNCHANGED accountsVars
  BY <1>1, <1>2 DEF accountsVars
<1>3. CASE AccountsNext
  <2>1. ASSUME NEW p \in People, NEW typed \in Spellings,
               SendOtp(p, typed) \/ OnboardRider(p, typed) \/ AdminAddsUser(p, typed)
        PROVE  ImportInv'
    BY <2>1, <1>1 DEF SendOtp, OnboardRider, AdminAddsUser
  <2>2. ASSUME NEW i \in DOMAIN codes,
               CodeExpires(i) \/ \E w \in Logins, typed \in Spellings : AskVerify(w, i, typed)
        PROVE  ImportInv'
    BY <2>2, <1>1 DEF CodeExpires, AskVerify
  <2>3. ASSUME NEW w \in Logins, AcceptCode(w) \/ SignIn(w) \/ LoginDies(w) PROVE ImportInv'
    BY <2>3, <1>1 DEF AcceptCode, SignIn, LoginDies
  <2> QED
    BY <1>3, <2>1, <2>2, <2>3, UploadOK, BeginsOK, RunRowOK, ReportOK, FinishOK, FailsOK, RestartOK
    DEF AccountsNext
<1> QED
  BY <1>2, <1>3

LEMMA PanelAgrees == ASSUME ImportInv, NEW j \in Uploads PROVE Reported(j)
<1>1. job[j] \in Job /\ runner[j] \in Runner /\ Counted(j)
  BY DEF ImportInv, ImportTypeOK
<1>2. runner[j].at \in Nat /\ job[j].processed \in Nat
  BY <1>1 DEF Runner, Job
<1>3. runner[j].pc \in {"none", "begin", "row", "report", "finish", "done", "killed"}
  BY <1>1 DEF Runner
<1> QED
  BY <1>2, <1>3, <1>1, BoundsNatural DEF Counted, Reported, Capped

-----------------------------------------------------------------------------
(* Riders made by sheets: those that are riders and whom the ops board did *)
(* not add.  The board adds nobody who is a rider already.                 *)
BySheet == [j \in Uploads |-> RidersOf(j)]

RidersInv ==
    /\ IsFiniteSet(riders) /\ onboarded \subseteq riders
    /\ Cardinality(riders \ onboarded) = SumOf(BySheet)

LEMMA UploadsFinite == IsFiniteSet(Uploads)
  BY AccountsAssumption

LEMMA NoJobHasNoKind == NoJob.kind # "riders"
  BY DEF NoJob

LEMMA BySheetType == ImportInv => BySheet \in [Uploads -> Int]
<1> SUFFICES ASSUME ImportInv, NEW j \in Uploads PROVE RidersOf(j) \in Int
  BY DEF BySheet
<1>1. runner[j] \in Runner
  BY DEF ImportInv, ImportTypeOK
<1> QED
  BY <1>1 DEF Runner, RidersOf

LEMMA RidersStart == AccountsInit => RidersInv
<1> SUFFICES ASSUME AccountsInit PROVE RidersInv
  OBVIOUS
<1>1. riders = {} /\ onboarded = {} /\ riders \ onboarded = {}
  BY DEF AccountsInit
<1>2. \A j \in Uploads : job[j] = NoJob
  BY DEF AccountsInit
<1>3. \A j \in Uploads : BySheet[j] = 0
  BY <1>2, NoJobHasNoKind DEF BySheet, RidersOf
<1>4. BySheet \in [Uploads -> Int]
  BY ImportStart, BySheetType
<1>5. SumOf(BySheet) = 0
  BY <1>3, <1>4, UploadsFinite, SumOfZeros
<1>6. IsFiniteSet({}) /\ Cardinality({}) = 0
  BY FS_EmptySet
<1> QED
  BY <1>1, <1>5, <1>6 DEF RidersInv

\* A step that makes no rider and counts none.
LEMMA NoNewRider ==
    ASSUME RidersInv, UNCHANGED <<riders, onboarded>>,
           \A j \in Uploads : RidersOf(j)' = RidersOf(j)
    PROVE  RidersInv'
<1>1. BySheet' = BySheet
  BY DEF BySheet
<1> QED
  BY <1>1 DEF RidersInv

LEMMA UploadMakesNone ==
    ASSUME ImportInv, RidersInv, NEW j \in Uploads, NEW kind \in {"customers", "riders"},
           NEW rows \in Files, Upload(j, kind, rows)
    PROVE  RidersInv'
<1>1. /\ job[j] = NoJob /\ UNCHANGED <<riders, onboarded>>
      /\ runner' = [runner EXCEPT ![j] = [NoRunner EXCEPT !.pc = "begin", !.rows = rows]]
      /\ \A k \in Uploads \ {j} : job'[k] = job[k] /\ runner'[k] = runner[k]
  BY DEF Upload, peopleVars, ImportInv, ImportTypeOK
<1>2. runner'[j].success = 0
  BY <1>1 DEF NoRunner, ImportInv, ImportTypeOK
<1>3. RidersOf(j) = 0 /\ RidersOf(j)' = 0
  BY <1>1, <1>2, NoJobHasNoKind DEF RidersOf
<1>4. \A k \in Uploads \ {j} : RidersOf(k)' = RidersOf(k)
  BY <1>1 DEF RidersOf
<1> QED
  BY <1>1, <1>3, <1>4, NoNewRider

LEMMA OtherStepsMakeNone ==
    ASSUME ImportInv, RidersInv, NEW j \in Uploads,
           RunnerBegins(j) \/ ReportProgress(j) \/ RunnerFinishes(j) \/ RunnerFails(j)
    PROVE  RidersInv'
<1>1. UNCHANGED <<riders, onboarded>>
  BY DEF RunnerBegins, ReportProgress, RunnerFinishes, RunnerFails, peopleVars
<1>2. PICK pc : runner' = [runner EXCEPT ![j].pc = pc]
  BY DEF RunnerBegins, ReportProgress, RunnerFinishes, RunnerFails
<1>3. \A k \in Uploads : runner'[k].success = runner[k].success
  BY <1>2 DEF ImportInv, ImportTypeOK, Runner
<1>4. PICK one : job' = [job EXCEPT ![j] = one] /\ one.kind = job[j].kind
  <2>1. job[j] \in Job
    BY DEF ImportInv, ImportTypeOK
  <2>2. CASE RunnerBegins(j)
    <3>1. PICK one : one = [job[j] EXCEPT !.status = "processing"]
      OBVIOUS
    <3>2. job' = [job EXCEPT ![j] = one] /\ one.kind = job[j].kind
      BY <2>1, <2>2, <3>1 DEF RunnerBegins, Job
    <3> QED
      BY <3>2
  <2>5. CASE RunnerFails(j) /\ job' = job
    <3>1. job = [job EXCEPT ![j] = job[j]]
      BY DEF ImportInv, ImportTypeOK
    <3> QED
      BY <2>5, <3>1
  <2>3. CASE RunnerFails(j) /\ job' # job
    <3>1. PICK one : one = [job[j] EXCEPT !.status = "failed"]
      OBVIOUS
    <3>2. job' = [job EXCEPT ![j] = one] /\ one.kind = job[j].kind
      BY <2>1, <2>3, <3>1 DEF RunnerFails, Job
    <3> QED
      BY <3>2
  <2>4. CASE ReportProgress(j) \/ RunnerFinishes(j)
    <3>1. PICK status : Progress(j, status)
      BY <2>4 DEF ReportProgress, RunnerFinishes
    <3>2. PICK one : one = [job[j] EXCEPT !.status = status, !.processed = runner[j].at,
              !.success = runner[j].success, !.errors = runner[j].errors, !.kept = runner[j].kept]
      OBVIOUS
    <3>3. job' = [job EXCEPT ![j] = one] /\ one.kind = job[j].kind
      BY <2>1, <3>1, <3>2 DEF Progress, Job
    <3> QED
      BY <3>3
  <2> QED
    BY <2>2, <2>3, <2>4, <2>5
<1>5. \A k \in Uploads : job'[k].kind = job[k].kind
  BY <1>4 DEF ImportInv, ImportTypeOK
<1> QED
  BY <1>1, <1>3, <1>5, NoNewRider DEF RidersOf

LEMMA RestartMakesNone == ASSUME ImportInv, RidersInv, WebRestart PROVE RidersInv'
<1>1. UNCHANGED <<riders, onboarded, job>>
  BY DEF WebRestart, peopleVars
<1>2. ASSUME NEW k \in Uploads PROVE runner'[k].success = runner[k].success
  <2>1. runner[k] \in Runner
    BY DEF ImportInv, ImportTypeOK
  <2>2. runner'[k] = runner[k] \/ runner'[k] = [runner[k] EXCEPT !.pc = "killed"]
    BY DEF WebRestart
  <2> QED
    BY <2>1, <2>2 DEF Runner
<1> QED
  BY <1>1, <1>2, NoNewRider DEF RidersOf

LEMMA OnboardMakesNone ==
    ASSUME RidersInv, NEW p, NEW typed, OnboardRider(p, typed) PROVE RidersInv'
<1> DEFINE user == <<p, typed>>
<1>1. /\ user \notin riders /\ UNCHANGED jobVars
      /\ \/ riders' = riders \cup {user} /\ onboarded' = onboarded \cup {user}
         \/ UNCHANGED <<riders, onboarded>>
  BY DEF OnboardRider
<1> HIDE DEF user
<1>2. CASE UNCHANGED <<riders, onboarded>>
  BY <1>1, <1>2, NoNewRider DEF RidersOf, jobVars
<1>3. CASE riders' = riders \cup {user} /\ onboarded' = onboarded \cup {user}
  <2>1. riders' \ onboarded' = riders \ onboarded /\ onboarded' \subseteq riders'
    BY <1>1, <1>3 DEF RidersInv
  <2>2. BySheet' = BySheet
    BY <1>1 DEF BySheet, RidersOf, jobVars
  <2>3. IsFiniteSet(riders')
    BY <1>3, FS_AddElement DEF RidersInv
  <2> QED
    BY <2>1, <2>2, <2>3 DEF RidersInv
<1> QED
  BY <1>1, <1>2, <1>3

\* One more rider, not of the board, and one more success of one sheet.
LEMMA RiderMade ==
    ASSUME RidersInv, NEW user, user \notin riders, riders' = riders \cup {user},
           UNCHANGED onboarded, SumOf(BySheet)' = SumOf(BySheet) + 1
    PROVE  RidersInv'
<1> DEFINE made == riders \ onboarded
<1>1. made' = made \cup {user} /\ user \notin made /\ onboarded' \subseteq riders'
  BY DEF RidersInv
<1>2. IsFiniteSet(made)
  BY FS_Subset DEF RidersInv
<1> HIDE DEF made
<1>3. Cardinality(made \cup {user}) = Cardinality(made) + 1
  BY <1>1, <1>2, FS_AddElement
<1>4. IsFiniteSet(riders')
  BY FS_AddElement DEF RidersInv
<1>5. Cardinality(made)' = Cardinality(made) + 1
  BY <1>1, <1>3
<1> QED
  BY <1>1, <1>4, <1>5 DEF RidersInv, made

LEMMA RowMakesOne == ASSUME ImportInv, RidersInv, NEW j \in Uploads, RunRow(j) PROVE RidersInv'
<1> DEFINE row  == runner[j].rows[runner[j].at + 1]
           user == <<row.who, row.spelling>>
<1>1. PICK fails \in BOOLEAN : fails = RowFails(job[j].kind, row)
  BY DEF RowFails
<1>2. /\ riders' = IF fails \/ job[j].kind # "riders" THEN riders ELSE riders \cup {user}
      /\ UNCHANGED <<onboarded, job>>
  BY <1>1 DEF RunRow
<1>3. runner[j] \in Runner /\ runner \in [Uploads -> Runner]
  BY DEF ImportInv, ImportTypeOK
<1>4. /\ runner'[j].success = IF fails THEN runner[j].success ELSE runner[j].success + 1
      /\ \A k \in Uploads \ {j} : runner'[k] = runner[k]
  BY <1>1, <1>3 DEF RunRow, Runner
<1>5. CASE fails \/ job[j].kind # "riders"
  <2>1. \A k \in Uploads : RidersOf(k)' = RidersOf(k)
    BY <1>2, <1>4, <1>5 DEF RidersOf
  <2> QED
    BY <1>2, <1>5, <2>1, NoNewRider
<1>6. CASE ~fails /\ job[j].kind = "riders"
  <2>1. PICK one : one = user
    OBVIOUS
  <2>2. one \notin riders /\ riders' = riders \cup {one}
    BY <1>1, <1>2, <1>6, <2>1 DEF RowFails
  <2>3. PICK f \in [Uploads -> Int] : f = BySheet
    BY BySheetType
  <2>4. ImportInv'
    BY RunRowOK
  <2>5. PICK e \in [Uploads -> Int] : e = BySheet'
    <3>1. \A k \in Uploads : runner'[k].success \in Int
      BY <2>4 DEF ImportInv, ImportTypeOK, Runner
    <3>2. \A k \in Uploads : RidersOf(k)' \in Int
      BY <3>1 DEF RidersOf
    <3>3. BySheet' \in [Uploads -> Int]
      BY <3>2 DEF BySheet
    <3> QED
      BY <3>3
  <2>6. SameOn(Uploads \ {j}, f, e)
    BY <1>2, <1>4, <2>3, <2>5 DEF SameOn, BySheet, RidersOf
  <2>7. e[j] = f[j] + 1
    BY <1>2, <1>4, <1>6, <2>3, <2>5 DEF BySheet, RidersOf
  <2>8. SumOf(e) = SumOf(f) + 1
    BY <2>6, <2>7, UploadsFinite, SumShift
  <2>9. SumOf(BySheet)' = SumOf(BySheet) + 1
    BY <2>3, <2>5, <2>8
  <2> QED
    BY <1>2, <2>2, <2>9, RiderMade
<1> QED
  BY <1>5, <1>6

LEMMA RidersKept ==
    ASSUME ImportInv, RidersInv, [AccountsNext]_accountsVars PROVE RidersInv'
<1>1. ASSUME UNCHANGED <<riders, onboarded, job, runner>> PROVE RidersInv'
  BY <1>1, NoNewRider DEF RidersOf
<1>2. CASE UNCHANGED accountsVars
  BY <1>1, <1>2 DEF accountsVars, jobVars, peopleVars
<1>3. CASE AccountsNext
  <2>1. ASSUME NEW p \in People, NEW typed \in Spellings, SendOtp(p, typed) \/ AdminAddsUser(p, typed)
        PROVE  RidersInv'
    BY <2>1, <1>1 DEF SendOtp, AdminAddsUser, jobVars
  <2>2. ASSUME NEW i \in DOMAIN codes,
               CodeExpires(i) \/ \E w \in Logins, typed \in Spellings : AskVerify(w, i, typed)
        PROVE  RidersInv'
    BY <2>2, <1>1 DEF CodeExpires, AskVerify, jobVars, peopleVars
  <2>3. ASSUME NEW w \in Logins, AcceptCode(w) \/ SignIn(w) \/ LoginDies(w) PROVE RidersInv'
    BY <2>3, <1>1 DEF AcceptCode, SignIn, LoginDies, jobVars, peopleVars
  <2> QED
    BY <1>3, <2>1, <2>2, <2>3, OnboardMakesNone, UploadMakesNone, OtherStepsMakeNone,
       RestartMakesNone, RowMakesOne DEF AccountsNext
<1> QED
  BY <1>2, <1>3

(* A completed job accounts for every row and keeps the first errors up to *)
(* the cap; an unfinished one trails its thread by less than a report      *)
(* unless the thread is at the report or was killed, and then by at most   *)
(* one; and the sheets' successes are the riders they made, while sheets   *)
(* run side by side, fail anywhere, and die with the web worker.           *)
THEOREM ImportsAreAccounted == AccountsSpec => []ImportAccounted
<1>1. AccountsInit => ImportInv /\ RidersInv
  BY ImportStart, RidersStart
<1>2. ImportInv /\ RidersInv /\ [AccountsNext]_accountsVars => ImportInv' /\ RidersInv'
  BY ImportKept, RidersKept
<1>3. ImportInv /\ RidersInv => ImportAccounted
  BY PanelAgrees DEF RidersInv, BySheet, ImportAccounted
<1> QED
  BY <1>1, <1>2, <1>3, PTL DEF AccountsSpec

-----------------------------------------------------------------------------
(* Saved addresses.  A save of a default that nothing overtook has cleared *)
(* all others when it writes its row; and while the choice and the rows    *)
(* differ, such a save is under way, which either settles the choice or    *)
(* is known to have been disturbed.                                        *)

PlaceRow == [exists : BOOLEAN, default : BOOLEAN, located : BOOLEAN]

Writer == [pc : {"idle", "asking", "clear", "write", "located"},
           kind : {"", "create", "patch", "locate"}, id : Places \cup {Nowhere},
           copy : PlaceRow, stale : BOOLEAN]

ObjectOK(req) ==
    /\ IF req.pc = "idle" THEN req = NoWriter ELSE req.id \in Places /\ req.copy.exists
    /\ req.pc = "clear" => req.copy.default

AddressTypeOK ==
    /\ place \in [Places -> PlaceRow]
    /\ writer \in [Writers -> Writer]
    /\ \A w \in Writers : ObjectOK(writer[w])
    /\ \A a \in Places : place[a].default => place[a].exists
    /\ lost \in BOOLEAN

\* A fresh object agrees with the rows on the defaults.
Fresh(w) ==
    LET r == writer[w]
    IN  r.copy.default /\ ~r.stale =>
          /\ r.pc = "write" => \A a \in Places \ {r.id} : ~place[a].default
          /\ r.kind = "locate" /\ r.pc \in {"asking", "clear"} => place[r.id].default

Settled == Defaults = {chosen} \ {Nowhere}

Choosing == \E w \in Writers : writer[w].pc = "write" /\ writer[w].copy.default /\ writer[w].kind # "locate"

ChoiceOK == ~lost => Defaults \subseteq {chosen} /\ (Settled \/ Choosing)

\* Someone who will leave the address located, queued or given up.
Minds(req, a) == req.id = a /\ ~(req.pc = "located" /\ req.copy.located)

Minded(a) ==
    \/ a \in queue \cup unlocatable
    \/ \E w \in Writers : Minds(writer[w], a)

LocatedOK == \A a \in Places : Exists(a) /\ ~place[a].located => Minded(a)

AddressInv == AddressTypeOK /\ (\A w \in Writers : Fresh(w)) /\ ChoiceOK /\ LocatedOK

-----------------------------------------------------------------------------
LEMMA NoPlaceOK == NoPlace \in PlaceRow /\ ~NoPlace.exists /\ ~NoPlace.default
  BY DEF NoPlace, PlaceRow

LEMMA NoWriterOK ==
    /\ NoWriter \in Writer /\ ObjectOK(NoWriter) /\ NoWriter.pc = "idle" /\ NoWriter.id = Nowhere
    /\ ~NoWriter.copy.default
  BY NoPlaceOK DEF NoWriter, Writer, NoPlace, ObjectOK

LEMMA AddressStart == AddressesInit => AddressInv
<1> SUFFICES ASSUME AddressesInit PROVE AddressInv
  OBVIOUS
<1>1. /\ \A a \in Places : place[a] = NoPlace
      /\ \A w \in Writers : writer[w] = NoWriter
  BY DEF AddressesInit
<1>2. AddressTypeOK
  BY <1>1, NoPlaceOK, NoWriterOK DEF AddressesInit, AddressTypeOK
<1>3. \A w \in Writers : Fresh(w)
  BY <1>1, NoWriterOK DEF Fresh
<1>4. Defaults = {} /\ chosen = Nowhere
  BY <1>1, NoPlaceOK DEF Defaults, AddressesInit
<1>5. ChoiceOK
  BY <1>4 DEF ChoiceOK, Settled
<1>6. LocatedOK
  BY <1>1, NoPlaceOK DEF LocatedOK, Exists
<1> QED
  BY <1>2, <1>3, <1>5, <1>6 DEF AddressInv

\* A step of one worker that writes no row.
LEMMA WriterMoves ==
    ASSUME AddressInv, NEW w \in Writers, NEW new \in Writer,
           writer' = [writer EXCEPT ![w] = new], UNCHANGED <<place, chosen>>,
           lost' \in BOOLEAN, lost => lost',
           ObjectOK(new),
           new.pc = "write" => ~new.copy.default,
           new.kind = "locate" /\ new.copy.default /\ ~new.stale => place[new.id].default,
           writer[w].pc = "write" /\ writer[w].copy.default /\ writer[w].kind # "locate" => lost',
           \A a \in Places :
              Exists(a) /\ ~place[a].located /\ (a \in queue \cup unlocatable \/ Minds(writer[w], a)) =>
                  a \in queue' \cup unlocatable' \/ Minds(new, a)
    PROVE  AddressInv'
<1> USE DEF AddressInv
<1>1. writer'[w] = new /\ \A x \in Writers \ {w} : writer'[x] = writer[x]
  BY DEF AddressTypeOK
<1>2. AddressTypeOK'
  BY <1>1 DEF AddressTypeOK
<1>3. ASSUME NEW x \in Writers PROVE Fresh(x)'
  BY <1>1 DEF Fresh
<1>4. ChoiceOK'
  BY <1>1 DEF ChoiceOK, Settled, Defaults, Choosing
<1>5. LocatedOK'
  <2> SUFFICES ASSUME NEW a \in Places, Exists(a), ~place[a].located PROVE Minded(a)'
    BY DEF LocatedOK, Exists
  <2>1. Minded(a)
    BY DEF LocatedOK
  <2>2. CASE a \in queue \cup unlocatable \/ Minds(writer[w], a)
    <3>1. a \in queue' \cup unlocatable' \/ Minds(new, a)
      BY <2>2
    <3> QED
      BY <3>1, <1>1 DEF Minded
  <2>3. ASSUME NEW x \in Writers \ {w}, Minds(writer[x], a) PROVE Minded(a)'
    BY <2>3, <1>1 DEF Minded
  <2> QED
    BY <2>1, <2>2, <2>3 DEF Minded
<1> QED
  BY <1>2, <1>3, <1>4, <1>5

LEMMA SaveStarts ==
    ASSUME AddressInv, NEW w \in Writers, NEW kind \in {"create", "patch"}, NEW a \in Places,
           NEW copy \in PlaceRow, copy.exists, writer[w] = NoWriter, SavingFrom(w, kind, a, copy),
           UNCHANGED <<place, queue, chosen, lost, unlocatable>>
    PROVE  AddressInv'
<1> DEFINE new == [pc |-> IF ClearsOthers(copy) THEN "clear" ELSE "write",
                   kind |-> kind, id |-> a, copy |-> copy, stale |-> FALSE]
<1>1. /\ new \in Writer /\ new.pc = (IF copy.default THEN "clear" ELSE "write")
      /\ new.id = a /\ new.copy = copy /\ new.kind # "locate"
  BY DEF Writer, ClearsOthers
<1>2. writer' = [writer EXCEPT ![w] = new]
  BY DEF SavingFrom
<1> HIDE DEF new
<1>3. \A b \in Places : ~Minds(writer[w], b)
  BY NoWriterOK, NowhereAssumption DEF Minds
<1>4. lost' \in BOOLEAN /\ (lost => lost') /\ ObjectOK(new)
  BY <1>1 DEF AddressInv, AddressTypeOK, ObjectOK
<1> QED
  BY <1>1, <1>2, <1>3, <1>4, NoWriterOK, WriterMoves

LEMMA CreateOK ==
    ASSUME AddressInv, NEW w \in Writers, NEW a \in Places, NEW default \in BOOLEAN,
           NEW located \in BOOLEAN, CreateAddress(w, a, default, located)
    PROVE  AddressInv'
<1> DEFINE copy == [exists |-> TRUE, default |-> default, located |-> located]
<1>1. copy \in PlaceRow /\ copy.exists
  BY DEF PlaceRow
<1>2. /\ writer[w] = NoWriter /\ SavingFrom(w, "create", a, copy)
      /\ UNCHANGED <<place, queue, chosen, lost, unlocatable>>
  BY DEF CreateAddress, placeVars
<1> HIDE DEF copy
<1> QED
  BY <1>1, <1>2, SaveStarts

LEMMA PatchOK ==
    ASSUME AddressInv, NEW w \in Writers, NEW a \in Places, NEW default \in BOOLEAN,
           NEW located \in BOOLEAN, PatchAddress(w, a, default, located)
    PROVE  AddressInv'
<1> DEFINE copy == [place[a] EXCEPT !.default = default, !.located = located]
<1>1. place[a] \in PlaceRow /\ place[a].exists
  BY DEF PatchAddress, Exists, AddressInv, AddressTypeOK
<1>2. copy \in PlaceRow /\ copy.exists
  BY <1>1 DEF PlaceRow
<1>3. /\ writer[w] = NoWriter /\ SavingFrom(w, "patch", a, copy)
      /\ UNCHANGED <<place, queue, chosen, lost, unlocatable>>
  BY DEF PatchAddress, placeVars
<1> HIDE DEF copy
<1> QED
  BY <1>2, <1>3, SaveStarts

LEMMA LocateStarts ==
    ASSUME AddressInv, NEW w \in Writers, NEW a \in Places, Exists(a), writer[w] = NoWriter,
           writer' = [writer EXCEPT ![w] = [pc |-> "asking", kind |-> "locate", id |-> a,
                                            copy |-> place[a], stale |-> FALSE]],
           queue \ {a} \subseteq queue', UNCHANGED <<place, chosen, lost, unlocatable>>
    PROVE  AddressInv'
<1> DEFINE new == [pc |-> "asking", kind |-> "locate", id |-> a, copy |-> place[a], stale |-> FALSE]
<1>1. place[a] \in PlaceRow /\ place[a].exists
  BY DEF AddressInv, AddressTypeOK, Exists
<1>2. /\ new \in Writer /\ new.pc = "asking" /\ new.id = a /\ new.copy = place[a]
      /\ new.kind = "locate"
  BY <1>1 DEF Writer
<1>3. writer' = [writer EXCEPT ![w] = new]
  OBVIOUS
<1> HIDE DEF new
<1>4. \A b \in Places : ~Minds(writer[w], b)
  BY NoWriterOK, NowhereAssumption DEF Minds
<1>5. lost' \in BOOLEAN /\ (lost => lost') /\ ObjectOK(new)
  BY <1>1, <1>2 DEF AddressInv, AddressTypeOK, ObjectOK
<1>6. Minds(new, a) /\ \A b \in Places : b \in queue \cup unlocatable => b = a \/ b \in queue' \cup unlocatable'
  BY <1>2 DEF Minds
<1> QED
  BY <1>1, <1>2, <1>3, <1>4, <1>5, <1>6, NoWriterOK, WriterMoves

LEMMA StartOK ==
    ASSUME AddressInv, NEW w \in Writers, NEW a \in Places, StartGeocode(w, a) PROVE AddressInv'
<1>1. /\ writer[w] = NoWriter /\ queue' = queue \ {a}
      /\ UNCHANGED <<place, chosen, lost, unlocatable>>
  BY DEF StartGeocode, choiceVars
<1>2. CASE ~Exists(a) \/ place[a].located
  <2>1. writer' = writer
    BY <1>2 DEF StartGeocode
  <2>2. writer' = [writer EXCEPT ![w] = NoWriter]
    BY <1>1, <2>1 DEF AddressInv, AddressTypeOK
  <2>3. \A b \in Places : ~Minds(writer[w], b)
    BY <1>1, NoWriterOK, NowhereAssumption DEF Minds
  <2>4. lost' \in BOOLEAN /\ (lost => lost')
    BY <1>1 DEF AddressInv, AddressTypeOK
  <2>5. \A b \in Places : Exists(b) /\ ~place[b].located /\ b \in queue \cup unlocatable =>
            b \in queue' \cup unlocatable'
    BY <1>1, <1>2
  <2>6. NoWriter.kind # "locate"
    BY DEF NoWriter
  <2> QED
    BY <1>1, <2>2, <2>3, <2>4, <2>5, <2>6, NoWriterOK, WriterMoves
<1>3. CASE Exists(a) /\ ~place[a].located
  BY <1>1, <1>3, LocateStarts DEF StartGeocode
<1> QED
  BY <1>2, <1>3

LEMMA BackfillOK ==
    ASSUME AddressInv, NEW w \in Writers, NEW a \in Places, BackfillForOrder(w, a) PROVE AddressInv'
  BY LocateStarts DEF BackfillForOrder, placeVars

LEMMA FoundOK == ASSUME AddressInv, NEW w \in Writers, Found(w) PROVE AddressInv'
<1>1. writer[w] \in Writer /\ writer[w].pc = "asking" /\ Fresh(w)
  BY DEF Found, AddressInv, AddressTypeOK
<1>2. PICK new \in Writer :
        new = [writer[w] EXCEPT !.pc = IF writer[w].copy.default THEN "clear" ELSE "write"]
  BY <1>1 DEF Writer
<1>3. /\ new.pc = (IF new.copy.default THEN "clear" ELSE "write") /\ new.id = writer[w].id
      /\ new.copy = writer[w].copy /\ new.kind = writer[w].kind /\ new.stale = writer[w].stale
  BY <1>1, <1>2 DEF Writer
<1>4. writer' = [writer EXCEPT ![w] = new] /\ UNCHANGED <<place, queue, chosen, lost, unlocatable>>
  BY <1>2 DEF Found, ClearsOthers, placeVars, choiceVars
<1>5. ObjectOK(new) /\ \A a \in Places : Minds(writer[w], a) => Minds(new, a)
  BY <1>1, <1>3 DEF AddressInv, AddressTypeOK, ObjectOK, Minds
<1>6. new.kind = "locate" /\ new.copy.default /\ ~new.stale => place[new.id].default
  BY <1>1, <1>3 DEF Fresh
<1>7. lost' \in BOOLEAN /\ (lost => lost')
  BY <1>4 DEF AddressInv, AddressTypeOK
<1> QED
  BY <1>1, <1>3, <1>4, <1>5, <1>6, <1>7, WriterMoves

LEMMA LeaveOK ==
    ASSUME AddressInv, NEW w \in Writers, writer' = [writer EXCEPT ![w] = NoWriter],
           UNCHANGED <<place, chosen>>, lost' \in BOOLEAN, lost => lost',
           writer[w].pc = "write" /\ writer[w].copy.default /\ writer[w].kind # "locate" => lost',
           queue \cup unlocatable \subseteq queue' \cup unlocatable',
           (writer[w].pc = "located" /\ writer[w].copy.located)
             \/ writer[w].id \in queue' \cup unlocatable' \/ writer[w].pc = "idle"
    PROVE  AddressInv'
<1>1. writer[w].pc = "idle" => writer[w].id = Nowhere
  BY NoWriterOK DEF AddressInv, AddressTypeOK, ObjectOK
<1>2. \A b \in Places : Minds(writer[w], b) => b \in queue' \cup unlocatable'
  BY <1>1, NowhereAssumption DEF Minds
<1>3. NoWriter.kind # "locate"
  BY DEF NoWriter
<1> QED
  BY <1>2, <1>3, NoWriterOK, WriterMoves

LEMMA AskGeocodeOK == ASSUME AddressInv, NEW w \in Writers, AskGeocode(w) PROVE AddressInv'
<1>1. /\ writer[w].pc = "located" /\ writer' = [writer EXCEPT ![w] = NoWriter]
      /\ queue' = IF writer[w].copy.located THEN queue ELSE queue \cup {writer[w].id}
      /\ UNCHANGED <<place, chosen, lost, unlocatable>>
  BY DEF AskGeocode, choiceVars
<1> QED
  BY <1>1, LeaveOK DEF AddressInv, AddressTypeOK

LEMMA AbandonOK == ASSUME AddressInv, NEW w \in Writers, Abandon(w) PROVE AddressInv'
<1>1. /\ writer[w] # NoWriter /\ writer' = [writer EXCEPT ![w] = NoWriter]
      /\ lost' = (lost \/ (writer[w].pc = "write" /\ writer[w].copy.default /\ writer[w].kind # "locate"))
      /\ unlocatable' = IF writer[w].pc \in {"located", "asking", "clear", "write"}
                          THEN unlocatable \cup {writer[w].id} ELSE unlocatable
      /\ UNCHANGED <<place, queue, chosen>>
  BY DEF Abandon, placeVars
<1>2. writer[w].pc \in {"idle", "located", "asking", "clear", "write"} /\ lost' \in BOOLEAN
  BY <1>1 DEF AddressInv, AddressTypeOK, Writer
<1> QED
  BY <1>1, <1>2, LeaveOK

-----------------------------------------------------------------------------
(* Steps that write rows.                                                  *)

\* Whoever holds an object while another changes a default is left behind.
LEMMA LeftBehind ==
    ASSUME AddressTypeOK, NEW w \in Writers
    PROVE  /\ Outdated(w) \in [Writers -> Writer] /\ Outdated(w)[w] = writer[w]
           /\ \A x \in Writers :
                 /\ Outdated(w)[x].pc = writer[x].pc /\ Outdated(w)[x].kind = writer[x].kind
                 /\ Outdated(w)[x].id = writer[x].id /\ Outdated(w)[x].copy = writer[x].copy
                 /\ x = w \/ writer[x].pc = "idle" => Outdated(w)[x] = writer[x]
                 /\ Defaults' = Defaults => Outdated(w)[x] = writer[x]
                 /\ Defaults' # Defaults /\ x # w /\ writer[x].pc # "idle" => Outdated(w)[x].stale
                 /\ ObjectOK(Outdated(w)[x])
                 /\ \A a \in Places : Minds(Outdated(w)[x], a) <=> Minds(writer[x], a)
<1>1. ASSUME NEW x \in Writers PROVE [writer[x] EXCEPT !.stale = TRUE] \in Writer
  BY DEF AddressTypeOK, Writer
<1>2. \A x \in Writers : writer[x] \in Writer
  BY DEF AddressTypeOK
<1>3. Outdated(w) \in [Writers -> Writer]
  BY <1>1, <1>2 DEF Outdated
<1>4. ASSUME NEW x \in Writers
      PROVE  /\ Outdated(w)[x].pc = writer[x].pc /\ Outdated(w)[x].kind = writer[x].kind
             /\ Outdated(w)[x].id = writer[x].id /\ Outdated(w)[x].copy = writer[x].copy
             /\ x = w \/ writer[x].pc = "idle" => Outdated(w)[x] = writer[x]
             /\ Defaults' = Defaults => Outdated(w)[x] = writer[x]
             /\ Defaults' # Defaults /\ x # w /\ writer[x].pc # "idle" => Outdated(w)[x].stale
  <2>1. Outdated(w)[x] = IF x = w \/ writer[x].pc = "idle" \/ Defaults' = Defaults THEN writer[x]
                           ELSE [writer[x] EXCEPT !.stale = TRUE]
    BY DEF Outdated
  <2>2. PICK changed \in BOOLEAN : changed <=> Defaults' # Defaults
    OBVIOUS
  <2>3. Outdated(w)[x] = IF x = w \/ writer[x].pc = "idle" \/ ~changed THEN writer[x]
                           ELSE [writer[x] EXCEPT !.stale = TRUE]
    BY <2>1, <2>2
  <2> HIDE DEF Outdated
  <2> QED
    BY <1>2, <2>2, <2>3 DEF Writer
<1>5. ASSUME NEW x \in Writers
      PROVE  /\ ObjectOK(Outdated(w)[x])
             /\ \A a \in Places : Minds(Outdated(w)[x], a) <=> Minds(writer[x], a)
  BY <1>4 DEF AddressTypeOK, ObjectOK, Minds
<1> QED
  BY <1>3, <1>4, <1>5

\* Those left behind, and those whose defaults are as they were, are fresh.
LEMMA OthersFresh ==
    ASSUME AddressTypeOK, NEW w \in Writers, NEW x \in Writers \ {w}, Fresh(x),
           writer'[x] = Outdated(w)[x]
    PROVE  Fresh(x)'
<1>1. CASE writer[x].pc = "idle"
  BY <1>1, LeftBehind, NoWriterOK DEF AddressTypeOK, ObjectOK, Fresh
<1>2. CASE writer[x].pc # "idle" /\ Defaults' # Defaults
  <2>1. writer'[x].stale
    BY <1>2, LeftBehind
  <2> QED
    BY <2>1 DEF Fresh
<1>3. CASE writer[x].pc # "idle" /\ Defaults' = Defaults
  <2>1. writer'[x] = writer[x]
    BY <1>3, LeftBehind
  <2>2. \A a \in Places : place'[a].default <=> place[a].default
    BY <1>3 DEF Defaults
  <2>3. writer[x].id \in Places
    BY <1>3 DEF AddressTypeOK, ObjectOK
  <2> QED
    BY <2>1, <2>2, <2>3 DEF Fresh
<1> QED
  BY <1>1, <1>2, <1>3

LEMMA DeleteOK ==
    ASSUME AddressInv, NEW w \in Writers, NEW a \in Places, DeleteAddress(w, a) PROVE AddressInv'
<1> USE DEF AddressInv
<1>1. /\ writer[w] = NoWriter /\ place' = [place EXCEPT ![a] = NoPlace]
      /\ chosen' = IF chosen = a THEN Nowhere ELSE chosen
      /\ writer' = Outdated(w) /\ unlocatable' = unlocatable \ {a}
      /\ UNCHANGED <<queue, lost>>
  BY DEF DeleteAddress
<1>2. place'[a] = NoPlace /\ \A b \in Places \ {a} : place'[b] = place[b]
  BY <1>1 DEF AddressTypeOK
<1>3. AddressTypeOK'
  <2>1. place' \in [Places -> PlaceRow]
    BY <1>1, NoPlaceOK DEF AddressTypeOK
  <2>2. \A b \in Places : place'[b].default => place'[b].exists
    BY <1>2, NoPlaceOK DEF AddressTypeOK
  <2> QED
    BY <2>1, <2>2, <1>1, LeftBehind DEF AddressTypeOK
<1>4. ASSUME NEW x \in Writers PROVE Fresh(x)'
  <2>1. CASE x = w
    BY <2>1, <1>1, LeftBehind, NoWriterOK DEF Fresh
  <2>2. CASE x # w
    BY <2>2, <1>1, OthersFresh
  <2> QED
    BY <2>1, <2>2
<1>5. ChoiceOK'
  <2>1. Defaults' = Defaults \ {a}
    BY <1>2, NoPlaceOK DEF Defaults
  <2>2. Choosing => Choosing'
    BY <1>1, LeftBehind DEF Choosing
  <2> QED
    BY <2>1, <2>2, <1>1 DEF ChoiceOK, Settled
<1>6. LocatedOK'
  <2> SUFFICES ASSUME NEW b \in Places \ {a}, Exists(b)', ~place'[b].located PROVE Minded(b)'
    BY <1>2, NoPlaceOK DEF LocatedOK, Exists
  <2>1. Minded(b)
    BY <1>2 DEF LocatedOK, Exists
  <2> QED
    BY <2>1, <1>1, LeftBehind DEF Minded
<1> QED
  BY <1>3, <1>4, <1>5, <1>6

LEMMA ClearOK == ASSUME AddressInv, NEW w \in Writers, ClearOthers(w) PROVE AddressInv'
<1> USE DEF AddressInv
<1>1. /\ writer[w] \in Writer /\ writer[w].pc = "clear" /\ writer[w].id \in Places
      /\ writer[w].copy.default /\ writer[w].copy.exists /\ Fresh(w)
  BY DEF ClearOthers, AddressTypeOK, ObjectOK
<1>2. PICK a \in Places : a = writer[w].id
  BY <1>1
<1>3. PICK new \in Writer : new = [writer[w] EXCEPT !.pc = "write"]
  BY <1>1 DEF Writer
<1>4. /\ new.pc = "write" /\ new.kind = writer[w].kind /\ new.id = a
      /\ new.copy = writer[w].copy /\ new.stale = writer[w].stale
  BY <1>1, <1>2, <1>3 DEF Writer
<1>5. /\ place' = [b \in Places |-> IF b = a THEN place[b] ELSE [place[b] EXCEPT !.default = FALSE]]
      /\ writer' = [Outdated(w) EXCEPT ![w] = new]
      /\ lost' = (lost \/ writer[w].stale)
      /\ UNCHANGED <<queue, chosen, unlocatable>>
  BY <1>2, <1>3, LeftBehind DEF ClearOthers
<1>6. /\ writer'[w] = new /\ \A x \in Writers \ {w} : writer'[x] = Outdated(w)[x]
  BY <1>5, LeftBehind
<1>7. /\ \A b \in Places : place'[b].exists = place[b].exists /\ place'[b].located = place[b].located
      /\ place'[a].default = place[a].default
      /\ \A b \in Places \ {a} : ~place'[b].default
  BY <1>5 DEF AddressTypeOK, PlaceRow
<1>8. AddressTypeOK'
  <2>1. place' \in [Places -> PlaceRow]
    BY <1>5 DEF AddressTypeOK, PlaceRow
  <2>2. \A b \in Places : place'[b].default => place'[b].exists
    BY <1>7 DEF AddressTypeOK
  <2>3. writer' \in [Writers -> Writer] /\ lost' \in BOOLEAN
    BY <1>1, <1>5, LeftBehind DEF AddressTypeOK, Writer
  <2> QED
    <3>1. ObjectOK(new)
      BY <1>1, <1>2, <1>4 DEF ObjectOK
    <3>2. \A x \in Writers : ObjectOK(writer'[x])
      BY <3>1, <1>6, LeftBehind
    <3> QED
      BY <2>1, <2>2, <2>3, <3>2 DEF AddressTypeOK
<1>9. ASSUME NEW x \in Writers PROVE Fresh(x)'
  <2>1. CASE x = w
    BY <2>1, <1>4, <1>6, <1>7 DEF Fresh
  <2>2. CASE x # w
    BY <2>2, <1>6, OthersFresh
  <2> QED
    BY <2>1, <2>2
<1>10. ChoiceOK'
  <2> SUFFICES ASSUME ~lost'
               PROVE  Defaults' \subseteq {chosen} /\ (Settled' \/ Choosing')
    BY <1>5 DEF ChoiceOK
  <2>1. ~lost /\ ~writer[w].stale
    BY <1>5
  <2>2. Defaults' = Defaults \cap {a} /\ Defaults \subseteq {chosen}
    BY <2>1, <1>7 DEF Defaults, ChoiceOK
  <2>3. CASE writer[w].kind # "locate"
    BY <2>2, <2>3, <1>1, <1>4, <1>6 DEF Choosing
  <2>4. CASE writer[w].kind = "locate"
    <3>1. a \in Defaults
      BY <2>1, <2>4, <1>1, <1>2 DEF Fresh, Defaults
    <3>2. Defaults' = {chosen} /\ chosen # Nowhere
      BY <3>1, <2>2, NowhereAssumption
    <3> QED
      BY <3>2, <1>5 DEF Settled
  <2> QED
    BY <2>3, <2>4
<1>11. LocatedOK'
  <2> SUFFICES ASSUME NEW b \in Places, Exists(b)', ~place'[b].located PROVE Minded(b)'
    BY DEF LocatedOK
  <2>1. Minded(b)
    BY <1>7 DEF LocatedOK, Exists
  <2> QED
    <3>1. Minds(writer[w], b) => Minds(new, b)
      BY <1>1, <1>2, <1>4 DEF Minds
    <3> QED
      BY <2>1, <3>1, <1>5, <1>6, LeftBehind DEF Minded
<1> QED
  BY <1>8, <1>9, <1>10, <1>11

LEMMA WriteOK == ASSUME AddressInv, NEW w \in Writers, WriteRow(w) PROVE AddressInv'
<1> USE DEF AddressInv
<1>1. /\ writer[w] \in Writer /\ writer[w].pc = "write" /\ writer[w].id \in Places
      /\ writer[w].kind \in {"create", "patch"} /\ writer[w].copy.exists /\ Fresh(w)
  BY DEF WriteRow, AddressTypeOK, ObjectOK
<1>2. PICK a \in Places : a = writer[w].id
  BY <1>1
<1>3. PICK copy \in PlaceRow : copy = writer[w].copy
  BY <1>1 DEF Writer
<1>4. PICK new \in Writer : new = [writer[w] EXCEPT !.pc = "located"]
  BY <1>1 DEF Writer
<1>5. new.pc = "located" /\ new.kind # "locate" /\ new.id = a /\ new.copy = copy
  BY <1>1, <1>2, <1>3, <1>4 DEF Writer
<1>6. /\ place' = [place EXCEPT ![a] = copy]
      /\ writer' = [Outdated(w) EXCEPT ![w] = new]
      /\ chosen' = IF copy.default THEN a ELSE IF chosen = a THEN Nowhere ELSE chosen
      /\ lost' = (writer[w].stale \/ (lost /\ ~copy.default))
      /\ UNCHANGED <<queue, unlocatable>>
  BY <1>2, <1>3, <1>4, LeftBehind DEF WriteRow
<1>7. writer'[w] = new /\ \A x \in Writers \ {w} : writer'[x] = Outdated(w)[x]
  BY <1>6, LeftBehind
<1>8. place'[a] = copy /\ \A b \in Places \ {a} : place'[b] = place[b]
  BY <1>6 DEF AddressTypeOK
<1>9. AddressTypeOK'
  <2>1. place' \in [Places -> PlaceRow]
    BY <1>6 DEF AddressTypeOK
  <2>2. \A b \in Places : place'[b].default => place'[b].exists
    BY <1>1, <1>3, <1>8 DEF AddressTypeOK
  <2>3. writer' \in [Writers -> Writer]
    BY <1>6, LeftBehind
  <2>4. lost' \in BOOLEAN
    BY <1>6
  <2> QED
    <3>1. ObjectOK(new)
      BY <1>1, <1>3, <1>5 DEF ObjectOK
    <3>2. \A x \in Writers : ObjectOK(writer'[x])
      BY <3>1, <1>7, LeftBehind
    <3> QED
      BY <2>1, <2>2, <2>3, <2>4, <3>2 DEF AddressTypeOK
<1>10. ASSUME NEW x \in Writers PROVE Fresh(x)'
  <2>1. CASE x = w
    BY <2>1, <1>5, <1>7 DEF Fresh
  <2>2. CASE x # w
    BY <2>2, <1>7, OthersFresh
  <2> QED
    BY <2>1, <2>2
<1>11. ChoiceOK'
  <2> SUFFICES ASSUME ~lost'
               PROVE  Defaults' \subseteq {chosen'} /\ (Settled' \/ Choosing')
    BY DEF ChoiceOK
  <2>1. ~writer[w].stale /\ (~lost \/ copy.default)
    BY <1>6
  <2>2. CASE copy.default
    <3>1. Defaults' = {a}
      BY <2>1, <2>2, <1>1, <1>2, <1>3, <1>8 DEF Fresh, Defaults
    <3> QED
      BY <3>1, <2>2, <1>6, NowhereAssumption DEF Settled
  <2>3. CASE ~copy.default
    <3>1. Defaults' = Defaults \ {a}
      BY <2>3, <1>8 DEF Defaults
    <3>2. Choosing => Choosing'
      BY <2>3, <1>3, <1>7, LeftBehind DEF Choosing
    <3> QED
      BY <2>1, <2>3, <3>1, <3>2, <1>6 DEF ChoiceOK, Settled
  <2> QED
    BY <2>2, <2>3
<1>12. LocatedOK'
  <2> SUFFICES ASSUME NEW b \in Places, Exists(b)', ~place'[b].located PROVE Minded(b)'
    BY DEF LocatedOK
  <2>1. CASE b = a
    BY <2>1, <1>5, <1>7, <1>8 DEF Minded, Minds
  <2>2. CASE b # a
    <3>1. Minded(b)
      BY <2>2, <1>8 DEF LocatedOK, Exists
    <3> QED
      <4>1. ~Minds(writer[w], b)
        BY <2>2, <1>2 DEF Minds
      <4> QED
        BY <3>1, <4>1, <1>6, <1>7, LeftBehind DEF Minded
  <2> QED
    BY <2>1, <2>2
<1> QED
  BY <1>9, <1>10, <1>11, <1>12

LEMMA CoordinatesOK == ASSUME AddressInv, NEW w \in Writers, WriteCoordinates(w) PROVE AddressInv'
<1> USE DEF AddressInv
<1>1. PICK a \in Places : a = writer[w].id
  BY DEF WriteCoordinates, AddressTypeOK, ObjectOK
<1>2. /\ writer[w].pc = "write" /\ writer[w].kind = "locate"
      /\ place' = IF Exists(a) THEN [place EXCEPT ![a].located = TRUE] ELSE place
      /\ writer' = [writer EXCEPT ![w] = NoWriter]
      /\ UNCHANGED <<queue, chosen, lost, unlocatable>>
  BY <1>1 DEF WriteCoordinates, choiceVars
<1>3. writer'[w] = NoWriter /\ \A x \in Writers \ {w} : writer'[x] = writer[x]
  BY <1>2 DEF AddressTypeOK
<1>4. /\ \A b \in Places : place'[b].exists = place[b].exists /\ place'[b].default = place[b].default
      /\ \A b \in Places \ {a} : place'[b].located = place[b].located
      /\ Exists(a) => place'[a].located
  BY <1>2 DEF AddressTypeOK, PlaceRow
<1>5. AddressTypeOK'
  <2>1. place' \in [Places -> PlaceRow]
    BY <1>2 DEF AddressTypeOK, PlaceRow
  <2> QED
    BY <2>1, <1>2, <1>3, <1>4, NoWriterOK DEF AddressTypeOK
<1>6. ASSUME NEW x \in Writers PROVE Fresh(x)'
  <2>1. CASE x = w
    BY <2>1, <1>3, NoWriterOK DEF Fresh
  <2>2. CASE x # w
    <3>1. writer'[x] = writer[x] /\ Fresh(x) /\ ObjectOK(writer[x])
      BY <2>2, <1>3 DEF AddressTypeOK
    <3> QED
      BY <3>1, <1>4 DEF Fresh, ObjectOK
  <2> QED
    BY <2>1, <2>2
<1>7. ChoiceOK'
  <2>1. Defaults' = Defaults
    BY <1>4 DEF Defaults
  <2>2. Choosing => Choosing'
    BY <1>2, <1>3 DEF Choosing
  <2> QED
    BY <2>1, <2>2, <1>2 DEF ChoiceOK, Settled
<1>8. LocatedOK'
  <2> SUFFICES ASSUME NEW b \in Places, Exists(b)', ~place'[b].located PROVE Minded(b)'
    BY DEF LocatedOK
  <2>1. b # a /\ Minded(b)
    BY <1>4 DEF LocatedOK, Exists
  <2> QED
    <3>1. ~Minds(writer[w], b)
      BY <2>1, <1>1 DEF Minds
    <3> QED
      BY <2>1, <3>1, <1>2, <1>3 DEF Minded
<1> QED
  BY <1>5, <1>6, <1>7, <1>8

LEMMA ImportAddressOK ==
    ASSUME AddressInv, NEW w \in Writers, NEW a \in Places, NEW located \in BOOLEAN,
           ImportAddress(w, a, located)
    PROVE  AddressInv'
<1> USE DEF AddressInv
<1>1. PICK first \in BOOLEAN : first = \A b \in Places : ~Exists(b)
  OBVIOUS
<1>2. PICK row \in PlaceRow :
        row = [exists |-> TRUE, default |-> first, located |-> located \/ place[a].located]
  <2>1. PICK known \in BOOLEAN : known = (located \/ place[a].located)
    OBVIOUS
  <2>2. [exists |-> TRUE, default |-> first, located |-> known] \in PlaceRow
    BY DEF PlaceRow
  <2> QED
    BY <2>1, <2>2
<1>3. row.exists /\ row.default = first /\ row.located = (located \/ place[a].located)
  BY <1>2
<1>4. /\ writer[w] = NoWriter
      /\ place' = [place EXCEPT ![a] = row]
      /\ chosen' = IF first THEN a ELSE chosen
      /\ lost' = (lost \/ place[a].default)
      /\ unlocatable' = IF row.located THEN unlocatable ELSE unlocatable \cup {a}
      /\ writer' = Outdated(w) /\ queue' = queue
  BY <1>1, <1>2, <1>3 DEF ImportAddress
<1>5. place'[a] = row /\ \A b \in Places \ {a} : place'[b] = place[b]
  BY <1>4 DEF AddressTypeOK
<1>6. AddressTypeOK'
  <2>1. place' \in [Places -> PlaceRow]
    BY <1>4 DEF AddressTypeOK
  <2>2. \A b \in Places : place'[b].default => place'[b].exists
    BY <1>3, <1>5 DEF AddressTypeOK
  <2>3. lost' \in BOOLEAN
    BY <1>4 DEF AddressTypeOK, PlaceRow
  <2> QED
    BY <2>1, <2>2, <2>3, <1>4, LeftBehind DEF AddressTypeOK
<1>7. ASSUME NEW x \in Writers PROVE Fresh(x)'
  <2>1. CASE x = w
    BY <2>1, <1>4, LeftBehind, NoWriterOK DEF Fresh
  <2>2. CASE x # w
    BY <2>2, <1>4, OthersFresh
  <2> QED
    BY <2>1, <2>2
<1>8. ChoiceOK'
  <2> SUFFICES ASSUME ~lost'
               PROVE  Defaults' \subseteq {chosen'} /\ (Settled' \/ Choosing')
    BY DEF ChoiceOK
  <2>1. ~lost /\ ~place[a].default
    BY <1>4
  <2>2. CASE first
    <3>1. Defaults' = {a}
      BY <2>2, <1>1, <1>3, <1>5 DEF Defaults, Exists, AddressTypeOK
    <3> QED
      BY <3>1, <2>2, <1>4, NowhereAssumption DEF Settled
  <2>3. CASE ~first
    <3>1. Defaults' = Defaults
      BY <2>1, <2>3, <1>3, <1>5 DEF Defaults
    <3>2. Choosing => Choosing'
      BY <1>4, LeftBehind DEF Choosing
    <3> QED
      BY <3>1, <3>2, <2>1, <2>3, <1>4 DEF ChoiceOK, Settled
  <2> QED
    BY <2>2, <2>3
<1>9. LocatedOK'
  <2> SUFFICES ASSUME NEW b \in Places, Exists(b)', ~place'[b].located PROVE Minded(b)'
    BY DEF LocatedOK
  <2>1. CASE b = a
    BY <2>1, <1>4, <1>5 DEF Minded
  <2>2. CASE b # a
    <3>1. Minded(b)
      BY <2>2, <1>5 DEF LocatedOK, Exists
    <3> QED
      BY <3>1, <1>4, LeftBehind DEF Minded
  <2> QED
    BY <2>1, <2>2
<1> QED
  BY <1>6, <1>7, <1>8, <1>9

(* The default address is the one last chosen, alone, outside the moment   *)
(* between the statements of a save and unless an overtaken object, a save *)
(* cut short or a repeated import disturbed the choice; and an address     *)
(* without coordinates is queued, in hand or given up.  Requests, tasks    *)
(* and imports interleave statement by statement, and workers die.         *)
THEOREM DefaultIsTheChoice == AddressesSpec => []DefaultIsChosen
<1>1. AddressInv /\ [AddressesNext]_addressesVars => AddressInv'
  <2> SUFFICES ASSUME AddressInv, [AddressesNext]_addressesVars PROVE AddressInv'
    OBVIOUS
  <2>1. CASE UNCHANGED addressesVars
    <3>1. UNCHANGED <<place, queue, writer, chosen, lost, unlocatable>>
      BY <2>1 DEF addressesVars, placeVars, choiceVars
    <3> QED
      BY <3>1 DEF AddressInv, AddressTypeOK, Fresh, ChoiceOK, Settled, Defaults, Choosing,
                  LocatedOK, Exists, Minded
  <2>2. CASE AddressesNext
    BY <2>2, CreateOK, PatchOK, DeleteOK, StartOK, BackfillOK, ImportAddressOK, ClearOK, WriteOK,
       AskGeocodeOK, CoordinatesOK, FoundOK, AbandonOK DEF AddressesNext
  <2> QED
    BY <2>1, <2>2
<1>2. AddressInv => DefaultIsChosen
  <2> SUFFICES ASSUME AddressInv PROVE DefaultIsChosen
    OBVIOUS
  <2>1. ~lost /\ (\A w \in Writers : ~(writer[w].pc = "write" /\ writer[w].copy.default)) =>
            Defaults = {chosen} \ {Nowhere}
    BY DEF AddressInv, ChoiceOK, Choosing, Settled
  <2>2. \A a \in Places : Exists(a) /\ ~place[a].located =>
            \/ a \in queue \cup unlocatable
            \/ \E w \in Writers : writer[w].id = a
    BY DEF AddressInv, LocatedOK, Minded, Minds
  <2> QED
    BY <2>1, <2>2 DEF DefaultIsChosen
<1> QED
  BY <1>1, <1>2, AddressStart, PTL DEF AddressesSpec

=============================================================================
