------------------------------ MODULE Accounts ------------------------------
(***************************************************************************)
(* How a person comes to have an account: by confirming a one-time code    *)
(* (apps/accounts) or as a row of a spreadsheet (core/import_service).     *)
(*                                                                         *)
(* The phone number is the account.  Logging in rewrites it to plus and    *)
(* digits, and puts a country code before ten of them; an import only      *)
(* strips punctuation, and the ops board and the admin site take it as     *)
(* typed.  Their validator counts digits and knows no country.             *)
(* An upload is worked off by a daemon thread of the web worker, which     *)
(* commits each row by itself and reports its progress now and then.       *)
(***************************************************************************)
EXTENDS Integers, Sequences, FiniteSets, Sums

CONSTANTS
    People,
    Dialled,      \* digits typed before the ten of a number: "", "91", "0"
    Logins,        \* workers that confirm codes
    Uploads,       \* bulk imports, numbers, uploaded in this order
    Files,         \* contents of a spreadsheet: sequences of rows
    MaxCodes,      \* bound on the codes sent
    MaxOnboarded,  \* bound on the accounts the ops board and the admin site add
    ReportEvery,   \* rows between two progress reports: 5
    KeepErrors     \* MAX_ERRORS_KEPT: 500

\* The ways to type one's number that the validator lets through.
Spellings == [plus : BOOLEAN, prefix : Dialled]
Full == [plus |-> TRUE, prefix |-> "91"]

\* Those that are to resolve to the same account: "9876543210",
\* "919876543210" and "+919876543210".
Documented == {s \in Spellings : s.prefix \in {"", "91"}}

\* A sheet may also hold a number that no validator lets through.
Bad == [plus |-> FALSE, prefix |-> "bad"]
SheetRow == [who : People, spelling : Spellings \cup {Bad}]

ASSUME DialledAssumption == {"", "91"} \subseteq Dialled /\ "bad" \notin Dialled

ASSUME AccountsAssumption ==
    /\ Files \subseteq Seq(SheetRow) /\ IsFiniteSet(Uploads)
    /\ MaxCodes \in Nat /\ ReportEvery \in Nat \ {0} /\ KeepErrors \in Nat

VARIABLES
    accounts,      \* users: <<person, spelling of the number>>
    riders,        \* accounts with a delivery-partner profile
    codes,         \* otps, in order of creation
    login,         \* a verification under way
    job,           \* bulk_imports: the row the admin panel polls
    runner,        \* the thread of each upload
    onboarded,     \* riders the ops board added
    added,         \* accounts the ops board and the admin site have added
    uses,          \* how often each code signed somebody in
    overlapped,    \* codes two verifications held at once
    misspelt       \* people whose number was typed in a form that makes another
                   \* account: undocumented at login, not in full elsewhere

peopleVars == <<accounts, riders, onboarded, added, codes>>
loginVars == <<login, uses, overlapped>>
jobVars == <<job, runner>>
accountsVars == <<peopleVars, loginVars, jobVars, misspelt>>

NoLogin == [code |-> 0, pc |-> "idle"]
NoJob == [status |-> "absent", kind |-> "", total |-> 0, processed |-> 0,
          success |-> 0, errors |-> 0, kept |-> 0]
NoRunner == [pc |-> "none", rows |-> <<>>, at |-> 0, success |-> 0, errors |-> 0, kept |-> 0]

AccountsInit ==
    /\ accounts = {} /\ riders = {} /\ onboarded = {} /\ added = 0 /\ codes = <<>>
    /\ login = [w \in Logins |-> NoLogin]
    /\ job = [j \in Uploads |-> NoJob]
    /\ runner = [j \in Uploads |-> NoRunner]
    /\ uses = [i \in 1..MaxCodes |-> 0]
    /\ overlapped = {} /\ misspelt = {}

-----------------------------------------------------------------------------
(* Logging in.                                                             *)

\* A faulty build that looks the number up as it was typed.
AsTyped(spelling) == spelling

\* normalize_phone: ten digits are Indian; more are taken to have their code.
Canonical(spelling) ==
    [plus |-> TRUE, prefix |-> IF spelling.prefix = "" THEN "91" ELSE spelling.prefix]

Misspelt(p, agreed) == misspelt' = IF agreed THEN misspelt ELSE misspelt \cup {p}

\* send_otp: older codes of the number stay good until they run out.
SendOtp(p, typed) ==
    /\ Len(codes) < MaxCodes
    /\ codes' = Append(codes, [phone |-> <<p, Canonical(typed)>>, verified |-> FALSE, expired |-> FALSE])
    /\ Misspelt(p, typed \in Documented)
    /\ UNCHANGED <<accounts, riders, onboarded, added, loginVars, jobVars>>

CodeExpires(i) ==
    /\ ~codes[i].expired
    /\ codes' = [codes EXCEPT ![i].expired = TRUE]
    /\ UNCHANGED <<accounts, riders, onboarded, added, loginVars, jobVars, misspelt>>

\* verify_otp: the latest unverified row of that number and code, if in time.
AskVerify(w, i, typed) ==
    /\ login[w] = NoLogin
    /\ ~codes[i].verified /\ ~codes[i].expired
    /\ codes[i].phone[2] = Canonical(typed)
    /\ login' = [login EXCEPT ![w] = [code |-> i, pc |-> "accept"]]
    /\ overlapped' = IF \E x \in Logins \ {w} : login[x] = [code |-> i, pc |-> "accept"]
                       THEN overlapped \cup {i} ELSE overlapped
    /\ UNCHANGED <<peopleVars, uses, jobVars, misspelt>>

AcceptCode(w) ==
    /\ login[w].pc = "accept"
    /\ codes' = [codes EXCEPT ![login[w].code].verified = TRUE]
    /\ login' = [login EXCEPT ![w].pc = "enter"]
    /\ UNCHANGED <<accounts, riders, onboarded, added, uses, overlapped, jobVars, misspelt>>

\* get_or_create and the tokens.
SignIn(w) ==
    LET i == login[w].code
    IN  /\ login[w].pc = "enter"
        /\ accounts' = accounts \cup {codes[i].phone}
        /\ uses' = [uses EXCEPT ![i] = @ + 1]
        /\ login' = [login EXCEPT ![w] = NoLogin]
        /\ UNCHANGED <<riders, onboarded, added, codes, overlapped, jobVars, misspelt>>

LoginDies(w) ==
    /\ login[w] # NoLogin
    /\ login' = [login EXCEPT ![w] = NoLogin]
    /\ UNCHANGED <<peopleVars, uses, overlapped, jobVars, misspelt>>

\* _create_rider (ops board): the number is stored as it was typed; the worker
\* may die between the account and the rider's profile.
OnboardRider(p, typed) ==
    LET user == <<p, typed>>
    IN  /\ added < MaxOnboarded /\ user \notin riders
        /\ accounts' = accounts \cup {user}
        /\ \/ riders' = riders \cup {user} /\ onboarded' = onboarded \cup {user}
           \/ UNCHANGED <<riders, onboarded>>
        /\ added' = added + 1
        /\ Misspelt(p, typed = Full)
        /\ UNCHANGED <<codes, loginVars, jobVars>>

\* Django's own form for users, on the admin site.
AdminAddsUser(p, typed) ==
    /\ added < MaxOnboarded /\ <<p, typed>> \notin accounts
    /\ accounts' = accounts \cup {<<p, typed>>}
    /\ added' = added + 1
    /\ Misspelt(p, typed = Full)
    /\ UNCHANGED <<riders, onboarded, codes, loginVars, jobVars>>

-----------------------------------------------------------------------------
(* Importing customers and riders.                                         *)

\* imports: the rows are parsed before the job exists; none is an error.
Upload(j, kind, rows) ==
    /\ job[j] = NoJob /\ \A k \in Uploads : k < j => job[k] # NoJob
    /\ rows # <<>>
    /\ job' = [job EXCEPT ![j] = [NoJob EXCEPT !.status = "pending", !.kind = kind, !.total = Len(rows)]]
    /\ runner' = [runner EXCEPT ![j] = [NoRunner EXCEPT !.pc = "begin", !.rows = rows]]
    /\ UNCHANGED <<peopleVars, loginVars, misspelt>>

RunnerBegins(j) ==
    /\ runner[j].pc = "begin"
    /\ job' = [job EXCEPT ![j].status = "processing"]
    /\ runner' = [runner EXCEPT ![j].pc = "row"]
    /\ UNCHANGED <<peopleVars, loginVars, misspelt>>

\* A number that no validator lets through, or somebody already a rider.
RowFails(kind, row) == row.spelling = Bad \/ (kind = "riders" /\ <<row.who, row.spelling>> \in riders)

\* A faulty build that reports when all is done.
ReportAtEnd(at, total) == at = total

ReportDue(at, total) == at % ReportEvery = 0 \/ at = total

\* One row in its own transaction: _import_customer, _import_rider.
RunRow(j) ==
    LET r     == runner[j]
        row   == r.rows[r.at + 1]
        user  == <<row.who, row.spelling>>
        fails == RowFails(job[j].kind, row)
    IN  /\ r.pc = "row"
        /\ accounts' = IF fails THEN accounts ELSE accounts \cup {user}
        /\ riders' = IF fails \/ job[j].kind # "riders" THEN riders ELSE riders \cup {user}
        /\ Misspelt(row.who, fails \/ row.spelling = Full)
        /\ runner' = [runner EXCEPT ![j] =
              [r EXCEPT !.at = @ + 1,
                        !.success = IF fails THEN @ ELSE @ + 1,
                        !.errors = IF fails THEN @ + 1 ELSE @,
                        !.kept = IF fails /\ @ < KeepErrors THEN @ + 1 ELSE @,
                        !.pc = IF ReportDue(r.at + 1, job[j].total) THEN "report" ELSE "row"]]
        /\ UNCHANGED <<onboarded, added, codes, loginVars, job>>

Progress(j, status) ==
    job' = [job EXCEPT ![j] = [@ EXCEPT !.status = status, !.processed = runner[j].at,
              !.success = runner[j].success, !.errors = runner[j].errors, !.kept = runner[j].kept]]

ReportProgress(j) ==
    /\ runner[j].pc = "report"
    /\ Progress(j, job[j].status)
    /\ runner' = [runner EXCEPT ![j].pc = IF runner[j].at = job[j].total THEN "finish" ELSE "row"]
    /\ UNCHANGED <<peopleVars, loginVars, misspelt>>

RunnerFinishes(j) ==
    /\ runner[j].pc = "finish"
    /\ Progress(j, "completed")
    /\ runner' = [runner EXCEPT ![j].pc = "done"]
    /\ UNCHANGED <<peopleVars, loginVars, misspelt>>

\* A statement outside the rows' try fails: the thread marks the job failed, or
\* that statement fails too and it ends without a word.
RunnerFails(j) ==
    /\ runner[j].pc \in {"begin", "report", "finish"}
    /\ \/ /\ job' = [job EXCEPT ![j].status = "failed"]
          /\ runner' = [runner EXCEPT ![j].pc = "done"]
       \/ /\ runner' = [runner EXCEPT ![j].pc = "killed"]
          /\ UNCHANGED job
    /\ UNCHANGED <<peopleVars, loginVars, misspelt>>

\* The web worker restarts: its daemon threads end where they stand.
WebRestart ==
    /\ \E j \in Uploads : runner[j].pc \notin {"none", "done", "killed"}
    /\ runner' = [j \in Uploads |-> IF runner[j].pc \in {"none", "done"} THEN runner[j]
                                      ELSE [runner[j] EXCEPT !.pc = "killed"]]
    /\ UNCHANGED <<peopleVars, loginVars, job, misspelt>>

AccountsNext ==
    \/ \E p \in People, typed \in Spellings :
          SendOtp(p, typed) \/ OnboardRider(p, typed) \/ AdminAddsUser(p, typed)
    \/ \E i \in DOMAIN codes : CodeExpires(i)
    \/ \E w \in Logins, i \in DOMAIN codes, typed \in Spellings : AskVerify(w, i, typed)
    \/ \E w \in Logins : AcceptCode(w) \/ SignIn(w) \/ LoginDies(w)
    \/ \E j \in Uploads, kind \in {"customers", "riders"}, rows \in Files : Upload(j, kind, rows)
    \/ \E j \in Uploads :
          \/ RunnerBegins(j) \/ RunRow(j) \/ ReportProgress(j)
          \/ RunnerFinishes(j) \/ RunnerFails(j)
    \/ WebRestart

AccountsSpec == AccountsInit /\ [][AccountsNext]_accountsVars

-----------------------------------------------------------------------------
(* A person who logs in with any documented spelling has one account; a    *)
(* second one can only come of a login with another prefix, which counts   *)
(* as a country code, or of a sheet, the ops board or the admin site       *)
(* storing the number in another form than the full one.                   *)
(* A code signs in once, unless two verifications read it unverified.      *)
AccountPerPerson ==
    /\ \A p \in People \ misspelt : Cardinality({a \in accounts : a[1] = p}) <= 1
    /\ \A i \in 1..MaxCodes \ overlapped : uses[i] <= 1

(* The panel can trust a job: a completed one accounts for every row, and  *)
(* keeps the first errors up to the cap; an unfinished one trails its      *)
(* thread by less than a report, and has a thread unless the worker was    *)
(* restarted or the database refused even the mark of failure, in which    *)
(* case it stays unfinished.                                               *)
Reported(j) ==
    LET seen == job[j].processed
    IN  /\ job[j].status = "completed" =>
              /\ seen = job[j].total /\ job[j].success + job[j].errors = seen
              /\ job[j].kept = IF job[j].errors < KeepErrors THEN job[j].errors ELSE KeepErrors
        /\ job[j].status \in {"pending", "processing"} =>
              /\ runner[j].pc # "done"
              /\ runner[j].at - seen < ReportEvery \/ runner[j].pc \in {"report", "killed"}
              /\ runner[j].at - seen <= ReportEvery

RidersOf(j) == IF job[j].kind = "riders" THEN runner[j].success ELSE 0

(* Every success of a riders' sheet is one new rider, whoever else adds    *)
(* riders meanwhile: no row of two sheets, and none of the ops board,      *)
(* makes or counts the same rider twice.                                   *)
ImportAccounted ==
    /\ \A j \in Uploads : Reported(j)
    /\ Cardinality(riders \ onboarded) = SumOf([j \in Uploads |-> RidersOf(j)])

=============================================================================
