---------------------------- MODULE Registration ----------------------------
(***************************************************************************)
(* Registration: the steps of src/src/auth/auth.controller.ts (captcha,    *)
(* letter, short message), registerByEmail, register, and the writes of an *)
(* address by the user administration (src/src/users/users.service.ts).    *)
(* Redis keeps the form of a sign-up under its phone number until the last *)
(* step; an account is looked for before it is inserted, and the table has *)
(* unique addresses and numbers, as they are written.                      *)
(*                                                                         *)
(* A client takes the steps in the order of the front end; that the codes  *)
(* it sends are those it got is taken for granted.                         *)
(***************************************************************************)
EXTENDS Naturals, FiniteSets

CONSTANTS
    Clients,
    Emails, Phones,
    Lower(_),           \* toLowerCase of an address
    NoAccount

ASSUME RegistrationConstants ==
    /\ \A e \in Emails : Lower(e) \in Emails /\ Lower(Lower(e)) = Lower(e)
    /\ NoAccount \notin Emails \cup Phones

Forms == [email : Emails, phone : Phones]
Accounts == [email : Emails \cup {NoAccount}, phone : Phones \cup {NoAccount}]
NoForm == [email |-> NoAccount, phone |-> NoAccount]

VARIABLES
    client,             \* where each is, the form it fills in, and the one its registration has
    signup,             \* userRegistration: phone number -> the form in Redis, NoForm without
    account,            \* rows of users, named after the client who made them
    roleUser,           \* the role "user" exists
    replaced,           \* history: clients whose form was replaced before they came to the end
    typed               \* history: accounts whose address the administration wrote

registrationVars == <<client, signup, account, roleUser, replaced, typed>>
accounts == <<account, typed>>

NewClient == [step |-> "new", form |-> NoForm, user |-> NoForm]

RegistrationInit ==
    /\ client = [c \in Clients |-> NewClient]
    /\ signup = [p \in Phones |-> NoForm]
    /\ account = [c \in Clients |-> NoForm]
    /\ roleUser \in BOOLEAN
    /\ replaced = {} /\ typed = {}

ClientTo(c, from, to) ==
    /\ client[c].step = from
    /\ client' = [client EXCEPT ![c].step = to]

Known(email) == \E c \in Clients : account[c].email = email
KnownPhone(phone) == \E c \in Clients : account[c].phone = phone

----------------------------------------------------------------------------
(* The steps of the front end *)

(* The captcha matches its token, which stays good for 5 minutes. *)
ValidateCaptcha(c) ==
    /\ \E form \in Forms :
        /\ client[c].step = "new"
        /\ client' = [client EXCEPT ![c] = [step |-> "captcha", form |-> form, user |-> NoForm]]
    /\ UNCHANGED <<signup, accounts, roleUser, replaced>>

(* Between the end of the captcha and the reading of the form. *)
SigningUp == {"letter", "email", "sms"}

(* Mutant: a form is kept that is already there. *)
KeepFirstSignup(c) ==
    /\ ClientTo(c, "captcha", "letter")
    /\ LET p == client[c].form.phone IN
        signup' = IF signup[p] = NoForm THEN [signup EXCEPT ![p] = client[c].form] ELSE signup
    /\ UNCHANGED <<accounts, roleUser, replaced>>

SetSignup(c) ==
    /\ ClientTo(c, "captcha", "letter")
    /\ LET p == client[c].form.phone IN
        /\ signup' = [signup EXCEPT ![p] = client[c].form]
        /\ replaced' = replaced \cup {d \in Clients \ {c} : client[d].step \in SigningUp /\ client[d].form.phone = p}
    /\ UNCHANGED <<accounts, roleUser>>

(* validateCaptcha sends the letter, validateEmail the short message. *)
SendLetter(c) ==
    /\ ClientTo(c, "letter", "email")
    /\ UNCHANGED <<signup, accounts, roleUser, replaced>>

ValidateEmail(c) ==
    /\ ClientTo(c, "email", "sms")
    /\ UNCHANGED <<signup, accounts, roleUser, replaced>>

(* Mutant: a form that is not there is taken for an empty one. *)
ValidateSMSUnguarded(c) ==
    /\ client[c].step = "sms"
    /\ client' = [client EXCEPT ![c].step = "findEmail", ![c].user = signup[client[c].form.phone]]
    /\ UNCHANGED <<signup, accounts, roleUser, replaced>>

(* validateSMS; without a form it fails. *)
ValidateSMS(c) ==
    LET form == signup[client[c].form.phone] IN
    /\ client[c].step = "sms"
    /\ client' = [client EXCEPT ![c] =
                     [step |-> IF form = NoForm THEN "failed" ELSE "findEmail", form |-> @.form, user |-> form]]
    /\ UNCHANGED <<signup, accounts, roleUser, replaced>>

----------------------------------------------------------------------------
(* The other ways in *)

(* POST register *)
Register(c) ==
    /\ \E form \in Forms :
        /\ client[c].step = "new"
        /\ client' = [client EXCEPT ![c] = [step |-> "findEmail", form |-> form, user |-> form]]
    /\ UNCHANGED <<signup, accounts, roleUser, replaced>>

(* registerByEmail of a client who has got a letter: it looks for the      *)
(* address as it is written, and logs in who has it.                       *)
RegisterByEmail(c) ==
    /\ client[c].step = "email"
    /\ LET form == client[c].form IN
        IF Known(form.email) THEN client' = [client EXCEPT ![c].step = "login"]
        ELSE client' = [client EXCEPT ![c].step = "findEmail", ![c].user = form]
    /\ UNCHANGED <<signup, accounts, roleUser, replaced>>

----------------------------------------------------------------------------
(* createUserByWeb *)

FindEmail(c) ==
    /\ ClientTo(c, "findEmail", IF Known(Lower(client[c].user.email)) THEN "refused" ELSE "findPhone")
    /\ UNCHANGED <<signup, accounts, roleUser, replaced>>

FindPhone(c) ==
    /\ ClientTo(c, "findPhone", IF KnownPhone(client[c].user.phone) THEN "refused" ELSE "findRole")
    /\ UNCHANGED <<signup, accounts, roleUser, replaced>>

FindRole(c) ==
    /\ ClientTo(c, "findRole", IF roleUser THEN "insert" ELSE "failed")
    /\ UNCHANGED <<signup, accounts, roleUser, replaced>>

(* Mutant: the address is inserted as it is written. *)
CreateUserAsWritten(c) ==
    /\ ClientTo(c, "insert", "done")
    /\ ~Known(client[c].user.email) /\ ~KnownPhone(client[c].user.phone)
    /\ account' = [account EXCEPT ![c] = client[c].user]
    /\ UNCHANGED <<signup, roleUser, replaced, typed>>

(* The table refuses an address or a number it has. *)
CreateUser(c) ==
    LET user == [client[c].user EXCEPT !.email = Lower(@)] IN
    /\ ClientTo(c, "insert", "done")
    /\ ~Known(user.email) /\ ~KnownPhone(user.phone)
    /\ account' = [account EXCEPT ![c] = user]
    /\ UNCHANGED <<signup, roleUser, replaced, typed>>

(* ... or a statement, the mail or the message fails, or the process dies. *)
FailStep(c) ==
    /\ client[c].step \notin {"new", "login", "refused", "done", "failed"}
    /\ client' = [client EXCEPT ![c].step = "failed"]
    /\ UNCHANGED <<signup, accounts, roleUser, replaced>>

----------------------------------------------------------------------------
(* The user administration *)

(* create, whose account has no number ... *)
AdminFindsEmail(c) ==
    /\ \E e \in Emails :
        /\ client[c].step = "new" /\ ~Known(Lower(e))
        /\ LET user == [email |-> e, phone |-> NoAccount] IN
            client' = [client EXCEPT ![c] = [step |-> "adminInsert", form |-> NoForm, user |-> user]]
    /\ UNCHANGED <<signup, accounts, roleUser, replaced>>

(* ... takes the address as it is written. *)
AdminCreates(c) ==
    /\ ClientTo(c, "adminInsert", "done")
    /\ ~Known(client[c].user.email)
    /\ account' = [account EXCEPT ![c] = client[c].user]
    /\ typed' = typed \cup {c}
    /\ UNCHANGED <<signup, roleUser, replaced>>

(* updateUser *)
AdminUpdates(c) ==
    /\ account[c] # NoForm
    /\ \E e \in Emails :
        /\ ~Known(e)
        /\ account' = [account EXCEPT ![c].email = e]
    /\ typed' = typed \cup {c}
    /\ UNCHANGED <<client, signup, roleUser, replaced>>

AdminRemoves(c) ==
    /\ account[c] # NoForm
    /\ account' = [account EXCEPT ![c] = NoForm]
    /\ UNCHANGED <<client, signup, roleUser, replaced, typed>>

(* userRegistration lives for an hour. *)
ExpireSignup(p) ==
    /\ signup[p] # NoForm
    /\ signup' = [signup EXCEPT ![p] = NoForm]
    /\ UNCHANGED <<client, accounts, roleUser, replaced>>

Enter(c) ==
    \/ ValidateCaptcha(c) \/ SetSignup(c) \/ SendLetter(c) \/ ValidateEmail(c) \/ ValidateSMS(c)
    \/ Register(c) \/ RegisterByEmail(c)
    \/ FindEmail(c) \/ FindPhone(c) \/ FindRole(c) \/ CreateUser(c) \/ FailStep(c)

Administer(c) == AdminFindsEmail(c) \/ AdminCreates(c) \/ AdminUpdates(c) \/ AdminRemoves(c)

RegistrationNext ==
    \/ \E c \in Clients : Enter(c) \/ Administer(c)
    \/ \E p \in Phones : ExpireSignup(p)

RegistrationSpec == RegistrationInit /\ [][RegistrationNext]_registrationVars

----------------------------------------------------------------------------
(* Properties *)

Creating == {"findEmail", "findPhone", "findRole", "insert"}
ClientSteps == {"new", "captcha", "adminInsert", "login", "refused", "done", "failed"} \cup SigningUp \cup Creating

(* The type invariant; who registers or signs up has a form to do it with. *)
RegistrationTypeOK ==
    /\ client \in [Clients -> [step : ClientSteps, form : Forms \cup {NoForm}, user : Accounts]]
    /\ account \in [Clients -> Accounts]
    /\ \A c \in Clients :
        /\ client[c].step \in SigningUp \cup {"captcha"} => client[c].form \in Forms
        /\ client[c].step \in Creating => client[c].user \in Forms
        /\ account[c] # NoForm => client[c].step = "done"
    /\ signup \in [Phones -> Forms \cup {NoForm}]
    /\ roleUser \in BOOLEAN
    /\ replaced \subseteq Clients /\ typed \subseteq Clients

(* The account at the end of the steps is that of the form the client      *)
(* filled in at their beginning, unless another sign-up for the same       *)
(* number came between, or the administration wrote its address            *)
(* (validateCaptcha, validateSMSToken).                                    *)
SignupKept == \A c \in Clients :
    account[c] # NoForm /\ client[c].form # NoForm /\ c \notin replaced \cup typed =>
        account[c] = [client[c].form EXCEPT !.email = Lower(@)]

(* No two accounts share an address up to its case, so that login, which   *)
(* lowers it, can tell whose it is: two registrations at a time do not     *)
(* make one, only the administration does (createUserByWeb, create).       *)
OneAccountPerAddress == \A c, d \in Clients :
    c # d /\ account[c] # NoForm /\ account[d] # NoForm /\ {c, d} \cap typed = {} =>
        Lower(account[c].email) # Lower(account[d].email)
=============================================================================
