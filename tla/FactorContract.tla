--------------------------- MODULE FactorContract ---------------------------
(***************************************************************************)
(* What the second factor promises, with each operation as one indivisible *)
(* step that uses up what was given for it: a password, a code of the      *)
(* authenticator, a backup code.  It knows nothing of statements, of rows  *)
(* or of how long Redis keeps a copy of the codes.                         *)
(***************************************************************************)
CONSTANTS Code,      \* all backup codes
          Sets,      \* the sets of them that can be generated
          Secrets,   \* the secrets that can be generated
          NoSecret,
          Credentials \* what can be given for an operation: right, otp, code

VARIABLES
    enabled, \* a sign-in asks for the second factor
    secret,  \* of the authenticator
    shown,   \* the backup codes the account is shown when it asks for them
    unused,  \* those that open a session
    opened,  \* backup codes that have opened a session
    given    \* what has been given for an operation that is not done yet

cvars == <<enabled, secret, shown, unused, opened, given>>

CInit ==
    /\ enabled = FALSE /\ secret = NoSecret
    /\ shown = {} /\ unused = {} /\ opened = {} /\ given = {}

Give(g) ==
    /\ given = {}
    /\ given' = {g}
    /\ UNCHANGED <<enabled, secret, shown, unused, opened>>

Refuse ==
    /\ given' = {}
    /\ UNCHANGED <<enabled, secret, shown, unused, opened>>

\* Codes are shown for a while only, and open sessions longer than that.
Forget ==
    /\ shown' = {}
    /\ UNCHANGED <<enabled, secret, unused, opened, given>>

\* A set-up starts with another secret, and only while the factor is off.
StartSetUp(s) ==
    /\ ~enabled
    /\ s # secret
    /\ secret' = s
    /\ UNCHANGED <<enabled, shown, unused, opened>>

\* The codes of an account are all replaced, by codes that are not among them
\* and that have not opened a session.
NewCodes(codes) ==
    /\ codes \cap (shown \cup unused \cup opened) = {}
    /\ shown' = codes /\ unused' = codes
    /\ UNCHANGED <<secret, opened>>

Confirm(g, codes) ==
    /\ secret # NoSecret /\ g.otp = secret
    /\ enabled' = TRUE
    /\ NewCodes(codes)

Regenerate(g, codes) ==
    /\ enabled /\ g.right
    /\ NewCodes(codes)
    /\ UNCHANGED enabled

\* Nothing of the factor stays, for the next set-up to start from nothing.
Disable(g) ==
    /\ enabled /\ g.right
    /\ enabled' = FALSE /\ secret' = NoSecret
    /\ shown' = {} /\ unused' = {}
    /\ UNCHANGED opened

\* A backup code in place of the authenticator: once.
OpenByCode(g) ==
    /\ enabled /\ g.code \in unused \ opened
    /\ unused' = unused \ {g.code}
    /\ opened' = opened \cup {g.code}
    /\ UNCHANGED <<enabled, secret, shown>>

CNext ==
    \/ \E g \in Credentials : Give(g)
    \/ Refuse \/ Forget
    \/ \E g \in given :
         /\ given' = {}
         /\ \/ \E s \in Secrets : StartSetUp(s)
            \/ \E codes \in Sets : Confirm(g, codes) \/ Regenerate(g, codes)
            \/ Disable(g) \/ OpenByCode(g)

CSpec == CInit /\ [][CNext]_cvars

=============================================================================
