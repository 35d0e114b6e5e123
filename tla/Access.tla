------------------------------- MODULE Access -------------------------------
(***************************************************************************)
(* Who may see a workspace, and how a browser gets to one: the proxy and   *)
(* the pages' redirects (proxy.ts, auth/session.ts, app/page.tsx, login,   *)
(* enrol-mfa, invite), and the memberships that owners, invitations and    *)
(* the operator's commands grant and end (members/actions.ts,              *)
(* cli/commands/workspace, cli/commands/user).                             *)
(*                                                                         *)
(* A request is one step: it reads the session and the membership once,    *)
(* memoised, and renders or redirects.  A command that prompts is two: the *)
(* checks before the prompt, the write after it.  Better Auth is external: *)
(* its endpoints are modelled by what the actions rely on (one redemption  *)
(* per invitation, the last owner kept, one account per address).          *)
(* A page is a pair of its kind and what it is about.                      *)
(***************************************************************************)
EXTENDS Integers, FiniteSets

CONSTANTS
    People, Browsers,
    Workspaces,     \* numbered in the order of their names
    Invites,        \* bound: the invitation rows
    Founded,        \* [Workspaces -> [People -> role]]: the memberships at the start
    Enrolled,       \* the people with a second factor at the start
    RequireMfa,     \* REQUIRE_MFA
    MaxChanges,     \* bound: changes to accounts, memberships, invitations and factors
    None

Roles == {"owner", "editor", "viewer"}

ASSUME NumberedAssumption == Workspaces \subseteq Nat
ASSUME FoundedAssumption ==
    None \notin People \cup Roles /\ Founded \in [Workspaces -> [People -> Roles \cup {None}]]

Login == <<"login", None>>
Code == <<"code", None>>            \* /login/two-factor
Enrol == <<"enrol", None>>          \* /enrol-mfa
Root == <<"root", None>>
Account == <<"account", None>>      \* /account and /account/sessions
Invitation(i) == <<"invite", i>>
Workspace(w) == <<"workspace", w>>
Asked == {Root, Account} \cup {Invitation(i) : i \in Invites} \cup {Workspace(w) : w \in Workspaces}
Page == Asked \cup {Login, Code, Enrol}
Nowhere == <<"nowhere", None>>

VARIABLES
    made,           \* the workspaces there are
    role,           \* the memberships: a role or None
    accounts,       \* the people with an account
    factor,         \* of each: off, started or on
    invites,        \* the invitation rows
    resets,         \* the people a live reset link is out for
    cookie,         \* whose session a browser's cookie names
    live,           \* whether that session's row still counts
    half,           \* whose password it has given, a code being asked for
    at, going,      \* the page it is on or has asked for
    next,           \* ?next= on that url
    last,           \* its last-workspace cookie
    command,        \* the operator's `user delete' at its prompt
    changes,
    headed,         \* history: the workspace the browser was last sent for, while its
                    \* user belongs to it
    kept            \* history: workspaces with an owner that no overtaken check cost them

control == <<made, role, accounts, factor, invites, resets, command, changes, kept>>
browser == <<cookie, live, half, at, going, next, last, headed>>
vars == <<control, browser>>

Blank == [of |-> None, to |-> None, as |-> None, status |-> "none"]
Owners(w) == {p \in People : role[w][p] = "owner"}

Init ==
    /\ role = Founded
    /\ made = {w \in Workspaces : \E p \in People : Founded[w][p] # None}
    /\ accounts = {p \in People : \E w \in Workspaces : Founded[w][p] # None}
    /\ factor = [p \in People |-> IF p \in Enrolled THEN "on" ELSE "off"]
    /\ invites = [i \in Invites |-> Blank]
    /\ resets = {}
    /\ cookie = [b \in Browsers |-> None]
    /\ live = [b \in Browsers |-> FALSE]
    /\ half = [b \in Browsers |-> None]
    /\ at = [b \in Browsers |-> Login]
    /\ going = [b \in Browsers |-> FALSE]
    /\ next = [b \in Browsers |-> Nowhere]
    /\ last = [b \in Browsers |-> None]
    /\ command = [who |-> None, cleared |-> {}]
    /\ changes = 0
    /\ headed = [b \in Browsers |-> None]
    /\ kept = {w \in Workspaces : Owners(w) # {}}

Change == changes < MaxChanges /\ changes' = changes + 1

-----------------------------------------------------------------------------
(* A request.                                                                *)

Session(b) == IF live[b] THEN cookie[b] ELSE None
Public(page) == page[1] \in {"login", "code", "enrol", "invite"}
Live(i) == invites[i].status = "pending"
LiveInvite(i) == i \in Invites /\ Live(i)

\* Redirected: the browser asks for another page; ?next= is part of its url.
Go(b, page, then) ==
    /\ at' = [at EXCEPT ![b] = page]
    /\ next' = [next EXCEPT ![b] = then]
    /\ going' = [going EXCEPT ![b] = TRUE]
Stay(b) == going' = [going EXCEPT ![b] = FALSE] /\ UNCHANGED <<at, next>>
Missing(b) ==
    /\ at' = [at EXCEPT ![b] = <<"missing", at[b][2]>>]
    /\ going' = [going EXCEPT ![b] = FALSE] /\ UNCHANGED next

\* requireUser: a page goes on once it has one.
Unenrolled(p) == RequireMfa /\ factor[p] # "on"
RequireUser(b) ==
    \/ Session(b) = None /\ Go(b, Login, Nowhere)
    \/ Session(b) # None /\ Unenrolled(Session(b)) /\ Go(b, Enrol, Nowhere)
HasUser(b) == Session(b) # None /\ ~Unenrolled(Session(b))

MineBut(p) == {w \in Workspaces : role[w][p] # None}
First(S) == CHOOSE w \in S : \A v \in S : w <= v
\* The signpost: where you last were, if that is one of yours, else the first.
Signpost(p, hint) == IF hint \in MineBut(p) THEN hint ELSE First(MineBut(p))
RootPage(b) ==
    \/ RequireUser(b)
    \/ HasUser(b) /\ MineBut(Session(b)) = {} /\ Stay(b)
    \/ /\ HasUser(b) /\ MineBut(Session(b)) # {}
       /\ Go(b, Workspace(Signpost(Session(b), last[b])), Nowhere)

\* requireWorkspace: the membership is read on every request.
WorkspacePage(b, w) ==
    \/ RequireUser(b)
    \/ HasUser(b) /\ role[w][Session(b)] # None /\ Stay(b)
    \/ HasUser(b) /\ role[w][Session(b)] = None /\ Missing(b)

AccountPage(b) == RequireUser(b) \/ (HasUser(b) /\ Stay(b))

\* A mutant's page, and the page: it reads the session by hand.
EnrolGuarded(b) ==
    \/ RequireUser(b)
    \/ HasUser(b) /\ factor[Session(b)] = "on" /\ Go(b, Root, Nowhere)
    \/ HasUser(b) /\ factor[Session(b)] # "on" /\ Stay(b)
EnrolPage(b) ==
    \/ Session(b) = None /\ Go(b, Login, Nowhere)
    \/ Session(b) # None /\ factor[Session(b)] = "on" /\ Go(b, Root, Nowhere)
    \/ Session(b) # None /\ factor[Session(b)] # "on" /\ Stay(b)

Served(b) ==
    CASE at[b] = Root -> RootPage(b)
      [] at[b] = Account -> AccountPage(b)
      [] at[b] = Enrol -> EnrolPage(b)
      [] at[b][1] = "workspace" -> WorkspacePage(b, at[b][2])
      [] OTHER -> Stay(b)

\* The proxy, before any page: no cookie, no page but a public one; and the
\* cookie remembers the workspace asked for, whoever may see it.
Bounced(b) == ~Public(at[b]) /\ cookie[b] = None
RememberedNever(b) == last[b]
Remembered(b) == IF at[b][1] = "workspace" /\ ~Bounced(b) THEN at[b][2] ELSE last[b]
Serve(b) ==
    /\ going[b]
    /\ last' = [last EXCEPT ![b] = Remembered(b)]
    /\ IF Bounced(b) THEN Go(b, Login, at[b]) ELSE Served(b)
    /\ headed' = [headed EXCEPT ![b] =
           IF @ # None /\ Session(b) # None /\ role[@][Session(b)] = None THEN None ELSE @]
    /\ UNCHANGED <<control, cookie, live, half>>

\* A person follows a link or types a url; leaving a sign-in half way gives up
\* where it was to lead.
Abandoned(b) == IF at[b] \in {Login, Code} THEN None ELSE headed[b]
Visit(b, page) ==
    /\ ~going[b] /\ page \in Asked \cup {Login, Enrol}
    /\ page[1] = "invite" => invites[page[2]].status # "none"
    /\ Go(b, page, Nowhere)
    /\ headed' = [headed EXCEPT ![b] = IF page[1] = "workspace" THEN page[2] ELSE Abandoned(b)]
    /\ UNCHANGED <<control, cookie, live, half, last>>

-----------------------------------------------------------------------------
(* Signing in and out.                                                       *)

On(b, page) == ~going[b] /\ at[b] = page
Onward(b) == IF next[b] = Nowhere THEN Root ELSE next[b]
OpenSession(b, p) ==
    /\ cookie' = [cookie EXCEPT ![b] = p]
    /\ live' = [live EXCEPT ![b] = TRUE]
    /\ half' = [half EXCEPT ![b] = None]

SignIn(b, p) ==
    /\ On(b, Login) /\ p \in accounts
    /\ IF factor[p] = "on"
       THEN /\ half' = [half EXCEPT ![b] = p]
            /\ Go(b, Code, next[b])
            /\ UNCHANGED <<cookie, live>>
       ELSE OpenSession(b, p) /\ Go(b, Onward(b), Nowhere)
    /\ UNCHANGED <<control, last, headed>>

\* A code from the authenticator, or a backup code.
Verify(b) ==
    /\ On(b, Code) /\ half[b] \in accounts
    /\ OpenSession(b, half[b])
    /\ Go(b, Onward(b), Nowhere)
    /\ UNCHANGED <<control, last, headed>>

SignOut(b) ==
    /\ ~going[b] /\ Session(b) # None /\ at[b][1] \in {"workspace", "account"}
    /\ cookie' = [cookie EXCEPT ![b] = None]
    /\ live' = [live EXCEPT ![b] = FALSE]
    /\ Go(b, Login, Nowhere)
    /\ UNCHANGED <<control, half, last, headed>>

\* It lapses, or another device ends it: the cookie stays.
SessionEnds(b) ==
    /\ live[b] /\ Change
    /\ live' = [live EXCEPT ![b] = FALSE]
    /\ UNCHANGED <<made, role, accounts, factor, invites, resets, command, kept,
                   cookie, half, at, going, next, last, headed>>

\* changePassword and "sign out other devices": this one stays.
OtherSessionsEnd(b) ==
    /\ On(b, Account) /\ Session(b) # None /\ Change
    /\ live' = [c \in Browsers |-> live[c] /\ (c = b \/ cookie[c] # cookie[b])]
    /\ UNCHANGED <<made, role, accounts, factor, invites, resets, command, kept,
                   cookie, half, at, going, next, last, headed>>

EnrolStart(b) ==
    /\ On(b, Enrol) /\ Session(b) # None /\ Change
    /\ factor' = [factor EXCEPT ![Session(b)] = "started"]
    /\ UNCHANGED <<made, role, accounts, invites, resets, command, kept, browser>>

EnrolConfirm(b) ==
    /\ On(b, Enrol) /\ Session(b) # None /\ factor[Session(b)] = "started"
    /\ factor' = [factor EXCEPT ![Session(b)] = "on"]
    /\ Go(b, Root, Nowhere)
    /\ UNCHANGED <<made, role, accounts, invites, resets, command, changes, kept,
                   cookie, live, half, last, headed>>

\* The token is the authority; a new password signs nobody in, or out.
ResetPassword(b, p) ==
    /\ ~going[b] /\ p \in resets
    /\ resets' = resets \ {p}
    /\ Go(b, Login, Nowhere)
    /\ headed' = [headed EXCEPT ![b] = Abandoned(b)]
    /\ UNCHANGED <<made, role, accounts, factor, invites, command, changes, kept,
                   cookie, live, half, last>>

-----------------------------------------------------------------------------
(* Invitations.                                                              *)

\* The account an invitation was addressed to, born from its row.
SignUpFromInvite(b, i) ==
    /\ On(b, Invitation(i)) /\ Session(b) = None /\ LiveInvite(i) /\ invites[i].to \notin accounts
    /\ accounts' = accounts \cup {invites[i].to}
    /\ OpenSession(b, invites[i].to)
    /\ Go(b, Invitation(i), Nowhere)
    /\ UNCHANGED <<made, role, factor, invites, resets, command, changes, kept, last,
                   headed>>

\* The page's other two answers: an account signs in and comes back; so does
\* somebody whose session ended while it was open.
InviteSignIn(b, i) ==
    /\ On(b, Invitation(i)) /\ Session(b) = None /\ LiveInvite(i) /\ invites[i].to \in accounts
    /\ Go(b, Login, Invitation(i))
    /\ UNCHANGED <<control, cookie, live, half, last, headed>>

AcceptInvite(b, i) ==
    /\ On(b, Invitation(i)) /\ Session(b) = invites[i].to /\ LiveInvite(i)
    /\ role[invites[i].of][invites[i].to] = None
    /\ role' = [role EXCEPT ![invites[i].of][invites[i].to] = invites[i].as]
    /\ kept' = IF invites[i].as = "owner" THEN kept \cup {invites[i].of} ELSE kept
    /\ invites' = [invites EXCEPT ![i].status = "accepted"]
    /\ headed' = [headed EXCEPT ![b] = invites[i].of]
    /\ Go(b, Workspace(invites[i].of), Nowhere)
    /\ UNCHANGED <<made, accounts, factor, resets, command, changes, cookie, live, half, last>>

Outstanding(w, p) == {i \in Invites : Live(i) /\ invites[i].of = w /\ invites[i].to = p}
Lapsed(w, p) == {i \in Invites : invites[i].status = "lapsed" /\ invites[i].of = w /\ invites[i].to = p}
NewInvite(w, p, r, retired) ==
    \E i \in Invites :
        /\ invites[i] = Blank /\ \A j \in Invites : invites[j] = Blank => i <= j
        /\ invites' = [j \in Invites |->
               IF j = i THEN [of |-> w, to |-> p, as |-> r, status |-> "pending"]
               ELSE IF j \in retired THEN [invites[j] EXCEPT !.status = "canceled"]
               ELSE invites[j]]

\* Three days pass.  Nothing is written: the row keeps its status, and every
\* reader compares its date.
InviteLapses(i) ==
    /\ LiveInvite(i)
    /\ invites' = [invites EXCEPT ![i].status = "lapsed"]
    /\ UNCHANGED <<made, role, accounts, factor, resets, command, changes, kept, browser>>

-----------------------------------------------------------------------------
(* The members page: requireRole, then the library's endpoint, which keeps   *)
(* the last owner.                                                           *)

May(b, w) ==
    /\ On(b, Workspace(w)) /\ HasUser(b) /\ role[w][Session(b)] = "owner"
LastOwner(w, p) == Owners(w) = {p}
Membership == <<accounts, factor, resets, command, browser>>

Invite(b, w, p, r) ==
    /\ May(b, w) /\ Change
    /\ role[w][p] = None /\ Outstanding(w, p) = {}
    /\ NewInvite(w, p, r, {})
    /\ UNCHANGED <<made, role, kept, Membership>>

CancelInvite(b, i) ==
    /\ LiveInvite(i) /\ May(b, invites[i].of)
    /\ invites' = [invites EXCEPT ![i].status = "canceled"]
    /\ UNCHANGED <<made, role, changes, kept, Membership>>

RemoveMember(b, w, p) ==
    /\ May(b, w) /\ Change /\ role[w][p] # None /\ ~LastOwner(w, p)
    /\ role' = [role EXCEPT ![w][p] = None]
    /\ UNCHANGED <<made, invites, kept, Membership>>

ChangeRole(b, w, p, r) ==
    /\ May(b, w) /\ Change /\ role[w][p] \notin {None, r}
    /\ r # "owner" => ~LastOwner(w, p)
    /\ role' = [role EXCEPT ![w][p] = r]
    /\ UNCHANGED <<made, invites, kept, Membership>>

\* The address comes from the member's row, so only a member's link is made.
GenerateResetLink(b, w, p) ==
    /\ May(b, w) /\ Change /\ role[w][p] # None
    /\ resets' = resets \cup {p}
    /\ UNCHANGED <<made, role, accounts, factor, invites, command, kept, browser>>

-----------------------------------------------------------------------------
(* The operator's commands.                                                  *)

CreateUser(p) ==
    /\ Change /\ p \notin accounts
    /\ accounts' = accounts \cup {p}
    /\ UNCHANGED <<made, role, factor, invites, resets, command, kept, browser>>

AddMember(w, p, r) ==
    /\ Change /\ w \in made /\ p \in accounts /\ role[w][p] = None
    /\ role' = [role EXCEPT ![w][p] = r]
    /\ kept' = IF r = "owner" THEN kept \cup {w} ELSE kept
    /\ UNCHANGED <<made, invites, Membership>>

\* A live invitation is sent again, a lapsed one is superseded.
SendInvite(w, p, r) ==
    /\ Change /\ w \in made /\ role[w][p] = None /\ Outstanding(w, p) = {}
    /\ NewInvite(w, p, r, Lapsed(w, p))
    /\ UNCHANGED <<made, role, kept, Membership>>

\* user password --send-email
SendReset(p) ==
    /\ Change /\ p \in accounts
    /\ resets' = resets \cup {p}
    /\ UNCHANGED <<made, role, accounts, factor, invites, command, kept, browser>>

\* user delete: refused for the only owner of a workspace, then a prompt.
SoleOwnerOfNone(p) == {}
SoleOwnerOf(p) == {w \in Workspaces : LastOwner(w, p)}
DeleteUserAsked(p) ==
    /\ command.who = None /\ p \in accounts /\ changes < MaxChanges
    /\ SoleOwnerOf(p) = {}
    /\ command' = [who |-> p, cleared |-> {w \in Workspaces : ~LastOwner(w, p)}]
    /\ UNCHANGED <<made, role, accounts, factor, invites, resets, changes, kept, browser>>

\* The address typed back: memberships and sessions go with the row.
DeleteUserTyped ==
    LET p == command.who IN
    /\ p \in accounts /\ Change
    /\ accounts' = accounts \ {p}
    /\ role' = [w \in Workspaces |-> [role[w] EXCEPT ![p] = None]]
    /\ live' = [b \in Browsers |-> live[b] /\ cookie[b] # p]
    /\ factor' = [factor EXCEPT ![p] = "off"]
    /\ resets' = resets \ {p}
    /\ command' = [who |-> None, cleared |-> {}]
    /\ kept' = kept \ {w \in command.cleared : LastOwner(w, p)}
    /\ UNCHANGED <<made, invites, cookie, half, at, going, next, last, headed>>

DeleteUserDeclined ==
    /\ command.who # None
    /\ command' = [who |-> None, cleared |-> {}]
    /\ UNCHANGED <<made, role, accounts, factor, invites, resets, changes, kept, browser>>

\* workspace create: for an owner who has an account, or one it invites; a slug
\* in use gets a suffix, so the workspace is always a new one.
CreateWorkspace(w, p) ==
    /\ Change /\ w \notin made
    /\ made' = made \cup {w}
    /\ \/ /\ p \in accounts
          /\ role' = [role EXCEPT ![w][p] = "owner"]
          /\ kept' = kept \cup {w}
          /\ UNCHANGED invites
       \/ NewInvite(w, p, "owner", {}) /\ UNCHANGED <<role, kept>>
    /\ UNCHANGED Membership

\* workspace delete: the row, and everything that hangs off it.
DeleteWorkspace(w) ==
    /\ Change /\ w \in made
    /\ made' = made \ {w}
    /\ role' = [role EXCEPT ![w] = [p \in People |-> None]]
    /\ invites' = [i \in Invites |->
           IF invites[i].of = w THEN [invites[i] EXCEPT !.status = "canceled"] ELSE invites[i]]
    /\ kept' = kept \ {w}
    /\ UNCHANGED Membership

-----------------------------------------------------------------------------
Browse(b) ==
    \/ Serve(b) \/ \E page \in Page : Visit(b, page)
    \/ \E p \in People : SignIn(b, p) \/ ResetPassword(b, p)
    \/ Verify(b) \/ SignOut(b) \/ SessionEnds(b) \/ OtherSessionsEnd(b)
    \/ EnrolStart(b) \/ EnrolConfirm(b)
    \/ \E i \in Invites : SignUpFromInvite(b, i) \/ InviteSignIn(b, i) \/ AcceptInvite(b, i)
                          \/ CancelInvite(b, i)
    \/ \E w \in Workspaces, p \in People :
          \/ RemoveMember(b, w, p) \/ GenerateResetLink(b, w, p)
          \/ \E r \in Roles : Invite(b, w, p, r) \/ ChangeRole(b, w, p, r)

Operate ==
    \/ \E p \in People : CreateUser(p) \/ SendReset(p) \/ DeleteUserAsked(p)
    \/ DeleteUserTyped \/ DeleteUserDeclined
    \/ \E w \in Workspaces :
          \/ DeleteWorkspace(w)
          \/ \E p \in People : CreateWorkspace(w, p)
                               \/ \E r \in Roles : AddMember(w, p, r) \/ SendInvite(w, p, r)
    \/ \E i \in Invites : InviteLapses(i)

Next == Operate \/ \E b \in Browsers : Browse(b)
Spec == Init /\ [][Next]_vars /\ \A b \in Browsers : WF_vars(Serve(b))

-----------------------------------------------------------------------------
\* No redirect loop: whatever a browser's cookie, session and second factor are,
\* following the redirects of the proxy, requireUser, the signpost, the login and
\* the enrolment page comes to a page (enrol-mfa/page.tsx, requireUser).
RedirectsEnd == \A b \in Browsers : going[b] ~> ~going[b]

\* However many detours by way of the login form, a code and enrolment there
\* were, a browser that comes to rest on a workspace is on the one it was last
\* sent for, if that is one its user belongs to (?next=, the last-workspace
\* cookie and the signpost; app/page.tsx's "where you last were").
Arrives ==
    \A b \in Browsers, w \in Workspaces :
        On(b, Workspace(w)) /\ Session(b) # None /\ headed[b] # None /\ headed[b] # w
            => role[headed[b]][Session(b)] = None

\* A workspace that has had an owner has one still, until it is deleted, but for
\* the deletion of an account whose check another owner's leaving overtook
\* at the prompt (cli/commands/user/delete.ts, the library's last-owner rule).
KeepsAnOwner == \A w \in kept : Owners(w) # {}
=============================================================================
