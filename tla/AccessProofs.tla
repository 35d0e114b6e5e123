---------------------------- MODULE AccessProofs ----------------------------
(* Who is let in, and what is kept for the bank.  That no workspace loses    *)
(* its last owner, and that a browser arrives where it was headed (Access);  *)
(* that the pair stored last is the one a bank link holds, and that a pair   *)
(* pasted into the page gets its run (Links).  Neither touches the other's   *)
(* state: who may open the pages is Access's, what they store is Links's.    *)
EXTENDS Access, Links, TLAPS

Letter == [of : Workspaces \cup {None}, to : People \cup {None}, as : Roles \cup {None},
           status : {"none", "pending", "lapsed", "accepted", "canceled"}]
\* What an invitation grants while it can still be accepted.
Granting == \A i \in Invites : Live(i) =>
                /\ invites[i].of \in Workspaces /\ invites[i].to \in People
                /\ invites[i].as \in Roles
\* The command at its prompt has found the user to be nobody's only owner.
Cleared == command.who # None => command.cleared = Workspaces

TypeOK ==
    /\ role \in [Workspaces -> [People -> Roles \cup {None}]]
    /\ accounts \subseteq People /\ kept \subseteq Workspaces
    /\ invites \in [Invites -> Letter]
OwnerInv == TypeOK /\ Granting /\ Cleared /\ KeepsAnOwner

-----------------------------------------------------------------------------
\* Giving somebody a role costs nobody an owner, unless it is the last owner
\* who is given less.
LEMMA RoleGiven ==
    ASSUME OwnerInv, NEW w \in Workspaces, NEW p \in People, NEW r \in Roles \cup {None},
           role' = [role EXCEPT ![w][p] = r], r = "owner" \/ ~LastOwner(w, p),
           kept' = kept \/ (r = "owner" /\ kept' = kept \cup {w})
    PROVE  /\ role' \in [Workspaces -> [People -> Roles \cup {None}]]
           /\ kept' \subseteq Workspaces /\ KeepsAnOwner'
<1> USE DEF OwnerInv, TypeOK
<1>1. role' \in [Workspaces -> [People -> Roles \cup {None}]] OBVIOUS
<1>2. role'[w][p] = r OBVIOUS
<1>3. ASSUME NEW v \in Workspaces, NEW q \in People, v # w \/ q # p
      PROVE  role'[v][q] = role[v][q]
  BY <1>3
<1>4. ASSUME NEW v \in kept, v # w PROVE Owners(v)' # {}
  <2>1. PICK q \in People : role[v][q] = "owner" BY DEF KeepsAnOwner, Owners
  <2>2. role'[v][q] = "owner" BY <1>3, <1>4, <2>1
  <2> QED BY <2>2 DEF Owners
<1>5. CASE r = "owner"
  <2>1. Owners(w)' # {} BY <1>2, <1>5 DEF Owners
  <2> QED BY <1>1, <1>4, <2>1 DEF KeepsAnOwner
<1>6. CASE r # "owner"
  <2>1. ASSUME w \in kept PROVE Owners(w)' # {}
    <3>1. Owners(w) # {} /\ Owners(w) # {p} BY <1>6, <2>1 DEF KeepsAnOwner, LastOwner
    <3>2. PICK q \in People : q # p /\ role[w][q] = "owner" BY <3>1 DEF Owners
    <3>3. role'[w][q] = "owner" BY <1>3, <3>2
    <3> QED BY <3>3 DEF Owners
  <2>2. kept' = kept BY <1>6
  <2> QED BY <1>1, <1>4, <2>1, <2>2 DEF KeepsAnOwner
<1> QED BY <1>5, <1>6

\* A new invitation can be accepted as what it says.
LEMMA InviteGiven ==
    ASSUME OwnerInv, NEW w \in Workspaces, NEW p \in People, NEW r \in Roles,
           NEW retired \in SUBSET Invites, NewInvite(w, p, r, retired)
    PROVE  invites' \in [Invites -> Letter] /\ Granting'
<1> USE DEF OwnerInv, TypeOK
<1>1. PICK i \in Invites :
        invites' = [j \in Invites |->
            IF j = i THEN [of |-> w, to |-> p, as |-> r, status |-> "pending"]
            ELSE IF j \in retired THEN [invites[j] EXCEPT !.status = "canceled"]
            ELSE invites[j]]
  BY DEF NewInvite
<1>2. [of |-> w, to |-> p, as |-> r, status |-> "pending"] \in Letter BY DEF Letter
<1>3. ASSUME NEW j \in Invites
      PROVE  /\ [invites[j] EXCEPT !.status = "canceled"] \in Letter
             /\ [invites[j] EXCEPT !.status = "canceled"].status = "canceled"
  <2>1. invites[j] \in Letter OBVIOUS
  <2> QED BY <2>1 DEF Letter
<1>4. invites' \in [Invites -> Letter] BY <1>1, <1>2, <1>3
<1>5. Granting' BY <1>1, <1>3 DEF Granting, Live
<1> QED BY <1>4, <1>5

\* An invitation that is closed grants nothing any more.
LEMMA InviteClosed ==
    ASSUME OwnerInv, NEW i \in Invites, NEW status \in {"lapsed", "accepted", "canceled"},
           invites' = [invites EXCEPT ![i].status = status]
    PROVE  invites' \in [Invites -> Letter] /\ Granting'
<1>1. invites[i] \in Letter BY DEF OwnerInv, TypeOK
<1>2. [invites[i] EXCEPT !.status = status] \in Letter BY <1>1 DEF Letter
<1>3. [invites[i] EXCEPT !.status = status].status = status BY <1>1 DEF Letter
<1> QED BY <1>2, <1>3 DEF OwnerInv, TypeOK, Granting, Live

\* What does not concern memberships changes nothing of it.
LEMMA OwnersStay ==
    ASSUME OwnerInv, UNCHANGED <<role, kept, command, invites>>, accounts' \subseteq People
    PROVE  OwnerInv'
BY DEF OwnerInv, TypeOK, Granting, Live, Cleared, KeepsAnOwner, Owners

-----------------------------------------------------------------------------
(* The actions that concern memberships or invitations.                      *)

LEMMA AcceptKeeps ==
    ASSUME OwnerInv, NEW b \in Browsers, NEW i \in Invites, AcceptInvite(b, i)
    PROVE  OwnerInv'
<1> DEFINE w == invites[i].of
           p == invites[i].to
           r == invites[i].as
<1>1. w \in Workspaces /\ p \in People /\ r \in Roles
  BY DEF AcceptInvite, LiveInvite, OwnerInv, Granting
<1>2. /\ role[w][p] = None /\ role' = [role EXCEPT ![w][p] = r]
      /\ kept' = IF r = "owner" THEN kept \cup {w} ELSE kept
      /\ invites' = [invites EXCEPT ![i].status = "accepted"]
      /\ accounts' = accounts /\ command' = command
  BY DEF AcceptInvite
<1>3. ~LastOwner(w, p)
  <2>1. p \notin Owners(w) BY <1>2, FoundedAssumption DEF Owners, Roles, OwnerInv, TypeOK
  <2> QED BY <2>1 DEF LastOwner
<1>4. kept' = kept \/ (r = "owner" /\ kept' = kept \cup {w}) BY <1>2
<1> HIDE DEF w, p, r
<1>5. /\ role' \in [Workspaces -> [People -> Roles \cup {None}]]
      /\ kept' \subseteq Workspaces /\ KeepsAnOwner'
  BY <1>1, <1>2, <1>3, <1>4, RoleGiven
<1>6. invites' \in [Invites -> Letter] /\ Granting' BY <1>2, InviteClosed
<1> QED BY <1>2, <1>5, <1>6 DEF OwnerInv, TypeOK, Cleared

LEMMA MemberKeeps ==
    ASSUME OwnerInv, NEW w \in Workspaces, NEW p \in People, NEW r \in Roles \cup {None},
           role' = [role EXCEPT ![w][p] = r], r = "owner" \/ ~LastOwner(w, p),
           kept' = kept \/ (r = "owner" /\ kept' = kept \cup {w}),
           UNCHANGED <<invites, accounts, command>>
    PROVE  OwnerInv'
<1>1. /\ role' \in [Workspaces -> [People -> Roles \cup {None}]]
      /\ kept' \subseteq Workspaces /\ KeepsAnOwner'
  BY RoleGiven
<1> QED BY <1>1 DEF OwnerInv, TypeOK, Granting, Live, Cleared

LEMMA InvitesKeep ==
    ASSUME OwnerInv, invites' \in [Invites -> Letter], Granting',
           UNCHANGED <<role, kept, accounts, command>>
    PROVE  OwnerInv'
BY DEF OwnerInv, TypeOK, Cleared, KeepsAnOwner, Owners

\* The deletion at the prompt found no workspace its user alone owned, so a
\* workspace it leaves without an owner is one another owner has left meanwhile.
LEMMA DeletionKeeps ==
    ASSUME OwnerInv, DeleteUserTyped
    PROVE  OwnerInv'
<1> DEFINE p == command.who
<1>1. p \in People /\ p # None
  BY FoundedAssumption DEF DeleteUserTyped, OwnerInv, TypeOK
<1>2. /\ role' = [w \in Workspaces |-> [role[w] EXCEPT ![p] = None]]
      /\ accounts' = accounts \ {p}
      /\ command' = [who |-> None, cleared |-> {}]
      /\ kept' = kept \ {w \in command.cleared : LastOwner(w, p)}
      /\ invites' = invites
  BY DEF DeleteUserTyped
<1>3. command.cleared = Workspaces BY <1>1 DEF OwnerInv, Cleared
<1> HIDE DEF p
<1>4. role' \in [Workspaces -> [People -> Roles \cup {None}]]
  BY <1>1, <1>2 DEF OwnerInv, TypeOK
<1>5. ASSUME NEW w \in kept' PROVE Owners(w)' # {}
  <2>1. w \in Workspaces /\ w \in kept BY <1>2 DEF OwnerInv, TypeOK
  <2>2. ~LastOwner(w, p) BY <1>2, <1>3, <2>1
  <2>3. Owners(w) # {} /\ Owners(w) # {p} BY <2>1, <2>2 DEF OwnerInv, KeepsAnOwner, LastOwner
  <2>4. PICK q \in People : q # p /\ role[w][q] = "owner" BY <2>3 DEF Owners
  <2>5. role'[w][q] = "owner" BY <1>2, <2>1, <2>4 DEF OwnerInv, TypeOK
  <2> QED BY <2>5 DEF Owners
<1>6. KeepsAnOwner' BY <1>5 DEF KeepsAnOwner
<1>7. TypeOK' BY <1>2, <1>4 DEF OwnerInv, TypeOK
<1>8. Granting' BY <1>2 DEF OwnerInv, Granting, Live
<1>9. Cleared' BY <1>2 DEF Cleared
<1> QED BY <1>6, <1>7, <1>8, <1>9 DEF OwnerInv

LEMMA DeletedWorkspaceKeeps ==
    ASSUME OwnerInv, NEW w \in Workspaces, DeleteWorkspace(w)
    PROVE  OwnerInv'
<1>1. /\ role' = [role EXCEPT ![w] = [p \in People |-> None]]
      /\ invites' = [i \in Invites |-> IF invites[i].of = w THEN [invites[i] EXCEPT !.status = "canceled"]
                                       ELSE invites[i]]
      /\ kept' = kept \ {w}
      /\ accounts' = accounts /\ command' = command
  BY DEF DeleteWorkspace, Membership
<1>2. ASSUME NEW j \in Invites
      PROVE  /\ [invites[j] EXCEPT !.status = "canceled"] \in Letter
             /\ [invites[j] EXCEPT !.status = "canceled"].status = "canceled"
  <2>1. invites[j] \in Letter BY DEF OwnerInv, TypeOK
  <2> QED BY <2>1 DEF Letter
<1>3. invites' \in [Invites -> Letter] BY <1>1, <1>2 DEF OwnerInv, TypeOK
<1>4. Granting' BY <1>1, <1>2 DEF OwnerInv, Granting, Live
<1>5. role' \in [Workspaces -> [People -> Roles \cup {None}]]
  BY <1>1 DEF OwnerInv, TypeOK
<1>6. ASSUME NEW v \in kept' PROVE Owners(v)' # {}
  <2>1. v \in Workspaces /\ v # w /\ Owners(v) # {} BY <1>1 DEF OwnerInv, TypeOK, KeepsAnOwner
  <2>2. role'[v] = role[v] BY <1>1, <2>1 DEF OwnerInv, TypeOK
  <2> QED BY <2>1, <2>2 DEF Owners
<1>7. KeepsAnOwner' BY <1>6 DEF KeepsAnOwner
<1>8. Cleared' BY <1>1 DEF OwnerInv, Cleared
<1> QED BY <1>1, <1>3, <1>4, <1>5, <1>7, <1>8 DEF OwnerInv, TypeOK

LEMMA CreatedKeeps ==
    ASSUME OwnerInv, NEW w \in Workspaces, NEW p \in People, CreateWorkspace(w, p)
    PROVE  OwnerInv'
<1>1. accounts' = accounts /\ command' = command BY DEF CreateWorkspace, Membership
<1>2. CASE /\ role' = [role EXCEPT ![w][p] = "owner"]
           /\ kept' = kept \cup {w} /\ UNCHANGED invites
  BY <1>1, <1>2, MemberKeeps DEF Roles
<1>3. CASE NewInvite(w, p, "owner", {}) /\ UNCHANGED <<role, kept>>
  <2>1. invites' \in [Invites -> Letter] /\ Granting' BY <1>3, InviteGiven DEF Roles
  <2> QED BY <1>1, <1>3, <2>1, InvitesKeep
<1> QED BY <1>2, <1>3 DEF CreateWorkspace

-----------------------------------------------------------------------------
(* The steps.                                                                *)

\* What a browser does that concerns neither.
LEMMA BrowsingKeeps ==
    ASSUME OwnerInv, NEW b \in Browsers,
           \/ Serve(b) \/ Verify(b) \/ SignOut(b) \/ SessionEnds(b) \/ OtherSessionsEnd(b)
           \/ EnrolStart(b) \/ EnrolConfirm(b)
           \/ \E page \in Page : Visit(b, page)
           \/ \E p \in People : SignIn(b, p) \/ ResetPassword(b, p)
           \/ \E i \in Invites : SignUpFromInvite(b, i) \/ InviteSignIn(b, i)
           \/ \E w \in Workspaces, p \in People : GenerateResetLink(b, w, p)
    PROVE  OwnerInv'
<1> SUFFICES UNCHANGED <<role, kept, command, invites>> /\ accounts' \subseteq People
  BY OwnersStay
<1>1. accounts \subseteq People BY DEF OwnerInv, TypeOK
<1>2. CASE Serve(b) BY <1>1, <1>2 DEF Serve, control
<1>3. CASE Verify(b) BY <1>1, <1>3 DEF Verify, control
<1>4. CASE SignOut(b) BY <1>1, <1>4 DEF SignOut, control
<1>5. CASE SessionEnds(b) BY <1>1, <1>5 DEF SessionEnds
<1>6. CASE OtherSessionsEnd(b) BY <1>1, <1>6 DEF OtherSessionsEnd
<1>7. CASE EnrolStart(b) BY <1>1, <1>7 DEF EnrolStart
<1>8. CASE EnrolConfirm(b) BY <1>1, <1>8 DEF EnrolConfirm
<1>9. CASE \E page \in Page : Visit(b, page) BY <1>1, <1>9 DEF Visit, control
<1>10. CASE \E p \in People : SignIn(b, p) BY <1>1, <1>10 DEF SignIn, control
<1>11. CASE \E p \in People : ResetPassword(b, p) BY <1>1, <1>11 DEF ResetPassword
<1>12. ASSUME NEW i \in Invites, SignUpFromInvite(b, i)
       PROVE  UNCHANGED <<role, kept, command, invites>> /\ accounts' \subseteq People
  <2>1. invites[i].to \in People
    BY <1>12 DEF SignUpFromInvite, LiveInvite, OwnerInv, Granting
  <2> QED BY <1>1, <1>12, <2>1 DEF SignUpFromInvite
<1>13. CASE \E i \in Invites : InviteSignIn(b, i) BY <1>1, <1>13 DEF InviteSignIn, control
<1>14. CASE \E w \in Workspaces, p \in People : GenerateResetLink(b, w, p)
  BY <1>1, <1>14 DEF GenerateResetLink
<1> QED BY <1>2, <1>3, <1>4, <1>5, <1>6, <1>7, <1>8, <1>9, <1>10, <1>11, <1>12, <1>13, <1>14

LEMMA BrowseKeeps ==
    ASSUME OwnerInv, NEW b \in Browsers, Browse(b)
    PROVE  OwnerInv'
<1>1. ASSUME NEW i \in Invites, AcceptInvite(b, i) PROVE OwnerInv'
  BY <1>1, AcceptKeeps
<1>2. ASSUME NEW i \in Invites, CancelInvite(b, i) PROVE OwnerInv'
  <2>1. /\ invites' = [invites EXCEPT ![i].status = "canceled"]
        /\ UNCHANGED <<role, kept, accounts, command>>
    BY <1>2 DEF CancelInvite, Membership
  <2> QED BY <2>1, InviteClosed, InvitesKeep
<1>3. ASSUME NEW w \in Workspaces, NEW p \in People, RemoveMember(b, w, p) PROVE OwnerInv'
  <2>1. /\ role' = [role EXCEPT ![w][p] = None] /\ ~LastOwner(w, p)
        /\ UNCHANGED <<invites, kept, accounts, command>>
    BY <1>3 DEF RemoveMember, Membership
  <2> QED BY <2>1, MemberKeeps
<1>4. ASSUME NEW w \in Workspaces, NEW p \in People, NEW r \in Roles, ChangeRole(b, w, p, r)
      PROVE  OwnerInv'
  <2>1. /\ role' = [role EXCEPT ![w][p] = r] /\ (r = "owner" \/ ~LastOwner(w, p))
        /\ UNCHANGED <<invites, kept, accounts, command>>
    BY <1>4 DEF ChangeRole, Membership
  <2> QED BY <2>1, MemberKeeps
<1>5. ASSUME NEW w \in Workspaces, NEW p \in People, NEW r \in Roles, Invite(b, w, p, r)
      PROVE  OwnerInv'
  <2>1. NewInvite(w, p, r, {}) /\ UNCHANGED <<role, kept, accounts, command>>
    BY <1>5 DEF Invite, Membership
  <2>2. invites' \in [Invites -> Letter] /\ Granting' BY <2>1, InviteGiven
  <2> QED BY <2>1, <2>2, InvitesKeep
<1>6. CASE \/ Serve(b) \/ Verify(b) \/ SignOut(b) \/ SessionEnds(b) \/ OtherSessionsEnd(b)
           \/ EnrolStart(b) \/ EnrolConfirm(b)
           \/ \E page \in Page : Visit(b, page)
           \/ \E p \in People : SignIn(b, p) \/ ResetPassword(b, p)
           \/ \E i \in Invites : SignUpFromInvite(b, i) \/ InviteSignIn(b, i)
           \/ \E w \in Workspaces, p \in People : GenerateResetLink(b, w, p)
  BY <1>6, BrowsingKeeps
<1> QED BY <1>1, <1>2, <1>3, <1>4, <1>5, <1>6, Zenon DEF Browse

LEMMA OperateKeeps ==
    ASSUME OwnerInv, Operate
    PROVE  OwnerInv'
<1>1. ASSUME NEW p \in People, CreateUser(p) PROVE OwnerInv'
  <2>1. accounts' \subseteq People /\ UNCHANGED <<role, kept, command, invites>>
    BY <1>1 DEF CreateUser, OwnerInv, TypeOK
  <2> QED BY <2>1, OwnersStay
<1>2. ASSUME NEW p \in People, SendReset(p) PROVE OwnerInv'
  <2>1. accounts' \subseteq People /\ UNCHANGED <<role, kept, command, invites>>
    BY <1>2 DEF SendReset, OwnerInv, TypeOK
  <2> QED BY <2>1, OwnersStay
<1>3. ASSUME NEW p \in People, DeleteUserAsked(p) PROVE OwnerInv'
  <2>1. /\ command' = [who |-> p, cleared |-> {w \in Workspaces : ~LastOwner(w, p)}]
        /\ SoleOwnerOf(p) = {} /\ UNCHANGED <<role, kept, accounts, invites>>
    BY <1>3 DEF DeleteUserAsked
  <2>2. Cleared' BY <2>1 DEF Cleared, SoleOwnerOf
  <2> QED BY <2>1, <2>2 DEF OwnerInv, TypeOK, Granting, Live, KeepsAnOwner, Owners
<1>4. CASE DeleteUserTyped BY <1>4, DeletionKeeps
<1>5. CASE DeleteUserDeclined
  <2>1. /\ command' = [who |-> None, cleared |-> {}]
        /\ UNCHANGED <<role, kept, accounts, invites>>
    BY <1>5 DEF DeleteUserDeclined
  <2>2. Cleared' BY <2>1 DEF Cleared
  <2> QED BY <2>1, <2>2 DEF OwnerInv, TypeOK, Granting, Live, KeepsAnOwner, Owners
<1>6. ASSUME NEW w \in Workspaces, DeleteWorkspace(w) PROVE OwnerInv'
  BY <1>6, DeletedWorkspaceKeeps
<1>7. ASSUME NEW w \in Workspaces, NEW p \in People, CreateWorkspace(w, p) PROVE OwnerInv'
  BY <1>7, CreatedKeeps
<1>8. ASSUME NEW w \in Workspaces, NEW p \in People, NEW r \in Roles, AddMember(w, p, r)
      PROVE  OwnerInv'
  <2>1. /\ role' = [role EXCEPT ![w][p] = r] /\ role[w][p] = None
        /\ kept' = IF r = "owner" THEN kept \cup {w} ELSE kept
        /\ UNCHANGED <<invites, accounts, command>>
    BY <1>8 DEF AddMember, Membership
  <2>2. p \notin Owners(w) BY <2>1, FoundedAssumption DEF Owners, Roles
  <2>3. ~LastOwner(w, p) BY <2>2 DEF LastOwner
  <2>4. kept' = kept \/ (r = "owner" /\ kept' = kept \cup {w}) BY <2>1
  <2> QED BY <2>1, <2>3, <2>4, MemberKeeps
<1>9. ASSUME NEW w \in Workspaces, NEW p \in People, NEW r \in Roles, SendInvite(w, p, r)
      PROVE  OwnerInv'
  <2>1. NewInvite(w, p, r, Lapsed(w, p)) /\ UNCHANGED <<role, kept, accounts, command>>
    BY <1>9 DEF SendInvite, Membership
  <2>2. Lapsed(w, p) \in SUBSET Invites BY DEF Lapsed
  <2>3. invites' \in [Invites -> Letter] /\ Granting' BY <2>1, <2>2, InviteGiven
  <2> QED BY <2>1, <2>3, InvitesKeep
<1>10. ASSUME NEW i \in Invites, InviteLapses(i) PROVE OwnerInv'
  <2>1. /\ invites' = [invites EXCEPT ![i].status = "lapsed"]
        /\ UNCHANGED <<role, kept, accounts, command>>
    BY <1>10 DEF InviteLapses
  <2> QED BY <2>1, InviteClosed, InvitesKeep
<1> QED BY <1>1, <1>2, <1>3, <1>4, <1>5, <1>6, <1>7, <1>8, <1>9, <1>10 DEF Operate

LEMMA OwnersStart == Init => OwnerInv
<1> SUFFICES ASSUME Init PROVE OwnerInv OBVIOUS
<1> USE FoundedAssumption
<1>1. invites = [i \in Invites |-> Blank] /\ role = Founded /\ command.who = None BY DEF Init
<1>2. Blank \in Letter BY DEF Blank, Letter
<1>3. TypeOK BY <1>1, <1>2 DEF Init, TypeOK
<1>4. Granting BY <1>1 DEF Granting, Live, Blank
<1>5. Cleared BY <1>1 DEF Cleared
<1>6. KeepsAnOwner BY DEF Init, KeepsAnOwner
<1> QED BY <1>3, <1>4, <1>5, <1>6 DEF OwnerInv

LEMMA OwnersHold == Spec => []OwnerInv
<1>1. Init => OwnerInv BY OwnersStart
<1>2. OwnerInv /\ [Next]_vars => OwnerInv'
  <2> SUFFICES ASSUME OwnerInv, [Next]_vars PROVE OwnerInv' OBVIOUS
  <2>1. CASE Operate BY <2>1, OperateKeeps
  <2>2. CASE \E b \in Browsers : Browse(b) BY <2>2, BrowseKeeps
  <2>3. CASE UNCHANGED vars
    <3>1. accounts' \subseteq People BY <2>3 DEF vars, control, OwnerInv, TypeOK
    <3> QED BY <2>3, <3>1, OwnersStay DEF vars, control
  <2> QED BY <2>1, <2>2, <2>3 DEF Next
<1> QED BY <1>1, <1>2, PTL DEF Spec

\* However the members page, the invitations, the operator's commands and the
\* deletion waiting at its prompt interleave, for any number of people,
\* workspaces and browsers, a workspace that has had an owner has one still.
THEOREM OwnerKept == Spec => []KeepsAnOwner
<1>1. OwnerInv => KeepsAnOwner BY DEF OwnerInv
<1> QED BY <1>1, OwnersHold, PTL

-----------------------------------------------------------------------------
(* Why a browser arrives: wherever it was headed is named by its url, by the *)
(* ?next= of the form it signs in on, or else by its last-workspace cookie.  *)

\* A browser headed for h, on a page with `then' as its ?next=.
LedTo(h, page, then, busy, saved) ==
    /\ h \in Workspaces
    /\ page[1] = "workspace" => page[2] = h
    /\ IF page \in {Login, Code} /\ then[1] = "workspace" THEN then[2] = h
       ELSE (page[1] = "workspace" /\ busy) \/ saved = h

PerBrowser(f) == f = [b \in Browsers |-> f[b]]
Shaped == /\ PerBrowser(at) /\ PerBrowser(going) /\ PerBrowser(next)
          /\ PerBrowser(last) /\ PerBrowser(headed)
Led(b) == headed[b] # None => LedTo(headed[b], at[b], next[b], going[b], last[b])
LedInv == Shaped /\ \A b \in Browsers : Led(b)

\* One browser moves.
LEMMA Moved ==
    ASSUME LedInv, NEW b \in Browsers, NEW page, NEW then, NEW busy, NEW saved, NEW h,
           at' = [at EXCEPT ![b] = page], next' = [next EXCEPT ![b] = then],
           going' = [going EXCEPT ![b] = busy], last' = [last EXCEPT ![b] = saved],
           headed' = [headed EXCEPT ![b] = h],
           h # None => LedTo(h, page, then, busy, saved)
    PROVE  LedInv'
<1> USE DEF LedInv, Shaped, PerBrowser
<1>1. Shaped' OBVIOUS
<1>2. Led(b)' BY DEF Led
<1>3. ASSUME NEW c \in Browsers, c # b PROVE Led(c)'
  <2>1. /\ at'[c] = at[c] /\ next'[c] = next[c] /\ going'[c] = going[c]
        /\ last'[c] = last[c] /\ headed'[c] = headed[c]
    BY <1>3
  <2> QED BY <2>1 DEF Led
<1> QED BY <1>1, <1>2, <1>3

\* A redirect, or a link followed, by a browser that keeps its cookies.
LEMMA Gone ==
    ASSUME LedInv, NEW b \in Browsers, NEW page, NEW then, NEW h, Go(b, page, then),
           last' = last, headed' = [headed EXCEPT ![b] = h],
           h # None => LedTo(h, page, then, TRUE, last[b])
    PROVE  LedInv'
<1>1. last' = [last EXCEPT ![b] = last[b]] BY DEF LedInv, Shaped, PerBrowser
<1> QED BY <1>1, Moved DEF Go

LEMMA Unmoved == ASSUME LedInv, UNCHANGED <<at, going, next, last, headed>> PROVE LedInv'
BY DEF LedInv, Shaped, PerBrowser, Led

\* The pages are not one another.
LEMMA Pages ==
    /\ Login[1] = "login" /\ Code[1] = "code" /\ Enrol[1] = "enrol" /\ Root[1] = "root"
    /\ Account[1] = "account" /\ Nowhere[1] = "nowhere"
    /\ Root \notin {Login, Code} /\ Account \notin {Login, Code} /\ Enrol \notin {Login, Code}
    /\ \A x : /\ Invitation(x)[1] = "invite" /\ Invitation(x) \notin {Login, Code}
              /\ Workspace(x)[1] = "workspace" /\ Workspace(x)[2] = x
              /\ Workspace(x) \notin {Login, Code}
BY DEF Login, Code, Enrol, Root, Account, Nowhere, Invitation, Workspace

\* A browser that is answered.
LEMMA ServeLeads == ASSUME LedInv, NEW b \in Browsers, Serve(b) PROVE LedInv'
<1> DEFINE h == headed'[b]
<1> USE Pages
<1>0. Shaped BY DEF LedInv
<1>1. /\ headed' = [headed EXCEPT ![b] = h]
      /\ h \in {None, headed[b]}
      /\ h # None => Session(b) = None \/ role[h][Session(b)] # None
  BY <1>0 DEF Serve, Shaped, PerBrowser
<1>2. last' = [last EXCEPT ![b] = Remembered(b)] BY DEF Serve
<1>3. h # None => LedTo(h, at[b], next[b], going[b], last[b])
  BY <1>1 DEF LedInv, Led
<1>4. going[b] BY DEF Serve
<1> HIDE DEF h
<1>5. CASE Bounced(b)
  <2>1. Go(b, Login, at[b]) /\ Remembered(b) = last[b] BY <1>5 DEF Serve, Remembered
  <2>2. at[b] \notin {Login, Code} BY <1>5 DEF Bounced, Public
  <2>3. h # None => LedTo(h, Login, at[b], TRUE, last[b])
    BY <1>3, <2>2 DEF LedTo
  <2> QED BY <1>1, <1>2, <2>1, <2>3, Moved DEF Go
<1>6. CASE ~Bounced(b)
  <2>1. Served(b) BY <1>6 DEF Serve
  <2>2. Remembered(b) = IF at[b][1] = "workspace" THEN at[b][2] ELSE last[b]
    BY <1>6 DEF Remembered
  \* Where it is sent without a word, the cookie knows.
  <2>3. h # None /\ ~(at[b] \in {Login, Code}) => Remembered(b) = h
    BY <1>3, <2>2 DEF LedTo
  <2>4. ASSUME Stay(b) PROVE LedInv'
    <3>1. h # None => LedTo(h, at[b], next[b], FALSE, Remembered(b))
      BY <1>3, <2>2, <2>3 DEF LedTo
    <3>2. /\ at' = [at EXCEPT ![b] = at[b]] /\ next' = [next EXCEPT ![b] = next[b]]
          /\ going' = [going EXCEPT ![b] = FALSE]
      BY <1>0, <2>4 DEF Stay, Shaped, PerBrowser
    <3> QED BY <1>1, <1>2, <3>1, <3>2, Moved
  <2>5. ASSUME NEW page, page \in {Login, Enrol, Root}, Go(b, page, Nowhere),
               at[b] \notin {Login, Code}
        PROVE  LedInv'
    <3>1. h # None => LedTo(h, page, Nowhere, TRUE, Remembered(b))
      BY <1>3, <2>3, <2>5 DEF LedTo
    <3> QED BY <1>1, <1>2, <2>5, <3>1, Moved DEF Go
  <2>6. ASSUME RequireUser(b), at[b] \notin {Login, Code} PROVE LedInv'
    BY <2>5, <2>6 DEF RequireUser
  <2>7. CASE at[b] = Root
    <3>1. RootPage(b) BY <2>1, <2>7 DEF Served
    <3>2. ASSUME HasUser(b), MineBut(Session(b)) # {},
                 Go(b, Workspace(Signpost(Session(b), last[b])), Nowhere)
          PROVE  LedInv'
      <4> DEFINE w == Signpost(Session(b), last[b])
      <4>1. ASSUME h # None PROVE w = h
        <5>1. last[b] = h /\ h \in Workspaces BY <1>3, <2>7, <4>1 DEF LedTo
        <5>2. role[h][Session(b)] # None BY <1>1, <3>2, <4>1 DEF HasUser
        <5>3. h \in MineBut(Session(b)) BY <5>1, <5>2 DEF MineBut
        <5> QED BY <5>1, <5>3 DEF Signpost
      <4> HIDE DEF w
      <4>2. h # None => LedTo(h, Workspace(w), Nowhere, TRUE, Remembered(b))
        BY <1>3, <4>1 DEF LedTo
      <4>3. Go(b, Workspace(w), Nowhere) BY <3>2 DEF w
      <4> QED BY <1>1, <1>2, <4>2, <4>3, Moved DEF Go
    <3> QED BY <2>4, <2>6, <2>7, <3>1, <3>2 DEF RootPage
  <2>8. CASE at[b] = Account
    <3>1. AccountPage(b) BY <2>1, <2>8 DEF Served, Root, Account
    <3> QED BY <2>4, <2>6, <2>8, <3>1 DEF AccountPage
  <2>9. CASE at[b] = Enrol
    <3>1. EnrolPage(b) BY <2>1, <2>9 DEF Served, Root, Account, Enrol
    <3> QED BY <2>4, <2>5, <2>9, <3>1 DEF EnrolPage
  <2>10. CASE at[b][1] = "workspace"
    <3>0. at[b] \notin {Login, Code, Root, Account, Enrol} BY <2>10
    <3>1. WorkspacePage(b, at[b][2]) BY <2>1, <2>10, <3>0 DEF Served
    <3>2. ASSUME Missing(b) PROVE LedInv'
      <4>1. /\ at' = [at EXCEPT ![b] = <<"missing", at[b][2]>>]
            /\ next' = [next EXCEPT ![b] = next[b]] /\ going' = [going EXCEPT ![b] = FALSE]
        BY <1>0, <3>2 DEF Missing, Shaped, PerBrowser
      <4>2. /\ <<"missing", at[b][2]>> \notin {Login, Code}
            /\ <<"missing", at[b][2]>>[1] = "missing"
        BY DEF Login, Code
      <4>3. h # None => LedTo(h, <<"missing", at[b][2]>>, next[b], FALSE, Remembered(b))
        BY <1>3, <2>3, <3>0, <4>2 DEF LedTo
      <4> QED BY <1>1, <1>2, <4>1, <4>3, Moved
    <3> QED BY <2>4, <2>6, <3>0, <3>1, <3>2 DEF WorkspacePage
  <2>11. CASE at[b] \notin {Root, Account, Enrol} /\ at[b][1] # "workspace"
    <3>1. Stay(b) BY <2>1, <2>11 DEF Served
    <3> QED BY <2>4, <3>1
  <2> QED BY <2>7, <2>8, <2>9, <2>10, <2>11
<1> QED BY <1>5, <1>6

\* What a person does with a browser.
LEMMA PersonLeads ==
    ASSUME OwnerInv, LedInv, NEW b \in Browsers, Browse(b), ~Serve(b)
    PROVE  LedInv'
<1> DEFINE h == headed[b]
<1> USE Pages
<1>0. Shaped BY DEF LedInv
<1>1. h # None => LedTo(h, at[b], next[b], going[b], last[b]) BY DEF LedInv, Led
<1>2. headed = [headed EXCEPT ![b] = h] BY <1>0 DEF Shaped, PerBrowser
<1>3. ASSUME NEW page \in Page, Visit(b, page) PROVE LedInv'
  <2>1. /\ ~going[b] /\ page \in Asked \cup {Login, Enrol} /\ Go(b, page, Nowhere) /\ last' = last
        /\ headed' = [headed EXCEPT ![b] = IF page[1] = "workspace" THEN page[2] ELSE Abandoned(b)]
    BY <1>3 DEF Visit
  <2>2. CASE page[1] = "workspace"
    <3>1. PICK w \in Workspaces : page = Workspace(w)
      BY <2>1, <2>2 DEF Asked
    <3>2. LedTo(w, page, Nowhere, TRUE, last[b]) BY <3>1 DEF LedTo
    <3> QED BY <2>1, <2>2, <3>1, <3>2, Gone
  <2>3. CASE page[1] # "workspace"
    <3>1. Abandoned(b) # None => LedTo(Abandoned(b), page, Nowhere, TRUE, last[b])
      BY <1>1, <2>1, <2>3 DEF Abandoned, LedTo
    <3> QED BY <2>1, <2>3, <3>1, Gone
  <2> QED BY <2>2, <2>3
\* Signing in leads on to what the form was for.
<1>4. ASSUME at[b] \in {Login, Code}, last' = last, headed' = headed,
             Go(b, Onward(b), Nowhere)
      PROVE  LedInv'
  <2>1. h # None => LedTo(h, Onward(b), Nowhere, TRUE, last[b])
    BY <1>1, <1>4 DEF LedTo, Onward
  <2> QED BY <1>2, <1>4, <2>1, Gone
<1>5. ASSUME NEW p \in People, SignIn(b, p) PROVE LedInv'
  <2>1. CASE Go(b, Code, next[b])
    <3>1. at[b] = Login /\ last' = last /\ headed' = headed BY <1>5 DEF SignIn, On
    <3>2. h # None => LedTo(h, Code, next[b], TRUE, last[b]) BY <1>1, <3>1 DEF LedTo
    <3> QED BY <1>2, <2>1, <3>1, <3>2, Gone
  <2>2. CASE Go(b, Onward(b), Nowhere)
    BY <1>4, <1>5, <2>2 DEF SignIn, On
  <2> QED BY <1>5, <2>1, <2>2 DEF SignIn
<1>6. CASE Verify(b) BY <1>4, <1>6 DEF Verify, On
\* From a page at rest, the cookie knows.
<1>7. ASSUME NEW page, NEW then, ~going[b], at[b] \notin {Login, Code}, last' = last,
             headed' = headed, Go(b, page, then), page[1] # "workspace", then[1] # "workspace"
      PROVE  LedInv'
  <2>1. h # None => LedTo(h, page, then, TRUE, last[b]) BY <1>1, <1>7 DEF LedTo
  <2> QED BY <1>2, <1>7, <2>1, Gone
<1>8. CASE SignOut(b)
  <2>1. at[b] \notin {Login, Code} BY <1>8 DEF SignOut
  <2> QED BY <1>7, <1>8, <2>1 DEF SignOut
<1>9. CASE EnrolConfirm(b)
  <2>1. at[b] = Enrol /\ ~going[b] BY <1>9 DEF EnrolConfirm, On
  <2> QED BY <1>7, <1>9, <2>1 DEF EnrolConfirm
<1>10. ASSUME NEW i \in Invites, SignUpFromInvite(b, i) \/ InviteSignIn(b, i) PROVE LedInv'
  <2>1. at[b] = Invitation(i) /\ ~going[b] /\ last' = last /\ headed' = headed
    BY <1>10 DEF SignUpFromInvite, InviteSignIn, On
  <2>2. Go(b, Invitation(i), Nowhere) \/ Go(b, Login, Invitation(i))
    BY <1>10 DEF SignUpFromInvite, InviteSignIn
  <2> QED BY <1>7, <2>1, <2>2
<1>11. ASSUME NEW p \in People, ResetPassword(b, p) PROVE LedInv'
  <2>1. /\ ~going[b] /\ Go(b, Login, Nowhere) /\ last' = last
        /\ headed' = [headed EXCEPT ![b] = Abandoned(b)]
    BY <1>11 DEF ResetPassword
  <2>2. Abandoned(b) # None => LedTo(Abandoned(b), Login, Nowhere, TRUE, last[b])
    BY <1>1, <2>1 DEF Abandoned, LedTo
  <2> QED BY <2>1, <2>2, Gone
<1>12. ASSUME NEW i \in Invites, AcceptInvite(b, i) PROVE LedInv'
  <2> DEFINE w == invites[i].of
  <2>1. w \in Workspaces BY <1>12 DEF AcceptInvite, LiveInvite, OwnerInv, Granting
  <2>2. Go(b, Workspace(w), Nowhere) /\ last' = last /\ headed' = [headed EXCEPT ![b] = w]
    BY <1>12 DEF AcceptInvite
  <2> HIDE DEF w
  <2>3. LedTo(w, Workspace(w), Nowhere, TRUE, last[b]) BY <2>1 DEF LedTo
  <2> QED BY <2>2, <2>3, Gone
<1>13. ASSUME \/ SessionEnds(b) \/ OtherSessionsEnd(b) \/ EnrolStart(b)
              \/ \E i \in Invites : CancelInvite(b, i)
              \/ \E w \in Workspaces, p \in People :
                    \/ RemoveMember(b, w, p) \/ GenerateResetLink(b, w, p)
                    \/ \E r \in Roles : Invite(b, w, p, r) \/ ChangeRole(b, w, p, r)
       PROVE  LedInv'
  <2>1. UNCHANGED <<at, going, next, last, headed>>
    BY <1>13 DEF SessionEnds, OtherSessionsEnd, EnrolStart, CancelInvite, RemoveMember,
                 GenerateResetLink, Invite, ChangeRole, Membership, browser
  <2> QED BY <2>1, Unmoved
<1> QED
  BY <1>3, <1>5, <1>6, <1>8, <1>9, <1>10, <1>11, <1>12, <1>13, Zenon DEF Browse

LEMMA OperateLeads == ASSUME LedInv, Operate PROVE LedInv'
<1>1. UNCHANGED <<at, going, next, last, headed>>
  BY DEF Operate, CreateUser, SendReset, DeleteUserAsked, DeleteUserTyped, DeleteUserDeclined,
         DeleteWorkspace, CreateWorkspace, AddMember, SendInvite, InviteLapses, Membership, browser
<1> QED BY <1>1, Unmoved

\* Through the proxy, the login form, a code, enrolment, the signpost and an
\* invitation, sessions ending and roles changing meanwhile, for any number of
\* people, workspaces and browsers: a browser at rest on a workspace is on the
\* one it was last sent for, if that is one its user belongs to.
THEOREM Arrived == Spec => []Arrives
<1>1. Init => LedInv BY DEF Init, LedInv, Shaped, PerBrowser, Led
<1>2. OwnerInv /\ LedInv /\ [Next]_vars => LedInv'
  <2> SUFFICES ASSUME OwnerInv, LedInv, [Next]_vars PROVE LedInv' OBVIOUS
  <2>1. CASE Operate BY <2>1, OperateLeads
  <2>2. ASSUME NEW b \in Browsers, Browse(b) PROVE LedInv'
    BY <2>2, ServeLeads, PersonLeads
  <2>3. CASE UNCHANGED vars BY <2>3, Unmoved DEF vars, browser
  <2> QED BY <2>1, <2>2, <2>3 DEF Next
<1>3. LedInv => Arrives
  <2> SUFFICES ASSUME LedInv, NEW b \in Browsers, NEW w \in Workspaces,
                      On(b, Workspace(w)), headed[b] # None
               PROVE  headed[b] = w
    BY DEF Arrives
  <2> QED BY Pages DEF LedInv, Led, LedTo, On
<1> QED BY <1>1, <1>2, <1>3, OwnersHold, PTL DEF Spec

-----------------------------------------------------------------------------
(* Bank links.                                                               *)


\* A form past its read of an existing link names it.
Formed == \A f \in Forms : form[f].at \in {"found", "saved"} => form[f].link \in LinkIds
\* An upgrade runs with a key to seal to, over symmetric rows that are there.
Upgrading ==
  upgrade # Nothing =>
    /\ upgrade.keys.pub \in Keypairs
    /\ \A l \in LinkIds : upgrade.seen[l] # Nothing =>
         l \in Links /\ upgrade.seen[l].lock = "sym"
\* The rows that wait for an answer are stored ones.
Asking == \A l \in asked : l \in Links /\ link[l].source = "stored"

\* A worker's run is in the table, and running there.
Working == worker # Nothing => runs[worker.run] # Nothing /\ runs[worker.run].status = "running"

\* What an upgrade stands on: there is a key to seal to, and it has read every
\* row that is locked with the old one, but for those written too late.
OldLock(l) == link[l].blob # Nothing /\ link[l].blob.lock = "sym"
Sweeping ==
  /\ upgrade # Nothing \/ swept => host.pub # Nothing
  /\ upgrade # Nothing => \A l \in Links : OldLock(l) => l \in belated \/ upgrade.seen[l] # Nothing

TInv == LinkTypes /\ Formed /\ Upgrading /\ Working
IInv == TInv /\ Asking /\ LatestKept /\ PairHeard /\ Sweeping /\ KeyCanGo

LEMMA StoresType ==
  ASSUME LinkTypes, pasted < MaxPair, NEW l \in LinkIds, NEW lock \in Keypairs \cup {"sym"},
         NEW heard \in BOOLEAN, NEW late \in BOOLEAN,
         Stores(l, [pair |-> pasted + 1, lock |-> lock], heard, late)
  PROVE  /\ link' \in [LinkIds -> Rows \cup {Nothing}]
         /\ pasted' \in 0..MaxPair
         /\ latest' \in [LinkIds -> Pairs \cup {Nothing}]
         /\ asked' \subseteq LinkIds /\ overtaken' \subseteq LinkIds
         /\ spent' \subseteq LinkIds /\ belated' \subseteq LinkIds
         /\ Links' = Links \cup {l}
<1>1. pasted + 1 \in Pairs BY MaxPairIsNat DEF LinkTypes, Pairs
<1>2. [pair |-> pasted + 1, lock |-> lock] \in Blobs BY <1>1 DEF Blobs
<1> DEFINE row == [source |-> "stored", blob |-> [pair |-> pasted + 1, lock |-> lock]]
<1>3. row \in Rows /\ row # Nothing BY <1>2, NothingAssumption DEF Rows
<1>4. link' = [link EXCEPT ![l] = row] BY DEF Stores
<1> HIDE DEF row
<1>5. link' \in [LinkIds -> Rows \cup {Nothing}] BY <1>3, <1>4 DEF LinkTypes
<1>6. Links' = Links \cup {l} BY <1>3, <1>4 DEF LinkTypes, Links
<1>7. latest' \in [LinkIds -> Pairs \cup {Nothing}] BY <1>1 DEF Stores, LinkTypes
<1>8. pasted' \in 0..MaxPair BY MaxPairIsNat DEF Stores, LinkTypes
<1>9. /\ asked' \subseteq LinkIds /\ overtaken' \subseteq LinkIds
      /\ spent' \subseteq LinkIds /\ belated' \subseteq LinkIds
  BY DEF Stores, LinkTypes
<1> QED BY <1>5, <1>6, <1>7, <1>8, <1>9

\* What a command locks with is a key of its own.
LEMMA LockTyped ==
  ASSUME NEW k \in Keys PROVE CipherFields(k) \in Keypairs \cup {"sym"}
BY DEF Keys, CipherFields

\* A new run is one, and it comes where there was none.
LEMMA RunCreated ==
  ASSUME LinkTypes, NEW l \in LinkIds, CreatesRun(l)
  PROVE  \E r \in Runs : /\ runs[r] = Nothing
                         /\ runs' = [runs EXCEPT ![r] = [link |-> l, status |-> "queued", attempts |-> 0]]
                         /\ runs' \in [Runs -> SyncRuns \cup {Nothing}]
                         /\ runs'[r] # Nothing
<1> DEFINE row == [link |-> l, status |-> "queued", attempts |-> 0]
<1>1. row \in SyncRuns /\ row # Nothing BY MaxAttemptsIsPositive, NothingAssumption DEF SyncRuns
<1>2. PICK r \in Runs : runs[r] = Nothing /\ runs' = [runs EXCEPT ![r] = row] BY DEF CreatesRun
<1> HIDE DEF row
<1>3. runs' \in [Runs -> SyncRuns \cup {Nothing}] /\ runs'[r] = row BY <1>1, <1>2 DEF LinkTypes
<1> QED BY <1>1, <1>2, <1>3 DEF row

\* What a run that is taken back becomes.
LEMMA FinalisedTyped ==
  ASSUME LinkTypes, NEW r \in Runs, runs[r] # Nothing
  PROVE  /\ Finalised(r) \in SyncRuns \cup {Nothing}
         /\ [runs[r] EXCEPT !.status = "queued"] \in SyncRuns
         /\ [runs[r] EXCEPT !.status = "flipped"] \in SyncRuns
         /\ [runs[r] EXCEPT !.status = "queued"] # Nothing
         /\ [runs[r] EXCEPT !.status = "flipped"] # Nothing
<1>1. runs[r] \in SyncRuns BY DEF LinkTypes
<1>2. /\ [runs[r] EXCEPT !.status = "queued"] \in SyncRuns
      /\ [runs[r] EXCEPT !.status = "flipped"] \in SyncRuns
  BY <1>1 DEF SyncRuns
<1> QED BY <1>2, NothingAssumption DEF Finalised

-----------------------------------------------------------------------------
(* Types *)

\* A step that touches neither the rows nor the upgrade keeps what it relies on.
LEMMA UpgradingStays ==
  ASSUME Upgrading, UNCHANGED <<link, upgrade>> PROVE Upgrading'
BY DEF Upgrading, Links

\* Nor does one that only adds rows, or rewrites them.
LEMMA UpgradingGrows ==
  ASSUME Upgrading, UNCHANGED upgrade, Links \subseteq Links' PROVE Upgrading'
BY DEF Upgrading

\* Nor does one that leaves the queue alone disturb the worker's run.
LEMMA WorkingStays ==
  ASSUME Working, UNCHANGED <<runs, worker>> PROVE Working'
BY DEF Working

LEMMA TypeStep == ASSUME TInv, [LinkNext]_linkVars PROVE TInv'
<1> USE DEF TInv, pairVars, upgradeVars, runVars
<1>1. ASSUME NEW k \in Keypairs, SetPublicKey(k) \/ SetPrivateKey(k) PROVE TInv'
  BY <1>1, UpgradingStays, WorkingStays DEF SetPublicKey, SetPrivateKey, LinkTypes, Keys, Formed
<1>2. CASE RetireEncryptionKey
  BY <1>2, UpgradingStays, WorkingStays DEF RetireEncryptionKey, LinkTypes, Keys, Formed
<1>3. ASSUME NEW f \in Forms, OpenPage(f) PROVE TInv'
  <2>1. PICK l \in LinkIds \cup {Nothing} :
          form' = [form EXCEPT ![f] = [at |-> "page", link |-> l]]
    BY <1>3 DEF OpenPage, OffersConnect, OffersReplace, Links
  <2>2. UNCHANGED <<pairVars, host, token, upgradeVars, runVars>>
    BY <1>3 DEF OpenPage
  <2> QED BY <2>1, <2>2, UpgradingStays, WorkingStays DEF LinkTypes, Formed
<1>4. ASSUME NEW f \in Forms, FormReads(f) PROVE TInv'
  BY <1>4, UpgradingStays, WorkingStays DEF FormReads, LinkTypes, Formed, Idle
<1>5. ASSUME NEW f \in Forms, ConnectBank(f) PROVE TInv'
  <2>1. PICK l \in LinkIds \ Links :
          IF host.pub # Nothing
            THEN /\ Stores(l, Sealed(host, pasted + 1), TRUE, FALSE)
                 /\ form' = [form EXCEPT ![f] = [at |-> "saved", link |-> l]]
            ELSE /\ form' = [form EXCEPT ![f] = Idle]
                 /\ UNCHANGED pairVars
    BY <1>5 DEF ConnectBank
  <2>2. pasted < MaxPair /\ UNCHANGED <<host, token, upgradeVars, runVars>>
    BY <1>5 DEF ConnectBank
  <2>3. CASE host.pub # Nothing
    <3>1. host.pub \in Keypairs BY <2>3 DEF LinkTypes, Keys
    <3>2. /\ link' \in [LinkIds -> Rows \cup {Nothing}] /\ pasted' \in 0..MaxPair
          /\ latest' \in [LinkIds -> Pairs \cup {Nothing}]
          /\ asked' \subseteq LinkIds /\ overtaken' \subseteq LinkIds
          /\ spent' \subseteq LinkIds /\ belated' \subseteq LinkIds
          /\ Links' = Links \cup {l}
      BY <2>1, <2>2, <2>3, <3>1, StoresType DEF Sealed
    <3>3. form' = [form EXCEPT ![f] = [at |-> "saved", link |-> l]] BY <2>1, <2>3
    <3> QED BY <2>2, <3>2, <3>3, UpgradingGrows, WorkingStays DEF LinkTypes, Formed
  <2>4. CASE host.pub = Nothing
    BY <2>1, <2>2, <2>4, UpgradingStays, WorkingStays DEF LinkTypes, Formed, Idle
  <2> QED BY <2>3, <2>4
<1>6. ASSUME NEW f \in Forms, ReplaceBankTokens(f) PROVE TInv'
  <2>1. pasted < MaxPair /\ UNCHANGED <<host, token, upgradeVars, runVars>>
    BY <1>6 DEF ReplaceBankTokens
  <2>2. CASE host.pub # Nothing
    <3> DEFINE l == form[f].link
    <3>1. host.pub \in Keypairs BY <2>2 DEF LinkTypes, Keys
    <3>2. l \in LinkIds BY <1>6 DEF ReplaceBankTokens, Formed
    <3>3. Stores(l, Sealed(host, pasted + 1), TRUE, FALSE) /\ form' = [form EXCEPT ![f].at = "saved"]
      BY <1>6, <2>2 DEF ReplaceBankTokens
    <3> HIDE DEF l
    <3>4. /\ link' \in [LinkIds -> Rows \cup {Nothing}] /\ pasted' \in 0..MaxPair
          /\ latest' \in [LinkIds -> Pairs \cup {Nothing}]
          /\ asked' \subseteq LinkIds /\ overtaken' \subseteq LinkIds
          /\ spent' \subseteq LinkIds /\ belated' \subseteq LinkIds
          /\ Links' = Links \cup {l}
      BY <2>1, <3>1, <3>2, <3>3, StoresType DEF Sealed
    <3>5. form' \in [Forms -> [at : {"idle", "page", "counted", "found", "saved"},
                               link : LinkIds \cup {Nothing}]] /\ Formed'
      BY <3>2, <3>3 DEF LinkTypes, Formed, l
    <3> QED BY <2>1, <3>4, <3>5, UpgradingGrows, WorkingStays DEF LinkTypes
  <2>3. CASE host.pub = Nothing
    BY <1>6, <2>1, <2>3, UpgradingStays, WorkingStays DEF ReplaceBankTokens, LinkTypes, Formed, Idle
  <2> QED BY <2>2, <2>3
<1>7. ASSUME NEW f \in Forms, FormQueues(f) PROVE TInv'
  <2> DEFINE l == form[f].link
  <2>1. l \in LinkIds BY <1>7 DEF FormQueues, Formed
  <2>2. /\ form' = [form EXCEPT ![f] = Idle]
        /\ UNCHANGED <<link, pasted, latest, asked, overtaken, belated, host, token, upgradeVars, worker>>
    BY <1>7 DEF FormQueues
  <2>3. CASE Coalesces(l) # {}
    <3>1. runs' = runs /\ spent' \in {spent, spent \cup ({l} \cap asked)}
      BY <1>7, <2>3 DEF FormQueues
    <3> HIDE DEF l
    <3> QED BY <2>1, <2>2, <3>1, UpgradingStays, WorkingStays DEF LinkTypes, Formed, Idle
  <2>4. CASE Coalesces(l) = {}
    <3>1. CreatesRun(l) /\ spent' = spent \ {l} BY <1>7, <2>4 DEF FormQueues
    <3> HIDE DEF l
    <3>2. runs' \in [Runs -> SyncRuns \cup {Nothing}] /\ Working'
      BY <2>1, <2>2, <3>1, RunCreated DEF Working, LinkTypes, Jobs
    <3> QED BY <2>2, <3>1, <3>2, UpgradingStays DEF LinkTypes, Formed, Idle
  <2> QED BY <2>3, <2>4
<1>8. ASSUME NEW f \in Forms, FormEnds(f) PROVE TInv'
  BY <1>8, UpgradingStays, WorkingStays DEF FormEnds, LinkTypes, Formed, Idle
<1>9. CASE TokenAsks
  <2>1. PICK l \in LinkIds \cup {Nothing} : token' = [link |-> l, keys |-> [host EXCEPT !.priv = Nothing]]
    BY <1>9 DEF TokenAsks, Links
  <2>2. [host EXCEPT !.priv = Nothing] \in Keys BY DEF LinkTypes, Keys
  <2> QED BY <1>9, <2>1, <2>2, UpgradingStays, WorkingStays DEF TokenAsks, LinkTypes, Formed
<1>10. CASE TokenStores
  <2> DEFINE lock == CipherFields(token.keys)
             late == token.keys.pub = Nothing /\ host.pub # Nothing
  <2>1. PICK l \in IF token.link = Nothing THEN LinkIds \ Links ELSE {token.link} :
          Stores(l, [pair |-> pasted + 1, lock |-> lock], FALSE, late)
    BY <1>10 DEF TokenStores
  <2>2. pasted < MaxPair /\ token # Nothing /\ token' = Nothing
        /\ UNCHANGED <<host, form, upgradeVars, runVars>>
    BY <1>10 DEF TokenStores
  <2>3. l \in LinkIds /\ lock \in Keypairs \cup {"sym"} /\ late \in BOOLEAN
    BY <2>1, <2>2, LockTyped DEF LinkTypes
  <2> HIDE DEF lock, late
  <2>4. /\ link' \in [LinkIds -> Rows \cup {Nothing}] /\ pasted' \in 0..MaxPair
        /\ latest' \in [LinkIds -> Pairs \cup {Nothing}]
        /\ asked' \subseteq LinkIds /\ overtaken' \subseteq LinkIds
        /\ spent' \subseteq LinkIds /\ belated' \subseteq LinkIds
        /\ Links' = Links \cup {l}
    BY <2>1, <2>2, <2>3, StoresType
  <2> QED BY <2>2, <2>4, UpgradingGrows, WorkingStays DEF LinkTypes, Formed
<1>11. CASE TokenEnds
  BY <1>11, UpgradingStays, WorkingStays DEF TokenEnds, LinkTypes, Formed
<1>12. ASSUME NEW l \in LinkIds, RevertToEnv(l) PROVE TInv'
  <2> DEFINE row == [source |-> "env", blob |-> Nothing]
  <2>1. row \in Rows /\ row # Nothing BY NothingAssumption DEF Rows
  <2>2. /\ link' = [link EXCEPT ![l] = row] /\ latest' = [latest EXCEPT ![l] = Nothing]
        /\ asked' = asked \ {l} /\ overtaken' = overtaken \ {l} /\ l \in Links
        /\ spent' = spent \ {l} /\ belated' = belated \ {l}
        /\ UNCHANGED <<pasted, host, form, token, upgradeVars, runVars>>
    BY <1>12 DEF RevertToEnv
  <2> HIDE DEF row
  <2>3. Links' = Links BY <2>1, <2>2 DEF LinkTypes, Links
  <2> QED BY <2>1, <2>2, <2>3, UpgradingGrows, WorkingStays DEF LinkTypes, Formed
<1>13. ASSUME NEW l \in LinkIds, UpgradeRow(l) PROVE TInv'
  <2> DEFINE blob == Sealed(upgrade.keys, upgrade.seen[l].pair)
             row == [link[l] EXCEPT !.blob = blob]
  <2>1. /\ upgrade \in [seen : [LinkIds -> Blobs \cup {Nothing}], keys : Keys]
        /\ upgrade.seen[l] \in Blobs /\ upgrade.keys.pub \in Keypairs /\ l \in Links
    BY <1>13 DEF UpgradeRow, Upgrading, LinkTypes
  <2>2. UNCHANGED <<pasted, latest, asked, spent, belated, swept, host, form, token, runVars>>
    BY <1>13 DEF UpgradeRow
  <2>3. CASE UNCHANGED <<link, overtaken>> /\ upgrade' = Nothing
    BY <2>2, <2>3, WorkingStays DEF LinkTypes, Formed, Upgrading
  <2>4. CASE /\ link' = [link EXCEPT ![l].blob = blob] /\ overtaken' \subseteq LinkIds
             /\ upgrade' = [upgrade EXCEPT !.seen[l] = Nothing]
    <3>1. blob \in Blobs BY <2>1 DEF Blobs, Sealed
    <3>2. link[l] \in Rows BY <2>1 DEF LinkTypes, Links
    <3>3. row \in Rows /\ row # Nothing /\ link' = [link EXCEPT ![l] = row]
      <4> HIDE DEF blob
      <4> QED BY <2>4, <3>1, <3>2, NothingAssumption DEF Rows
    <3> HIDE DEF row
    <3>4. link' \in [LinkIds -> Rows \cup {Nothing}] /\ Links' = Links
      BY <2>1, <3>3 DEF LinkTypes, Links
    <3>5. /\ upgrade' \in [seen : [LinkIds -> Blobs \cup {Nothing}], keys : Keys]
          /\ upgrade'.keys = upgrade.keys
          /\ \A m \in LinkIds : upgrade'.seen[m] \in {upgrade.seen[m], Nothing}
      BY <2>1, <2>4
    <3>6. Upgrading' BY <2>1, <3>4, <3>5, <1>13 DEF Upgrading, UpgradeRow
    <3> QED BY <2>2, <2>4, <3>4, <3>5, <3>6, WorkingStays DEF LinkTypes, Formed
  <2>5. overtaken \cup {l} \subseteq LinkIds BY DEF LinkTypes
  <2> QED BY <1>13, <2>3, <2>4, <2>5 DEF UpgradeRow, LinkTypes
<1>14. ASSUME NEW r \in Runs, Claim(r) PROVE TInv'
  <2> DEFINE n == IF Spent(r) THEN runs[r].attempts ELSE runs[r].attempts + 1
             row == [runs[r] EXCEPT !.status = "running", !.attempts = n]
  <2>1. runs[r] \in SyncRuns BY <1>14 DEF Claim, LinkTypes
  <2>2. n \in 0..MaxAttempts BY <2>1, MaxAttemptsIsPositive DEF SyncRuns, Spent
  <2> HIDE DEF n
  <2>3. row \in SyncRuns /\ row.status = "running" BY <2>1, <2>2 DEF SyncRuns
  <2>4. row # Nothing BY <2>3, NothingAssumption
  <2>5. runs' = [runs EXCEPT ![r] = row] BY <1>14 DEF Claim, n
  <2>6. /\ worker' = [run |-> r, at |-> "claimed"] /\ worker' \in Jobs
        /\ UNCHANGED <<pairVars, host, form, token, upgradeVars>>
    BY <1>14 DEF Claim, Jobs
  <2> HIDE DEF row
  <2>7. runs' \in [Runs -> SyncRuns \cup {Nothing}] /\ runs'[r] = row
    BY <2>3, <2>5 DEF LinkTypes
  <2>8. Working' BY <2>3, <2>4, <2>6, <2>7 DEF Working
  <2> QED BY <2>6, <2>7, <2>8, UpgradingStays DEF LinkTypes, Formed
<1>15. CASE UpgradeReads
  <2>1. /\ upgrade'.keys = host /\ host \in Keys /\ host.pub \in Keypairs
        /\ UNCHANGED <<pairVars, swept, host, form, token, runVars>>
    BY <1>15 DEF UpgradeReads, LinkTypes, Keys
  <2>2. upgrade' = [keys |-> host, seen |-> upgrade'.seen]
    BY <1>15 DEF UpgradeReads
  <2>3. upgrade'.seen = [l \in LinkIds |-> IF l \in Links /\ Pending(link[l].blob)
                                             THEN link[l].blob ELSE Nothing]
    BY <1>15 DEF UpgradeReads
  <2>4. ASSUME NEW l \in LinkIds, l \in Links
        PROVE  link[l].blob \in Blobs \cup {Nothing}
    BY <2>4 DEF LinkTypes, Links, Rows
  <2>5. upgrade'.seen \in [LinkIds -> Blobs \cup {Nothing}] BY <2>3, <2>4
  <2>6. Upgrading' BY <2>1, <2>3 DEF Upgrading, Pending, Links
  <2> QED BY <2>1, <2>2, <2>5, <2>6, WorkingStays DEF LinkTypes, Formed
<1>16. CASE UpgradeEnds
  <2>1. swept' \in BOOLEAN /\ upgrade' = Nothing /\ UNCHANGED <<pairVars, host, form, token, runVars>>
    BY <1>16 DEF UpgradeEnds, LinkTypes
  <2> QED BY <2>1, WorkingStays DEF LinkTypes, Formed, Upgrading
<1>17. ASSUME NEW l \in LinkIds, QueueSync(l) PROVE TInv'
  <2>1. CreatesRun(l) /\ UNCHANGED <<pairVars, host, form, token, upgradeVars, worker>>
    BY <1>17 DEF QueueSync
  <2>2. runs' \in [Runs -> SyncRuns \cup {Nothing}] /\ Working'
    BY <2>1, RunCreated DEF Working, LinkTypes, Jobs
  <2> QED BY <2>1, <2>2, UpgradingStays DEF LinkTypes, Formed
<1>18. CASE OpenPair
  <2> DEFINE r == worker.run
  <2>1. worker \in Jobs /\ r \in Runs /\ runs[r] # Nothing /\ runs[r].status = "running"
    BY <1>18 DEF OpenPair, LinkTypes, Jobs, Working
  <2>2. /\ [worker EXCEPT !.at = "using"] \in Jobs /\ [worker EXCEPT !.at = "using"].run = r
    BY <2>1 DEF Jobs
  <2>3. /\ asked' \subseteq asked /\ spent' = spent \cap asked'
        /\ \/ worker' = Nothing /\ runs' = [runs EXCEPT ![r] = Finalised(r)]
           \/ worker' = [worker EXCEPT !.at = "using"] /\ runs' = runs
        /\ UNCHANGED <<link, pasted, latest, overtaken, belated, host, form, token, upgradeVars>>
    BY <1>18, Zenon DEF OpenPair
  <2>4. runs' \in [Runs -> SyncRuns \cup {Nothing}] /\ worker' \in Jobs \cup {Nothing}
    <3>1. Finalised(r) \in SyncRuns \cup {Nothing} BY <2>1, FinalisedTyped
    <3> QED BY <2>2, <2>3, <3>1 DEF LinkTypes
  <2>5. Working' BY <2>1, <2>2, <2>3 DEF Working
  <2> QED BY <2>3, <2>4, <2>5, UpgradingStays DEF LinkTypes, Formed
<1>19. CASE RunEnds
  <2>1. worker.run \in Runs /\ runs[worker.run] # Nothing
    BY <1>19 DEF RunEnds, LinkTypes, Jobs, Working
  <2>2. PICK row \in {Nothing, Finalised(worker.run)} : runs' = [runs EXCEPT ![worker.run] = row]
    BY <1>19 DEF RunEnds
  <2>3. row \in SyncRuns \cup {Nothing} BY <2>1, <2>2, FinalisedTyped
  <2>4. worker' = Nothing /\ UNCHANGED <<pairVars, host, form, token, upgradeVars>>
    BY <1>19 DEF RunEnds
  <2> QED BY <2>2, <2>3, <2>4, UpgradingStays DEF LinkTypes, Formed, Working
<1>20. CASE WorkerDies
  <2>1. runs[worker.run].link \in LinkIds
    BY <1>20 DEF WorkerDies, LinkTypes, Jobs, Working, SyncRuns
  <2>2. /\ spent' \in {spent, spent \cup ({runs[worker.run].link} \cap asked)} /\ worker' = Nothing
        /\ UNCHANGED <<runs, link, pasted, latest, asked, overtaken, belated, host, form, token, upgradeVars>>
    BY <1>20 DEF WorkerDies
  <2> QED BY <2>1, <2>2, UpgradingStays DEF LinkTypes, Formed, Working
<1>21. ASSUME NEW r \in Runs, ReapFlips(r) PROVE TInv'
  <2>1. runs[r] # Nothing /\ worker' = Nothing /\ runs' = [runs EXCEPT ![r] = [runs[r] EXCEPT !.status = "flipped"]]
        /\ UNCHANGED <<pairVars, host, form, token, upgradeVars>>
    BY <1>21 DEF ReapFlips
  <2>2. [runs[r] EXCEPT !.status = "flipped"] \in SyncRuns BY <2>1, FinalisedTyped
  <2> QED BY <2>1, <2>2, UpgradingStays DEF LinkTypes, Formed, Working
<1>22. ASSUME NEW r \in Runs, ReapDecides(r) PROVE TInv'
  <2>1. /\ runs[r] # Nothing /\ runs[r].status = "flipped"
        /\ UNCHANGED <<pairVars, host, form, token, upgradeVars, worker>>
    BY <1>22 DEF ReapDecides
  <2>2. PICK row \in SyncRuns \cup {Nothing} : runs' = [runs EXCEPT ![r] = row]
    BY <1>22, <2>1, FinalisedTyped DEF ReapDecides
  <2>3. runs' \in [Runs -> SyncRuns \cup {Nothing}] /\ \A q \in Runs \ {r} : runs'[q] = runs[q]
    BY <2>2 DEF LinkTypes
  <2>4. Working' BY <2>1, <2>3 DEF Working, LinkTypes, Jobs
  <2> QED BY <2>1, <2>3, <2>4, UpgradingStays DEF LinkTypes, Formed
<1>23. CASE UNCHANGED linkVars
  BY <1>23, UpgradingStays, WorkingStays DEF linkVars, LinkTypes, Formed
<1> QED BY <1>1, <1>2, <1>3, <1>4, <1>5, <1>6, <1>7, <1>8, <1>9, <1>10, <1>11, <1>12, <1>13,
           <1>14, <1>15, <1>16, <1>17, <1>18, <1>19, <1>20, <1>21, <1>22, <1>23 DEF LinkNext

-----------------------------------------------------------------------------
(* The pair stored last *)

\* A pair that is stored is the one its row holds, and its row is a stored one.
LEMMA StoresKept ==
  ASSUME LinkTypes, LatestKept, Asking, NEW l \in LinkIds, NEW lock \in Keypairs \cup {"sym"},
         pasted < MaxPair, NEW heard \in BOOLEAN, NEW late \in BOOLEAN,
         Stores(l, [pair |-> pasted + 1, lock |-> lock], heard, late)
  PROVE  LatestKept' /\ Asking'
<1> DEFINE blob == [pair |-> pasted + 1, lock |-> lock]
           row == [source |-> "stored", blob |-> blob]
<1>1. blob \in Blobs /\ blob.pair = pasted + 1 BY MaxPairIsNat DEF LinkTypes, Blobs, Pairs
<1>2. row.source = "stored" /\ row.blob = blob /\ blob # Nothing BY <1>1, NothingAssumption
<1>3. /\ link' = [link EXCEPT ![l] = row] /\ latest' = [latest EXCEPT ![l] = blob.pair]
      /\ asked' \subseteq asked \cup {l} /\ overtaken' = overtaken \ {l}
      /\ Links' = Links \cup {l}
  BY StoresType DEF Stores
<1> HIDE DEF blob, row
<1>4. link'[l] = row /\ latest'[l] = blob.pair BY <1>3 DEF LinkTypes
<1>5. ASSUME NEW m \in LinkIds \ {l}
      PROVE  link'[m] = link[m] /\ latest'[m] = latest[m] /\ (m \in Links' <=> m \in Links)
             /\ (m \in overtaken' <=> m \in overtaken)
  BY <1>3 DEF LinkTypes
<1>6. LatestKept'
  BY <1>2, <1>3, <1>4, <1>5 DEF LatestKept, Links
<1>7. Asking'
  BY <1>2, <1>3, <1>4, <1>5 DEF Asking, Links
<1> QED BY <1>6, <1>7

\* Nothing of it changes while the rows and their history do not.
LEMMA KeptStays ==
  ASSUME LatestKept, Asking, UNCHANGED <<link, latest, overtaken>>, asked' \subseteq asked
  PROVE  LatestKept' /\ Asking'
BY DEF LatestKept, Asking, Links

LEMMA KeptStep ==
  ASSUME TInv, LatestKept, Asking, [LinkNext]_linkVars PROVE LatestKept' /\ Asking'
<1> USE DEF TInv, pairVars, upgradeVars, runVars
<1>1. ASSUME NEW f \in Forms, ConnectBank(f) PROVE LatestKept' /\ Asking'
  <2>1. CASE host.pub # Nothing
    <3>1. host.pub \in Keypairs BY <2>1 DEF LinkTypes, Keys
    <3>2. PICK l \in LinkIds : Stores(l, [pair |-> pasted + 1, lock |-> host.pub], TRUE, FALSE)
      BY <1>1, <2>1 DEF ConnectBank, Sealed
    <3> QED BY <1>1, <3>1, <3>2, StoresKept DEF ConnectBank
  <2>2. CASE host.pub = Nothing BY <1>1, <2>2, KeptStays DEF ConnectBank
  <2> QED BY <2>1, <2>2
<1>2. ASSUME NEW f \in Forms, ReplaceBankTokens(f) PROVE LatestKept' /\ Asking'
  <2>1. CASE host.pub # Nothing
    <3>1. host.pub \in Keypairs BY <2>1 DEF LinkTypes, Keys
    <3>2. PICK l \in LinkIds : Stores(l, [pair |-> pasted + 1, lock |-> host.pub], TRUE, FALSE)
      BY <1>2, <2>1 DEF ReplaceBankTokens, Sealed, Formed
    <3> QED BY <1>2, <3>1, <3>2, StoresKept DEF ReplaceBankTokens
  <2>2. CASE host.pub = Nothing BY <1>2, <2>2, KeptStays DEF ReplaceBankTokens
  <2> QED BY <2>1, <2>2
<1>3. CASE TokenStores
  <2> DEFINE lock == CipherFields(token.keys)
             late == token.keys.pub = Nothing /\ host.pub # Nothing
  <2>1. PICK l \in LinkIds : Stores(l, [pair |-> pasted + 1, lock |-> lock], FALSE, late)
    BY <1>3 DEF TokenStores, LinkTypes
  <2>2. lock \in Keypairs \cup {"sym"} /\ late \in BOOLEAN
    BY <1>3, LockTyped DEF TokenStores, LinkTypes
  <2> HIDE DEF lock, late
  <2> QED BY <1>3, <2>1, <2>2, StoresKept DEF TokenStores
<1>4. ASSUME NEW l \in LinkIds, RevertToEnv(l) PROVE LatestKept' /\ Asking'
  <2> DEFINE row == [source |-> "env", blob |-> Nothing]
  <2>1. row.source = "env" OBVIOUS
  <2>2. /\ link' = [link EXCEPT ![l] = row] /\ latest' = [latest EXCEPT ![l] = Nothing]
        /\ asked' = asked \ {l} /\ overtaken' = overtaken \ {l} /\ l \in Links
    BY <1>4 DEF RevertToEnv
  <2> HIDE DEF row
  <2>3. link'[l].source = "env" BY <2>1, <2>2 DEF LinkTypes
  <2>4. ASSUME NEW m \in LinkIds \ {l} PROVE link'[m] = link[m] /\ latest'[m] = latest[m]
    BY <2>2 DEF LinkTypes
  <2> QED BY <2>2, <2>3, <2>4 DEF LatestKept, Asking, Links
<1>5. ASSUME NEW l \in LinkIds, UpgradeRow(l) PROVE LatestKept' /\ Asking'
  <2> DEFINE blob == Sealed(upgrade.keys, upgrade.seen[l].pair)
  <2>1. CASE UNCHANGED <<link, overtaken>>
    BY <1>5, <2>1, KeptStays DEF UpgradeRow
  <2>2. CASE /\ link' = [link EXCEPT ![l].blob = blob]
             /\ overtaken' = IF latest[l] # blob.pair /\ upgrade.seen[l].lock = "sym"
                             THEN overtaken \cup {l} ELSE overtaken
    <3>1. /\ upgrade.seen[l] \in Blobs /\ upgrade.keys.pub \in Keypairs
          /\ l \in Links /\ upgrade.seen[l].lock = "sym"
      BY <1>5 DEF UpgradeRow, Upgrading, LinkTypes
    <3>2. blob \in Blobs /\ blob # Nothing BY <3>1, NothingAssumption DEF Blobs, Sealed
    <3>3. link[l] \in Rows BY <3>1 DEF LinkTypes, Links
    <3>4. /\ overtaken' = IF latest[l] # blob.pair THEN overtaken \cup {l} ELSE overtaken
          /\ UNCHANGED <<latest, asked>>
      BY <1>5, <2>2, <3>1, Zenon DEF UpgradeRow
    <3> HIDE DEF blob
    <3>5. link'[l] = [link[l] EXCEPT !.blob = blob] BY <2>2, <3>1 DEF LinkTypes, Links
    <3>6. link'[l].source = link[l].source /\ link'[l].blob = blob /\ link'[l] # Nothing
      BY <3>2, <3>3, <3>5, NothingAssumption DEF Rows
    <3>7. ASSUME NEW m \in LinkIds \ {l} PROVE link'[m] = link[m]
      BY <2>2 DEF LinkTypes
    <3> QED BY <3>1, <3>2, <3>4, <3>6, <3>7 DEF LatestKept, Asking, Links
  <2> QED BY <1>5, <2>1, <2>2 DEF UpgradeRow
<1>6. CASE OpenPair
  <2>1. asked' \subseteq asked BY <1>6, Zenon DEF OpenPair
  <2> QED BY <1>6, <2>1, KeptStays DEF OpenPair
<1>7. ASSUME NEW f \in Forms,
             OpenPage(f) \/ FormReads(f) \/ FormQueues(f) \/ FormEnds(f)
      PROVE  LatestKept' /\ Asking'
  BY <1>7, KeptStays DEF OpenPage, FormReads, FormQueues, FormEnds
<1>8. ASSUME \/ \E k \in Keypairs : SetPublicKey(k) \/ SetPrivateKey(k)
             \/ RetireEncryptionKey \/ TokenAsks \/ TokenEnds \/ UpgradeReads \/ UpgradeEnds
             \/ \E r \in Runs : Claim(r) \/ ReapFlips(r) \/ ReapDecides(r)
             \/ \E l \in LinkIds : QueueSync(l)
             \/ RunEnds \/ WorkerDies \/ UNCHANGED linkVars
      PROVE  LatestKept' /\ Asking'
  BY <1>8, KeptStays DEF SetPublicKey, SetPrivateKey, RetireEncryptionKey, TokenAsks, TokenEnds,
     UpgradeReads, UpgradeEnds, Claim, ReapFlips, ReapDecides, QueueSync, RunEnds, WorkerDies, linkVars
<1> QED BY <1>1, <1>2, <1>3, <1>4, <1>5, <1>6, <1>7, <1>8 DEF LinkNext

-----------------------------------------------------------------------------
(* A pair that was pasted is heard *)

ComesBy(r, l) ==
  /\ runs[r] # Nothing /\ runs[r].link = l
  /\ runs[r].status = "queued" \/ (~Spent(r) /\ (worker # Nothing => worker.run # r))
Claimed(l) == worker # Nothing /\ worker.at = "claimed" /\ runs[worker.run].link = l

\* What holds a pair that waits for its answer: a run, the worker or a form, or
\* else it was written over or its run was lost.
Awaited(l) ==
  \/ l \in overtaken \cup spent
  \/ \E r \in Runs : ComesBy(r, l)
  \/ Claimed(l)
  \/ \E f \in Forms : form[f] = [at |-> "saved", link |-> l]

\* A row the step leaves alone still comes if it came, when the worker has not
\* turned to it.
LEMMA StillComes ==
  ASSUME NEW q \in Runs, NEW m, ComesBy(q, m), runs'[q] = runs[q],
         worker' # Nothing => worker'.run # q \/ (worker # Nothing /\ worker'.run = worker.run)
  PROVE  ComesBy(q, m)'
BY DEF ComesBy, Spent

\* A run that is created takes nothing away.
LEMMA CreatedComes ==
  ASSUME TInv, NEW l \in LinkIds, CreatesRun(l), UNCHANGED worker
  PROVE  /\ \E r \in Runs : ComesBy(r, l)'
         /\ \A m : Claimed(m) => Claimed(m)'
         /\ \A m : \A q \in Runs : ComesBy(q, m) => ComesBy(q, m)'
<1>1. PICK r \in Runs : /\ runs[r] = Nothing
                        /\ runs' = [runs EXCEPT ![r] = [link |-> l, status |-> "queued", attempts |-> 0]]
                        /\ runs'[r] # Nothing
  BY RunCreated DEF TInv
<1>2. runs'[r] = [link |-> l, status |-> "queued", attempts |-> 0] /\ \A q \in Runs \ {r} : runs'[q] = runs[q]
  BY <1>1 DEF TInv, LinkTypes
<1>3. ComesBy(r, l)' BY <1>1, <1>2 DEF ComesBy
<1>4. worker # Nothing => worker.run \in Runs \ {r} BY <1>1 DEF TInv, Working, LinkTypes, Jobs
<1>5. \A m : Claimed(m) => Claimed(m)' BY <1>2, <1>4 DEF Claimed
<1>6. ASSUME NEW m, NEW q \in Runs, ComesBy(q, m) PROVE ComesBy(q, m)'
  <2>1. q # r BY <1>1, <1>6 DEF ComesBy
  <2> QED BY <1>2, <1>6, <2>1, StillComes
<1> QED BY <1>3, <1>5, <1>6

LEMMA HeardStep == ASSUME TInv, Asking, LatestKept, PairHeard, [LinkNext]_linkVars PROVE PairHeard'
<1> USE DEF TInv, pairVars, upgradeVars, runVars
<1> SUFFICES ASSUME NEW m \in asked' PROVE Awaited(m)'
  BY Zenon DEF PairHeard, Awaited, Coming, ComesBy, Claimed
<1>0. m \in asked => Awaited(m) BY Zenon DEF PairHeard, Awaited, Coming, ComesBy, Claimed
<1>1. ASSUME UNCHANGED <<runs, worker, form>>, asked' \subseteq asked,
             m \in overtaken \cup spent => m \in overtaken' \cup spent'
      PROVE  Awaited(m)'
  <2>1. \A r \in Runs : ComesBy(r, m) => ComesBy(r, m)' BY <1>1, StillComes
  <2> QED BY <1>0, <1>1, <2>1 DEF Awaited, Claimed
<1>2. ASSUME NEW f \in Forms, form[f].at # "saved", \A g \in Forms \ {f} : form'[g] = form[g],
             UNCHANGED <<runs, worker, overtaken, spent>>, asked' \subseteq asked
      PROVE  Awaited(m)'
  <2>1. \A r \in Runs : ComesBy(r, m) => ComesBy(r, m)' BY <1>2, StillComes
  <2> QED BY <1>0, <1>2, <2>1 DEF Awaited, Claimed
<1>3. ASSUME NEW f \in Forms, NEW l \in LinkIds, NEW p, UNCHANGED <<runs, worker>>,
             Stores(l, p, TRUE, FALSE), form[f].at # "saved",
             \A g \in Forms \ {f} : form'[g] = form[g], form'[f] = [at |-> "saved", link |-> l]
      PROVE  Awaited(m)'
  <2>1. asked' = asked \cup {l} /\ overtaken' = overtaken \ {l} /\ spent' = spent \ {l}
    BY <1>3, Zenon DEF Stores
  <2>2. CASE m = l BY <1>3, <2>2 DEF Awaited
  <2>3. CASE m # l
    <3>1. \A r \in Runs : ComesBy(r, m) => ComesBy(r, m)' BY <1>3, StillComes
    <3> QED BY <1>0, <1>3, <2>1, <2>3, <3>1 DEF Awaited, Claimed
  <2> QED BY <2>2, <2>3
<1>4. ASSUME NEW f \in Forms, OpenPage(f) \/ FormReads(f) PROVE Awaited(m)'
  <2>1. /\ form[f].at # "saved" /\ \A g \in Forms \ {f} : form'[g] = form[g]
        /\ UNCHANGED <<runs, worker, overtaken, spent, asked>>
    BY <1>4 DEF OpenPage, OffersConnect, OffersReplace, FormReads, Idle, LinkTypes
  <2> QED BY <1>2, <2>1
<1>5. ASSUME NEW f \in Forms, ConnectBank(f) PROVE Awaited(m)'
  <2>1. /\ form[f].at # "saved" /\ UNCHANGED <<runs, worker>>
    BY <1>5 DEF ConnectBank
  <2>2. CASE form' = [form EXCEPT ![f] = Idle] /\ UNCHANGED pairVars
    BY <1>2, <2>1, <2>2 DEF LinkTypes
  <2>3. ASSUME NEW l \in LinkIds, Stores(l, Sealed(host, pasted + 1), TRUE, FALSE),
               form' = [form EXCEPT ![f] = [at |-> "saved", link |-> l]]
        PROVE  Awaited(m)'
    <3>1. form'[f] = [at |-> "saved", link |-> l] /\ \A g \in Forms \ {f} : form'[g] = form[g]
      BY <2>3 DEF LinkTypes
    <3> QED BY <1>3, <2>1, <2>3, <3>1
  <2> QED BY <1>5, <2>2, <2>3 DEF ConnectBank
<1>6. ASSUME NEW f \in Forms, ReplaceBankTokens(f) PROVE Awaited(m)'
  <2>1. /\ form[f].at = "found" /\ form[f].link \in LinkIds /\ UNCHANGED <<runs, worker>>
    BY <1>6 DEF ReplaceBankTokens, Formed
  <2>2. CASE form' = [form EXCEPT ![f] = Idle] /\ UNCHANGED pairVars
    BY <1>2, <2>1, <2>2 DEF LinkTypes
  <2>3. CASE /\ Stores(form[f].link, Sealed(host, pasted + 1), TRUE, FALSE)
             /\ form' = [form EXCEPT ![f].at = "saved"]
    <3>1. /\ form'[f] = [at |-> "saved", link |-> form[f].link]
          /\ \A g \in Forms \ {f} : form'[g] = form[g]
      BY <2>3 DEF LinkTypes
    <3> QED BY <1>3, <2>1, <2>3, <3>1
  <2> QED BY <1>6, <2>2, <2>3 DEF ReplaceBankTokens
<1>7. ASSUME NEW f \in Forms, FormQueues(f) PROVE Awaited(m)'
  <2>0. PICK l \in LinkIds : l = form[f].link
    BY <1>7 DEF FormQueues, LinkTypes, Formed
  <2>1. /\ \A g \in Forms \ {f} : form'[g] = form[g]
        /\ UNCHANGED <<worker, overtaken, asked>>
    BY <1>7 DEF FormQueues, LinkTypes
  <2>2. CASE Coalesces(l) # {}
    <3>1. runs' = runs /\ spent' = IF Doomed(l) THEN spent \cup ({l} \cap asked) ELSE spent
      BY <1>7, <2>0, <2>2 DEF FormQueues
    <3>2. \A r \in Runs : ComesBy(r, m) => ComesBy(r, m)' BY <2>1, <3>1, StillComes
    <3>3. CASE m # l
      BY <1>0, <2>0, <2>1, <3>1, <3>2, <3>3 DEF Awaited, Claimed
    <3>4. CASE m = l /\ Doomed(l)
      BY <2>1, <3>1, <3>4 DEF Awaited
    <3>5. CASE m = l /\ ~Doomed(l)
      <4>1. PICK r \in Coalesces(l) : ~(runs[r].status = "flipped" /\ Spent(r))
        BY <3>5 DEF Doomed
      <4>2. ComesBy(r, m)
        BY <3>5, <4>1 DEF Coalesces, ComesBy, Working
      <4> QED BY <3>2, <4>1, <4>2 DEF Awaited, Coalesces
    <3> QED BY <3>3, <3>4, <3>5
  <2>3. CASE Coalesces(l) = {}
    <3>1. CreatesRun(l) /\ spent' = spent \ {l} BY <1>7, <2>0, <2>3 DEF FormQueues
    <3>2. /\ \E r \in Runs : ComesBy(r, l)'
          /\ Claimed(m) => Claimed(m)'
          /\ \A q \in Runs : ComesBy(q, m) => ComesBy(q, m)'
      BY <2>1, <3>1, CreatedComes
    <3>3. CASE m = l
      <4>1. \E r \in Runs : ComesBy(r, m)' BY <3>2, <3>3
      <4> QED BY <4>1 DEF Awaited
    <3>4. CASE m # l
      BY <1>0, <2>0, <2>1, <3>1, <3>2, <3>4 DEF Awaited
    <3> QED BY <3>3, <3>4
  <2> QED BY <2>2, <2>3
<1>8. ASSUME NEW f \in Forms, FormEnds(f) PROVE Awaited(m)'
  <2>1. /\ \A g \in Forms \ {f} : form'[g] = form[g]
        /\ UNCHANGED <<runs, worker, overtaken>> /\ spent' = spent \cap asked'
    BY <1>8 DEF FormEnds, LinkTypes
  <2>2. form[f].at = "saved" /\ form[f].link = m => \E g \in Forms \ {f} : form[g] = form[f]
    BY <1>8 DEF FormEnds
  <2>3. m \in asked BY <1>8 DEF FormEnds
  <2>4. \A r \in Runs : ComesBy(r, m) => ComesBy(r, m)' BY <2>1, StillComes
  <2> QED BY <1>0, <2>1, <2>2, <2>3, <2>4 DEF Awaited, Claimed
<1>9. CASE TokenStores
  <2>1. PICK l \in LinkIds : \E p : \E late \in BOOLEAN : Stores(l, p, FALSE, late)
    <3>1. \E l \in LinkIds : Stores(l, [pair |-> pasted + 1, lock |-> CipherFields(token.keys)], FALSE,
                                     token.keys.pub = Nothing /\ host.pub # Nothing)
      BY <1>9 DEF TokenStores, LinkTypes
    <3>2. (token.keys.pub = Nothing /\ host.pub # Nothing) \in BOOLEAN OBVIOUS
    <3> QED BY <3>1, <3>2, Zenon
  <2>2. asked' = asked \ {l} /\ overtaken' = overtaken \ {l} /\ spent' = spent \ {l}
    BY <2>1, Zenon DEF Stores
  <2>3. UNCHANGED <<runs, worker, form>> BY <1>9 DEF TokenStores
  <2> QED BY <1>1, <2>2, <2>3
<1>10. ASSUME NEW l \in LinkIds, RevertToEnv(l) PROVE Awaited(m)'
  BY <1>1, <1>10 DEF RevertToEnv
<1>11. ASSUME NEW l \in LinkIds, UpgradeRow(l) PROVE Awaited(m)'
  <2>1. overtaken \subseteq overtaken' /\ UNCHANGED <<form, runs, worker, asked, spent>>
    BY <1>11 DEF UpgradeRow
  <2> QED BY <1>1, <2>1
<1>12. ASSUME NEW l \in LinkIds, QueueSync(l) PROVE Awaited(m)'
  <2>1. CreatesRun(l) /\ UNCHANGED <<worker, form, overtaken, spent, asked>>
    BY <1>12 DEF QueueSync
  <2>2. /\ Claimed(m) => Claimed(m)'
        /\ \A q \in Runs : ComesBy(q, m) => ComesBy(q, m)'
    BY <2>1, CreatedComes
  <2> QED BY <1>0, <2>1, <2>2 DEF Awaited
<1>13. ASSUME NEW r \in Runs, Claim(r) PROVE Awaited(m)'
  <2>1. /\ worker = Nothing /\ worker' = [run |-> r, at |-> "claimed"]
        /\ UNCHANGED <<form, asked, overtaken, spent>>
    BY <1>13 DEF Claim
  <2>2. worker' # Nothing BY <2>1, NothingAssumption DEF Jobs
  <2>3. /\ \A q \in Runs \ {r} : runs'[q] = runs[q]
        /\ runs'[r].link = runs[r].link
    <3> DEFINE n == IF Spent(r) THEN runs[r].attempts ELSE runs[r].attempts + 1
               row == [runs[r] EXCEPT !.status = "running", !.attempts = n]
    <3>1. runs' = [runs EXCEPT ![r] = row] BY <1>13 DEF Claim
    <3>2. runs[r] \in SyncRuns BY <1>13 DEF Claim, LinkTypes
    <3> HIDE DEF n
    <3>3. row.link = runs[r].link BY <3>2 DEF SyncRuns
    <3> HIDE DEF row
    <3> QED BY <3>1, <3>3 DEF LinkTypes
  <2>4. ASSUME NEW q \in Runs, ComesBy(q, m) PROVE ComesBy(q, m)' \/ Claimed(m)'
    <3>1. CASE q = r BY <2>1, <2>2, <2>3, <2>4, <3>1 DEF ComesBy, Claimed
    <3>2. CASE q # r BY <2>1, <2>3, <2>4, <3>2, StillComes
    <3> QED BY <3>1, <3>2
  <2>5. ~Claimed(m) BY <2>1 DEF Claimed
  <2> QED BY <1>0, <2>1, <2>4, <2>5 DEF Awaited
<1>14. CASE OpenPair
  <2> DEFINE l == runs[worker.run].link
             t == ResolveToken(link[l])
  <2>1. /\ asked' = IF t \in {NoToken, latest[l]} THEN asked \ {l} ELSE asked
        /\ spent' = spent \cap asked'
        /\ UNCHANGED <<form, overtaken, latest, link, host>>
    BY <1>14, Zenon DEF OpenPair
  <2>2. CASE m # l
    <3>1. /\ worker \in Jobs /\ worker.run \in Runs /\ worker # Nothing
          /\ runs[worker.run].status = "running"
      BY <1>14 DEF OpenPair, LinkTypes, Jobs, Working
    <3>2. \/ worker' = Nothing /\ runs' = [runs EXCEPT ![worker.run] = Finalised(worker.run)]
          \/ worker' = [worker EXCEPT !.at = "using"] /\ runs' = runs
      BY <1>14, Zenon DEF OpenPair
    <3>3. /\ \A q \in Runs \ {worker.run} : runs'[q] = runs[q]
          /\ worker' # Nothing => worker'.run = worker.run
      BY <3>1, <3>2 DEF LinkTypes, Jobs
    <3>4. \A q \in Runs : ComesBy(q, m) => q # worker.run BY <3>1 DEF ComesBy
    <3>5. \A q \in Runs : ComesBy(q, m) => ComesBy(q, m)'
      BY <3>1, <3>3, <3>4, StillComes
    <3>6. ~Claimed(m) BY <2>2 DEF Claimed
    <3> QED BY <1>0, <2>1, <3>5, <3>6 DEF Awaited
  <2>3. CASE m = l /\ l \in overtaken BY <2>1, <2>3 DEF Awaited
  <2>4. CASE m = l /\ l \notin overtaken
    <3>1. m \in asked /\ t # NoToken /\ t # latest[l] BY <2>1, <2>4
    <3>2. l \in Links /\ link[l].source = "stored" BY <2>4, <3>1 DEF Asking
    <3>3. link[l].blob # Nothing /\ link[l].blob.pair = latest[l] BY <2>4, <3>2 DEF LatestKept
    <3>4. t \in {latest[l], NoToken} BY <3>2, <3>3 DEF ResolveToken
    <3> QED BY <3>1, <3>4
  <2> QED BY <2>2, <2>3, <2>4
<1>15. CASE RunEnds
  <2>1. /\ worker # Nothing /\ worker.run \in Runs /\ worker.at = "using" /\ worker' = Nothing
        /\ runs[worker.run].status = "running"
        /\ UNCHANGED <<form, overtaken, spent, asked>>
    BY <1>15 DEF RunEnds, LinkTypes, Jobs, Working
  <2>2. \A q \in Runs \ {worker.run} : runs'[q] = runs[q]
    BY <1>15, <2>1 DEF RunEnds, LinkTypes
  <2>3. \A q \in Runs : ComesBy(q, m) => q # worker.run BY <2>1 DEF ComesBy
  <2>4. \A q \in Runs : ComesBy(q, m) => ComesBy(q, m)' BY <2>1, <2>2, <2>3, StillComes
  <2>5. ~Claimed(m) BY <2>1 DEF Claimed
  <2> QED BY <1>0, <2>1, <2>4, <2>5 DEF Awaited
<1>16. CASE WorkerDies
  <2>1. /\ worker # Nothing /\ worker.run \in Runs /\ worker' = Nothing /\ runs[worker.run] # Nothing
        /\ UNCHANGED <<form, runs, overtaken, asked>>
    BY <1>16 DEF WorkerDies, LinkTypes, Jobs, Working
  <2>2. spent' = IF worker.at = "claimed" /\ Spent(worker.run)
                 THEN spent \cup ({runs[worker.run].link} \cap asked) ELSE spent
    BY <1>16 DEF WorkerDies
  <2>3. \A q \in Runs : ComesBy(q, m) => ComesBy(q, m)' BY <2>1, StillComes
  <2>4. CASE Claimed(m) /\ Spent(worker.run)
    BY <2>1, <2>2, <2>4 DEF Claimed, Awaited
  <2>5. CASE Claimed(m) /\ ~Spent(worker.run)
    <3>1. PICK r \in Runs : r = worker.run BY <2>1
    <3>2. runs'[r] # Nothing /\ runs'[r].link = m /\ ~Spent(r)'
      BY <2>1, <2>5, <3>1 DEF Claimed, Spent
    <3>3. ComesBy(r, m)' BY <2>1, <3>2 DEF ComesBy
    <3> QED BY <3>3 DEF Awaited
  <2>6. CASE ~Claimed(m) BY <1>0, <2>1, <2>2, <2>3, <2>6 DEF Awaited
  <2> QED BY <2>4, <2>5, <2>6
<1>17. ASSUME NEW r \in Runs, ReapFlips(r) \/ ReapDecides(r) PROVE Awaited(m)'
  <2>1. /\ runs[r] # Nothing /\ runs[r] \in SyncRuns /\ UNCHANGED <<worker, form, overtaken, spent, asked>>
        /\ runs[r].status # "queued" /\ (worker # Nothing => worker.run # r)
    BY <1>17 DEF ReapFlips, ReapDecides, LinkTypes, Working
  <2>2. PICK row \in {[runs[r] EXCEPT !.status = "flipped"], Finalised(r), [runs[r] EXCEPT !.status = "queued"]} :
          runs' = [runs EXCEPT ![r] = row]
    BY <1>17 DEF ReapFlips, ReapDecides
  <2>3. ~Spent(r) => row # Nothing /\ row.link = runs[r].link /\ row.attempts = runs[r].attempts
    <3>1. CASE row = [runs[r] EXCEPT !.status = "flipped"]
      BY <2>1, <3>1, FinalisedTyped DEF SyncRuns
    <3>2. CASE row = [runs[r] EXCEPT !.status = "queued"]
      BY <2>1, <3>2, FinalisedTyped DEF SyncRuns
    <3>3. CASE row = Finalised(r) /\ ~Spent(r)
      BY <2>1, <3>3, FinalisedTyped DEF SyncRuns, Finalised
    <3> QED BY <2>2, <3>1, <3>2, <3>3
  <2>4. /\ \A q \in Runs \ {r} : runs'[q] = runs[q]
        /\ runs'[r] = row
    <3> HIDE DEF Finalised
    <3> QED BY <2>2 DEF LinkTypes
  <2>5. ASSUME NEW q \in Runs, ComesBy(q, m) PROVE ComesBy(q, m)'
    <3>1. CASE q = r
      <4>1. ~Spent(r) /\ runs[r].link = m BY <2>1, <2>5, <3>1 DEF ComesBy
      <4>2. runs'[r] # Nothing /\ runs'[r].link = m /\ runs'[r].attempts = runs[r].attempts
        BY <2>3, <2>4, <4>1
      <4> QED BY <2>1, <3>1, <4>1, <4>2 DEF ComesBy, Spent
    <3>2. CASE q # r BY <2>1, <2>4, <2>5, <3>2, StillComes
    <3> QED BY <3>1, <3>2
  <2>6. Claimed(m) => Claimed(m)' BY <2>1, <2>4 DEF Claimed, LinkTypes, Jobs
  <2> QED BY <1>0, <2>1, <2>5, <2>6 DEF Awaited
<1>18. ASSUME \/ \E k \in Keypairs : SetPublicKey(k) \/ SetPrivateKey(k)
              \/ RetireEncryptionKey \/ TokenAsks \/ TokenEnds \/ UpgradeReads \/ UpgradeEnds
              \/ UNCHANGED linkVars
       PROVE  Awaited(m)'
  BY <1>1, <1>18 DEF SetPublicKey, SetPrivateKey, RetireEncryptionKey, TokenAsks, TokenEnds,
     UpgradeReads, UpgradeEnds, linkVars
<1> QED BY <1>4, <1>5, <1>6, <1>7, <1>8, <1>9, <1>10, <1>11, <1>12, <1>13, <1>14, <1>15, <1>16,
           <1>17, <1>18 DEF LinkNext

-----------------------------------------------------------------------------
(* The old key can go *)

LEMMA SweptStays ==
  ASSUME Sweeping, KeyCanGo, UNCHANGED <<link, upgrade, swept, belated>>,
         host.pub # Nothing => host'.pub # Nothing
  PROVE  Sweeping' /\ KeyCanGo'
BY DEF Sweeping, KeyCanGo, OldLock, Links

\* A row that is written is locked with a public key, or noted as late once
\* there is one.
LEMMA StoresSwept ==
  ASSUME LinkTypes, Sweeping, KeyCanGo, NEW l \in LinkIds, NEW lock \in Keypairs \cup {"sym"},
         pasted < MaxPair, NEW heard \in BOOLEAN, NEW late \in BOOLEAN,
         Stores(l, [pair |-> pasted + 1, lock |-> lock], heard, late),
         UNCHANGED <<host, upgrade, swept>>,
         lock = "sym" => late \/ host.pub = Nothing
  PROVE  Sweeping' /\ KeyCanGo'
<1> DEFINE blob == [pair |-> pasted + 1, lock |-> lock]
           row == [source |-> "stored", blob |-> blob]
<1>1. row.blob = blob /\ blob.lock = lock OBVIOUS
<1>2. /\ link' = [link EXCEPT ![l] = row] /\ Links' = Links \cup {l}
      /\ belated' = IF late THEN belated \cup {l} ELSE belated \ {l}
  BY StoresType DEF Stores
<1> HIDE DEF blob, row
<1>3. link'[l] = row /\ \A q \in LinkIds \ {l} : link'[q] = link[q]
  BY <1>2 DEF LinkTypes
<1>4. host.pub # Nothing => (OldLock(l)' => l \in belated')
  BY <1>1, <1>2, <1>3 DEF OldLock
<1>5. \A q \in LinkIds \ {l} : /\ (OldLock(q)' <=> OldLock(q)) /\ (q \in belated' <=> q \in belated)
                               /\ (q \in Links' <=> q \in Links)
  BY <1>2, <1>3 DEF OldLock
<1>6. Sweeping' BY <1>4, <1>5 DEF Sweeping, Links
<1>7. KeyCanGo'
  <2> SUFFICES ASSUME swept, NEW q \in Links', OldLock(q)' PROVE q \in belated'
    BY DEF KeyCanGo, OldLock
  <2>1. CASE q = l BY <1>4, <2>1 DEF Sweeping
  <2>2. CASE q # l BY <1>5, <2>2 DEF KeyCanGo, OldLock, Links
  <2> QED BY <2>1, <2>2
<1> QED BY <1>6, <1>7

LEMMA SweepStep ==
  ASSUME TInv, Sweeping, KeyCanGo, [LinkNext]_linkVars PROVE Sweeping' /\ KeyCanGo'
<1> USE DEF TInv, pairVars, upgradeVars, runVars
<1>1. ASSUME NEW k \in Keypairs, SetPublicKey(k) \/ SetPrivateKey(k) PROVE Sweeping' /\ KeyCanGo'
  <2>1. host.pub # Nothing => host'.pub # Nothing
    BY <1>1, SomeLinks DEF SetPublicKey, SetPrivateKey, LinkTypes, Keys
  <2> QED BY <1>1, <2>1, SweptStays DEF SetPublicKey, SetPrivateKey
<1>2. CASE RetireEncryptionKey
  <2>1. host'.pub = host.pub BY <1>2 DEF RetireEncryptionKey, LinkTypes, Keys
  <2> QED BY <1>2, <2>1, SweptStays DEF RetireEncryptionKey
<1>3. ASSUME NEW f \in Forms, ConnectBank(f) \/ ReplaceBankTokens(f) PROVE Sweeping' /\ KeyCanGo'
  <2>1. CASE host.pub # Nothing
    <3>1. host.pub \in Keypairs /\ host.pub # "sym"
      BY <2>1, KeypairsAreKeypairs DEF LinkTypes, Keys
    <3>2. PICK l \in LinkIds : Stores(l, [pair |-> pasted + 1, lock |-> host.pub], TRUE, FALSE)
      BY <1>3, <2>1 DEF ConnectBank, ReplaceBankTokens, Sealed, Formed
    <3>3. pasted < MaxPair /\ UNCHANGED <<host, upgrade, swept>>
      BY <1>3 DEF ConnectBank, ReplaceBankTokens
    <3> QED BY <3>1, <3>2, <3>3, StoresSwept
  <2>2. CASE host.pub = Nothing
    BY <1>3, <2>2, SweptStays DEF ConnectBank, ReplaceBankTokens
  <2> QED BY <2>1, <2>2
<1>4. CASE TokenStores
  <2> DEFINE lock == CipherFields(token.keys)
             late == token.keys.pub = Nothing /\ host.pub # Nothing
  <2>1. PICK l \in LinkIds : Stores(l, [pair |-> pasted + 1, lock |-> lock], FALSE, late)
    BY <1>4 DEF TokenStores, LinkTypes
  <2>2. lock \in Keypairs \cup {"sym"} /\ late \in BOOLEAN
    BY <1>4, LockTyped DEF TokenStores, LinkTypes
  <2>3. lock = "sym" => late \/ host.pub = Nothing
    BY <1>4, KeypairsAreKeypairs DEF TokenStores, CipherFields, LinkTypes, Keys
  <2>4. pasted < MaxPair /\ UNCHANGED <<host, upgrade, swept>> BY <1>4 DEF TokenStores
  <2> HIDE DEF lock, late
  <2> QED BY <2>1, <2>2, <2>3, <2>4, StoresSwept
<1>5. ASSUME NEW l \in LinkIds, RevertToEnv(l) PROVE Sweeping' /\ KeyCanGo'
  <2> DEFINE row == [source |-> "env", blob |-> Nothing]
  <2>1. row.blob = Nothing OBVIOUS
  <2>2. /\ link' = [link EXCEPT ![l] = row] /\ belated' = belated \ {l} /\ l \in Links
        /\ UNCHANGED <<host, upgrade, swept>>
    BY <1>5 DEF RevertToEnv
  <2> HIDE DEF row
  <2>3. link'[l].blob = Nothing /\ \A q \in LinkIds \ {l} : link'[q] = link[q]
    BY <2>1, <2>2 DEF LinkTypes
  <2>4. \A q \in LinkIds : OldLock(q)' => OldLock(q) /\ q # l
    BY <2>3 DEF OldLock
  <2>5. Links' \subseteq Links BY <2>2, <2>3 DEF Links
  <2> QED BY <2>2, <2>4, <2>5 DEF Sweeping, KeyCanGo, OldLock, Links
<1>6. ASSUME NEW l \in LinkIds, UpgradeRow(l) PROVE Sweeping' /\ KeyCanGo'
  <2> DEFINE blob == Sealed(upgrade.keys, upgrade.seen[l].pair)
  <2>1. /\ upgrade \in [seen : [LinkIds -> Blobs \cup {Nothing}], keys : Keys] /\ l \in Links
        /\ upgrade.keys.pub \in Keypairs
        /\ UNCHANGED <<host, belated, swept>>
    BY <1>6 DEF UpgradeRow, Upgrading, LinkTypes
  <2>2. CASE upgrade' = Nothing /\ link' = link
    BY <2>1, <2>2 DEF Sweeping, KeyCanGo, OldLock, Links
  <2>3. CASE /\ link' = [link EXCEPT ![l].blob = blob]
             /\ upgrade' = [upgrade EXCEPT !.seen[l] = Nothing]
    <3>1. blob.lock # "sym" BY <2>1, KeypairsAreKeypairs DEF Sealed
    <3>2. link[l] \in Rows BY <2>1 DEF LinkTypes, Links
    <3> HIDE DEF blob
    <3>3. link'[l].blob = blob BY <2>1, <2>3, <3>2 DEF LinkTypes, Rows, Links
    <3>4. \A q \in LinkIds \ {l} : link'[q] = link[q] /\ upgrade'.seen[q] = upgrade.seen[q]
      BY <2>1, <2>3 DEF LinkTypes
    <3>5. ~OldLock(l)' BY <3>1, <3>3 DEF OldLock
    <3>6. ASSUME NEW q \in Links', OldLock(q)' PROVE q # l /\ q \in Links /\ OldLock(q) /\ upgrade'.seen[q] = upgrade.seen[q]
      BY <3>4, <3>5, <3>6 DEF OldLock, Links
    <3>7. upgrade # Nothing BY <1>6 DEF UpgradeRow
    <3>8. Sweeping' BY <2>1, <3>6, <3>7 DEF Sweeping
    <3>9. KeyCanGo'
      <4> SUFFICES ASSUME swept, NEW q \in Links', OldLock(q)' PROVE q \in belated'
        BY <2>1 DEF KeyCanGo, OldLock
      <4> QED BY <2>1, <3>6 DEF KeyCanGo, OldLock
    <3> QED BY <3>8, <3>9
  <2> QED BY <1>6, <2>2, <2>3 DEF UpgradeRow
<1>7. CASE UpgradeReads
  <2>1. /\ UNCHANGED <<link, host, swept, belated>> /\ host.pub # Nothing
        /\ upgrade'.seen = [l \in LinkIds |-> IF l \in Links /\ Pending(link[l].blob)
                                               THEN link[l].blob ELSE Nothing]
    BY <1>7 DEF UpgradeReads
  <2>2. \A l \in Links : OldLock(l) => upgrade'.seen[l] # Nothing
    BY <2>1 DEF OldLock, Pending, Links
  <2> QED BY <2>1, <2>2 DEF Sweeping, KeyCanGo, OldLock, Links
<1>8. CASE UpgradeEnds
  <2>1. /\ UNCHANGED <<link, host, belated>> /\ upgrade # Nothing /\ upgrade' = Nothing
        /\ swept' => swept \/ \A l \in LinkIds : upgrade.seen[l] = Nothing
    BY <1>8 DEF UpgradeEnds
  <2>2. Sweeping' BY <2>1 DEF Sweeping
  <2>3. KeyCanGo' BY <2>1 DEF Sweeping, KeyCanGo, OldLock, Links
  <2> QED BY <2>2, <2>3
<1>9. ASSUME \/ \E f \in Forms : OpenPage(f) \/ FormReads(f) \/ FormQueues(f) \/ FormEnds(f)
             \/ TokenAsks \/ TokenEnds
             \/ \E r \in Runs : Claim(r) \/ ReapFlips(r) \/ ReapDecides(r)
             \/ \E l \in LinkIds : QueueSync(l)
             \/ OpenPair \/ RunEnds \/ WorkerDies \/ UNCHANGED linkVars
      PROVE  Sweeping' /\ KeyCanGo'
  <2>1. UNCHANGED <<link, host, upgrade, swept, belated>>
    BY <1>9 DEF OpenPage, FormReads, FormQueues, FormEnds, TokenAsks, TokenEnds, Claim, ReapFlips,
       ReapDecides, QueueSync, OpenPair, RunEnds, WorkerDies, linkVars
  <2> QED BY <2>1, SweptStays
<1> QED BY <1>1, <1>2, <1>3, <1>4, <1>5, <1>6, <1>7, <1>8, <1>9 DEF LinkNext

-----------------------------------------------------------------------------
(* The theorems *)

LEMMA Initially == ASSUME LinkInit PROVE IInv
<1>1. link \in [LinkIds -> Rows \cup {Nothing}]
  BY DEF LinkInit, Rows
<1>2. \A l \in Links : link[l].source = "env"
  BY DEF LinkInit, Links
<1>3. LinkTypes
  <2>1. host \in Keys BY DEF LinkInit, Keys
  <2>2. form \in [Forms -> [at : {"idle", "page", "counted", "found", "saved"},
                           link : LinkIds \cup {Nothing}]]
    BY DEF LinkInit, Idle
  <2>3. runs \in [Runs -> SyncRuns \cup {Nothing}] /\ worker = Nothing BY DEF LinkInit
  <2>4. pasted \in 0..MaxPair /\ latest \in [LinkIds -> Pairs \cup {Nothing}]
    BY MaxPairIsNat DEF LinkInit
  <2>5. token = Nothing /\ upgrade = Nothing /\ swept = FALSE /\ asked = {} /\ overtaken = {}
        /\ spent = {} /\ belated = {}
    BY DEF LinkInit
  <2> QED BY <1>1, <2>1, <2>2, <2>3, <2>4, <2>5 DEF LinkTypes
<1>4. TInv
  BY <1>3 DEF LinkInit, TInv, Idle, Formed, Upgrading, Working
<1> QED BY <1>2, <1>4 DEF LinkInit, IInv, Asking, LatestKept, PairHeard, Sweeping, KeyCanGo

LEMMA Inductive == ASSUME IInv, [LinkNext]_linkVars PROVE IInv'
BY TypeStep, KeptStep, HeardStep, SweepStep DEF IInv

\* The types of every variable, for any number of links, forms and keys.
THEOREM LinksTyped == LinkSpec => []LinkTypes
<1>1. LinkInit => IInv BY Initially
<1>2. IInv /\ [LinkNext]_linkVars => IInv' BY Inductive
<1>3. IInv => LinkTypes BY DEF IInv, TInv
<1> QED BY <1>1, <1>2, <1>3, PTL DEF LinkSpec

\* A row that says "stored" holds the pair last stored there, whatever forms,
\* commands and upgrades overlapped, unless an upgrade came back to a row that
\* had been replaced since it read it (LatestKept).
THEOREM PairKept == LinkSpec => []LatestKept
<1>1. LinkInit => IInv BY Initially
<1>2. IInv /\ [LinkNext]_linkVars => IInv' BY Inductive
<1>3. IInv => LatestKept BY DEF IInv
<1> QED BY <1>1, <1>2, <1>3, PTL DEF LinkSpec

\* A pair pasted into the page has a run on its way to it until one has opened
\* it, however many submissions, syncs, deaths, retries and commands there are
\* and whatever number of tries a run has; unless an upgrade wrote over the pair
\* or the run was on its last try (PairHeard).
THEOREM PairsHeard == LinkSpec => []PairHeard
<1>1. LinkInit => IInv BY Initially
<1>2. IInv /\ [LinkNext]_linkVars => IInv' BY Inductive
<1>3. IInv => PairHeard BY DEF IInv
<1> QED BY <1>1, <1>2, <1>3, PTL DEF LinkSpec

\* Once an upgrade has gone through every row none is locked with the symmetric
\* key, and none ever is again, however many forms and commands were under way
\* and whatever becomes of the keys; but for what a command older than the
\* public key stored after it (KeyCanGo).
THEOREM KeyGoes == LinkSpec => []KeyCanGo
<1>1. LinkInit => IInv BY Initially
<1>2. IInv /\ [LinkNext]_linkVars => IInv' BY Inductive
<1>3. IInv => KeyCanGo BY DEF IInv
<1> QED BY <1>1, <1>2, <1>3, PTL DEF LinkSpec
=============================================================================
