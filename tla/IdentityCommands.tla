-------------------------- MODULE IdentityCommands --------------------------
(***************************************************************************)
(* The commands about who uses the system: the onboarding of a user, the   *)
(* profile, workspaces and their invitations, the credentials of AI        *)
(* providers, the grants of MCP clients, notifications and conversations.  *)
(***************************************************************************)
EXTENDS CommandSteps

(* Profile *)

\* classifyBootstrap: create, or answer what is there; the profile, the personal
\* workspace and its membership are created together.
Bootstrap ==
  <<Ask("incomplete"), Ask("differentRequest"), Look("profile"),
    Is("profile", {"absent"}, "replayed"),
    Put("profile", {"absent"}, "present"), Insert("workspace"), Insert("membership")>>

PostOnboarding ==
  Endpoint({400}, Bootstrap, 201,
           [replayed |-> 200, differentRequest |-> 409, incomplete |-> 500])

GetProfile == Endpoint({}, <<Find("profile", "notFound")>>, 200, [notFound |-> 404])

UpdateProfile ==
  <<PutVersion("profile", {"present"}, Same, "header",
               [absent |-> "notFound", stale |-> "versionConflict"])>>

PatchProfile ==
  Endpoint({400, 412, 422}, UpdateProfile, 200,
           [notFound |-> 404, versionConflict |-> 412])

-----------------------------------------------------------------------------
(* Workspaces *)

\* The membership of the caller: not one, or suspended or without the role.
Manager == <<Ask("notFound"), Ask("forbidden")>>

CreateWorkspace ==
  <<Replay, Insert("workspace"), Insert("membership"), Record(201)>>

PostWorkspaces == Endpoint({400, 422}, CreateWorkspace, 201, [keyConflict |-> 409])

ReadWorkspace == Find("workspace", "notFound")

GetWorkspace ==
  Endpoint({400}, Manager \o <<ReadWorkspace>>, 200, [notFound |-> 404, forbidden |-> 403])

\* A row that is neither gone nor of another version was withheld from the caller.
UpdateWorkspace ==
  Manager \o
  <<ReadWorkspace, Match("workspace", "versionConflict"),
    Ask("baseCurrencyUnsupported"),
    PutVersion("workspace", {"shared", "personal"}, Same, "header",
               [absent |-> "notFound", stale |-> "versionConflict"])>>

PatchWorkspace ==
  Endpoint({400, 412, 422}, UpdateWorkspace, 200,
    [notFound |-> 404, forbidden |-> 403, versionConflict |-> 412,
     baseCurrencyUnsupported |-> 422])

DeleteWorkspace ==
  <<ReplayAny>> \o Manager \o
  <<ReadWorkspace, Is("workspace", {"shared"}, "unprocessable"),
    PutIf("workspace", {"shared"}, "absent",
          [absent |-> "notFound", personal |-> "unprocessable"]),
    Record(204)>>

DeleteWorkspaces ==
  Endpoint({400}, DeleteWorkspace, 204,
    [notFound |-> 404, forbidden |-> 403, unprocessable |-> 422, keyConflict |-> 409])

-----------------------------------------------------------------------------
(* Invitations: one that is pending, of an address *)

\* An expired invitation is revoked first; what the insert is refused for, it is
\* refused for under a savepoint, and the answer is recorded.
CreateInvitation ==
  <<ReplayAny>> \o Manager \o
  <<Ask("personalWorkspace"), Ask("existingMember"), Look("invitation"),
    Is("invitation", {"absent", "expired", "revoked"}, "alreadyPending"),
    Tidy("invitation", {"expired"}, "revoked"),
    Ask("forbidden"), Ask("notFound"), InsertSaved("invitation", "alreadyPending"),
    Record(201)>>

PostInvitations ==
  Endpoint({400, 422}, CreateInvitation, 201,
    [notFound |-> 404, forbidden |-> 403, personalWorkspace |-> 422,
     existingMember |-> 409, alreadyPending |-> 409, keyConflict |-> 409])

\* The update comes first, under row level security, which the two checks stand for.
RevokeInvitation ==
  <<ReplayAny>> \o Manager \o
  <<PutIf("invitation", {"pending", "expired"}, "revoked",
          [absent |-> "notFound", revoked |-> "notPending"]),
    Record(200)>>

PostInvitationRevoke ==
  Endpoint({400}, RevokeInvitation, 200,
    [notFound |-> 404, forbidden |-> 403, notPending |-> 409, keyConflict |-> 409])

-----------------------------------------------------------------------------
(* Credentials of AI providers *)

CreateCredential ==
  <<Ask("conflict"), Replay, InsertUnique("credential", "conflict"), Record(201)>>

PostCredentials ==
  Endpoint({403, 422}, CreateCredential, 201, [conflict |-> 409, keyConflict |-> 409])

\* prevent_ai_credential_deactivation_with_default; it looks only where the update
\* leaves "active".  A credential that was inactive already has no default model,
\* so that to look there as well takes the lock and finds nothing.
NotTheDefault ==
  <<LockOn("credential"), Look("defaultModel"),
    Throwing(Is("defaultModel", {"absent"}, "error"))>>

\* A request that deactivates the credential; the others end with the update.
UpdateCredential ==
  <<Replay, Throwing(Ask("conflict")),
    PutVersion("credential", {"active", "inactive"}, "inactive", "sent",
               [absent |-> "notFound", revoked |-> "precondition",
                stale |-> "precondition"])>>
  \o NotTheDefault \o <<Record(200)>>

PatchCredential ==
  Endpoint({403, 412, 422}, UpdateCredential, 200,
    [conflict |-> 409, keyConflict |-> 409, notFound |-> 404, precondition |-> 412,
     error |-> 500])

\* The default model that uses the credential is deleted first, and stays deleted
\* where the caller has lost the role before the update.
RevokeCredential ==
  <<Replay, Put("defaultModel", {"present"}, "absent"),
    PutIf("credential", {"active", "inactive"}, "revoked",
          [absent |-> "notFound", revoked |-> "notFound"])>>
  \o NotTheDefault \o <<Record(204)>>

DeleteCredential ==
  Endpoint({403, 404}, RevokeCredential, 204,
           [notFound |-> 404, keyConflict |-> 409, error |-> 500])

\* Faulty variant: the trigger reads the credential without its lock.
ActiveCredentialUnlocked ==
  <<Look("credential"), Throwing(Is("credential", {"active"}, "error"))>>

\* enforce_ai_default_active_credential
ActiveCredential ==
  <<LockOn("credential"), Look("credential"),
    Throwing(Is("credential", {"active"}, "error"))>>

\* Inserted where an active credential exists.
SetDefaultModel ==
  <<Replay, Look("credential"), Is("credential", {"active"}, "conflict"),
    Put("defaultModel", {"absent", "present"}, "present")>>
  \o ActiveCredential \o <<Record(204)>>

PutDefaultModel ==
  Endpoint({403, 422}, SetDefaultModel, 204,
           [conflict |-> 409, keyConflict |-> 409, error |-> 500])

-----------------------------------------------------------------------------
(* Grants, notifications, conversations *)

CreateMcpGrant ==
  <<Ask("forbidden"), Ask("invalid"), Replay, Insert("grant"), Record(201)>>

PostMcpGrants ==
  Endpoint({400, 422}, CreateMcpGrant, 201,
           [forbidden |-> 403, invalid |-> 422, keyConflict |-> 409])

\* A grant that has expired is refused as one that is revoked.
RevokeMcpGrant ==
  <<Replay, Find("grant", "notFound"), Is("grant", {"active"}, "conflict"),
    Ask("conflict"),
    PutIf("grant", {"active"}, "revoked", [absent |-> "conflict", revoked |-> "conflict"]),
    Record(204)>>

DeleteMcpGrant ==
  Endpoint({400}, RevokeMcpGrant, 204,
           [notFound |-> 404, conflict |-> 409, keyConflict |-> 409])

MarkNotificationRead ==
  <<Replay, PutIf("notification", {"present"}, Same, [absent |-> "notFound"]),
    Record(204)>>

PostNotificationRead ==
  Endpoint({400}, MarkNotificationRead, 204, [notFound |-> 404, keyConflict |-> 409])

CreateConversation ==
  <<Ask("forbidden"), Ask("invalid"), Replay, Insert("conversation"), Record(201)>>

PostConversations ==
  Endpoint({400, 422}, CreateConversation, 201,
           [forbidden |-> 403, invalid |-> 422, keyConflict |-> 409])

IdentityOperations ==
  [onboard              |-> PostOnboarding,
   getProfile           |-> GetProfile,
   updateProfile        |-> PatchProfile,
   createWorkspace      |-> PostWorkspaces,
   getWorkspace         |-> GetWorkspace,
   updateWorkspace      |-> PatchWorkspace,
   deleteWorkspace      |-> DeleteWorkspaces,
   createInvitation     |-> PostInvitations,
   revokeInvitation     |-> PostInvitationRevoke,
   createCredential     |-> PostCredentials,
   updateCredential     |-> PatchCredential,
   revokeCredential     |-> DeleteCredential,
   setDefaultModel      |-> PutDefaultModel,
   createMcpGrant       |-> PostMcpGrants,
   revokeMcpGrant       |-> DeleteMcpGrant,
   markNotificationRead |-> PostNotificationRead,
   createConversation   |-> PostConversations]
=============================================================================
