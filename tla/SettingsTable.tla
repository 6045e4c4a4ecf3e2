----------------------------- MODULE SettingsTable -----------------------------
(***************************************************************************)
(* The settings that RuntimeSettings stores.                               *)
(***************************************************************************)
VARIABLE
  stored  \* the row "runtime" of settings, with DEFAULTS for what it lacks

\* _validate(allow_unconfigured=True): without an endpoint the rest of
\* CloudDriveConfig is not looked at.
Valid(s) == s.endpoint => s.password

\* SettingsService.update: what is stored has been validated as a whole.
\* Updates are validated against settings that may be gone when they are
\* written: yet no interleaving stores settings that do not go together.
StoredIsValid == Valid(stored)
==============================================================================
