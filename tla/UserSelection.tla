---------------------------- MODULE UserSelection ----------------------------
(***************************************************************************)
(* Which users jobbermaster serves: the preferences file and the checks of *)
(* a user's account.  A pattern stands as the set of the names it matches; *)
(* Blank is a field that is not given.  An account is a record of the name,*)
(* the home directory, whether that is given as an absolute path and is    *)
(* owned by the user, and whether the user is hidden: on darwin, one whose *)
(* name starts with "_"; elsewhere, nobody is.                             *)
(***************************************************************************)
EXTENDS Sequences

Blank == {}
NoHome == "no home"   \* the field is empty or /dev/null

\* loadPrefs: jobber.conf is read, has not both lists, and has no malformed
\* pattern.  Without a file nothing is loaded either.
PrefsLoad(file) ==
  /\ file.exists /\ file.wellFormed
  /\ file.include = <<>> \/ file.exclude = <<>>

\* UserSpec.matches: what is not given matches anything.
Matches(spec, account) ==
  /\ spec.username # Blank => account.name \in spec.username
  /\ spec.home # Blank => account.home \in spec.home

SomeMatches(specs, account) == \E i \in DOMAIN specs : Matches(specs[i], account)

\* Mutant: the two answers are exchanged.
ListAllowsInverted(specs, account, includeIfMatch) ==
  IF SomeMatches(specs, account) THEN ~includeIfMatch ELSE includeIfMatch

\* prefs._jobberShouldRunForUser: the first entry that matches decides.
ListAllows(specs, account, includeIfMatch) ==
  IF SomeMatches(specs, account) THEN includeIfMatch ELSE ~includeIfMatch

\* prefs.jobberShouldRunForUser
PrefsAllow(file, account) ==
  \/ file.include # <<>> /\ ListAllows(file.include, account, TRUE)
  \/ file.include = <<>> /\ file.exclude # <<>> /\ ListAllows(file.exclude, account, FALSE)
  \/ file.include = <<>> /\ file.exclude = <<>>

\* userHasHome, where a home directory that cannot be opened is not owned.
UserHasHome(account) ==
  account.home # NoHome /\ account.absolute /\ account.owned

\* shouldRunForUser_platform
ShouldRunForUserPlatform(account) == ~account.hidden

ShouldRunForUser(file, account) ==
  /\ PrefsAllow(file, account)
  /\ UserHasHome(account)
  /\ ShouldRunForUserPlatform(account)

=============================================================================
