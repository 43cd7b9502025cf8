--------------------------- MODULE Configuration ----------------------------
(***************************************************************************)
(* What an installation is told of its vaults (internal/config): a         *)
(* configuration file, overridden by the environment.  A vault name is     *)
(* words glued by "-" or "_", in upper case or not; a variable is the      *)
(* words it is spelled with, so KNOWRAG_VAULT_MY_NOTES_PATH is             *)
(* <<"my", "notes", "path">>.  env maps the variables that are set to      *)
(* their values, "" among them.                                            *)
(***************************************************************************)
EXTENDS Naturals, Sequences, FiniteSets, Functions

CONSTANTS Names,                \* what a vault may be called
          Installations         \* [roster, env, file]: what there is to be loaded

(* A name of one word has nothing to be glued. *)
ASSUME ConfigurationAssumption ==
    /\ \A name \in Names :
        /\ name \in [words : Seq(STRING), glue : {"-", "_"}, upper : BOOLEAN]
        /\ Len(name.words) <= 1 => name.glue = "-"
    /\ \A i \in Installations :
        /\ i.roster # <<>> => i.roster[1] \subseteq Names
        /\ DOMAIN i.file \subseteq Names

NotGiven == <<>>       \* and <<S>> for a roster of S
Empty == ""

VaultFields == {[suffix |-> <<"path">>, required |-> TRUE],
                [suffix |-> <<"areas">>, required |-> TRUE],
                [suffix |-> <<"exclude", "folders">>, required |-> FALSE],
                [suffix |-> <<"exclude", "root", "files">>, required |-> FALSE]}

VaultEnv(name, f) == name.words \o f.suffix

NoSettings == [f \in VaultFields |-> Empty]

ValidateSlug(name) == ~name.upper /\ (Len(name.words) > 1 => name.glue = "-")

Given(env, var, otherwise) == IF var \in DOMAIN env THEN env[var] ELSE otherwise

(* The roster of the environment replaces that of the file, not its settings. *)
Roster(roster, file) == IF roster = NotGiven THEN DOMAIN file ELSE roster[1]

(* The last setting of a variable wins: the environment's, also when it is empty. *)
Vaults(roster, env, file) ==
    [name \in Roster(roster, file) |->
        LET fromFile == IF name \in DOMAIN file THEN file[name] ELSE NoSettings
        IN  [f \in VaultFields |-> Given(env, VaultEnv(name, f), fromFile[f])]]

(* Only the vaults of the file are looked at. *)
OrphansOfTheFile(roster, env, file) == ~(DOMAIN file \subseteq Roster(roster, file))

(* A setting of a vault that is not in the roster; none without a roster. *)
OrphanedVaultSettings(roster, env, file) ==
    /\ Roster(roster, file) # {}
    /\ \/ ~(DOMAIN file \subseteq Roster(roster, file))
       \/ \E var \in DOMAIN env :
            \A name \in Roster(roster, file), f \in VaultFields : var # VaultEnv(name, f)

Load(roster, env, file) ==
    IF OrphanedVaultSettings(roster, env, file)
    THEN [error |-> "orphans", vaults |-> <<>>]
    ELSE [error |-> "none", vaults |-> Vaults(roster, env, file)]

(* What a command asks of the vaults it was given; areas has the set each one's list splits into. *)
RequireVaults(vaults, names, areas) ==
    /\ vaults # <<>>
    /\ \A name \in names :
        /\ ValidateSlug(name) /\ name \in DOMAIN vaults
        /\ \A f \in VaultFields : f.required => vaults[name][f] # Empty
        /\ \A a \in areas[name] : ValidateSlug(a)

-----------------------------------------------------------------------------
VARIABLES installation, loaded

configVars == <<installation, loaded>>

Unset     == [roster |-> NotGiven, env |-> <<>>, file |-> <<>>]
NotLoaded == [error |-> "unread", vaults |-> <<>>]

ConfigInit == installation = Unset /\ loaded = NotLoaded

LoadConfig ==
    /\ loaded = NotLoaded
    /\ \E i \in Installations : installation' = i /\ loaded' = Load(i.roster, i.env, i.file)

(* The next process, on a host that may have been set up anew. *)
NextProcess ==
    /\ loaded # NotLoaded
    /\ installation' = Unset /\ loaded' = NotLoaded

ConfigNext == LoadConfig \/ NextProcess

ConfigSpec == ConfigInit /\ [][ConfigNext]_configVars

-----------------------------------------------------------------------------
NoAreas == [name \in Names |-> {}]

Readers(var) == {r \in (DOMAIN loaded.vaults) \X VaultFields : VaultEnv(r[1], r[2]) = var}
Usable(name) == RequireVaults(loaded.vaults, {name}, NoAreas)

(* Where vaults are configured, no setting of a vault is passed over: each
   variable that is set is what some vault uses, an empty one as well, and
   every vault of the file is in the roster; and no two vaults that a command
   may use read the same variable. *)
EachSettingHasOneVault ==
    loaded.error = "none" /\ Roster(installation.roster, installation.file) # {} =>
        /\ \A var \in DOMAIN installation.env :
            /\ Readers(var) # {}
            /\ \A r \in Readers(var) : loaded.vaults[r[1]][r[2]] = installation.env[var]
            /\ \A r, s \in Readers(var) : Usable(r[1]) /\ Usable(s[1]) => r = s
        /\ DOMAIN installation.file \subseteq DOMAIN loaded.vaults
=============================================================================
