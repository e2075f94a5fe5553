------------------------------ MODULE Settings ------------------------------
(***************************************************************************)
(* Radio configuration.  The library keeps a copy of the connected radio's *)
(* configuration; the code edits the copy in place, field by field, and    *)
(* then has the library write one section to the radio.                    *)
(*                                                                         *)
(* Two sections stand for all: a configuration section with a plain field, *)
(* an enumeration the library may not know the value of, and a write-only  *)
(* secret; and a channel with a name and a key.                            *)
(***************************************************************************)
EXTENDS Naturals, Sequences

Unknown == 9    \* an enumeration value newer than the library
Blank == 8      \* an empty text
Bad == 7        \* a text fromPSK refuses

Known == {0, 1}

Sections == {"config", "channel"}
FieldsOf(section) ==
    IF section = "config" THEN {"plain", "choice", "secret"} ELSE {"name", "key"}

\* _section and build_snapshot: secrets are not read into the page.
Shown(c) == [plain |-> c.plain, choice |-> c.choice, name |-> c.name]

\* _widget_for_field: a value the library does not know stays an item of its
\* own; a secret's control starts empty.
ChoiceItems(value) == Known \cup {value}
SectionForm(shown) == [plain |-> shown.plain, choice |-> shown.choice, secret |-> Blank]

\* _load_channel: the key's control starts empty.
ChannelForm(shown) == [name |-> shown.name, key |-> Blank]

\* What the page can ask for: its controls with the plain field or the name
\* edited, and perhaps the others.  It sends every editable field.
ChangesFor(shown, section) ==
    IF section = "config"
    THEN LET form == SectionForm(shown)
         IN  [plain: Known \ {form.plain}, choice: ChoiceItems(form.choice),
              secret: {form.secret, 1}]
    ELSE LET form == ChannelForm(shown)
         IN  [name: Known \ {form.name}, key: {form.key, 1, Bad}]

\* apply_section and update_channel check each value when its turn comes.
Refused(section, changes) ==
    IF section = "config" THEN changes.choice \notin Known ELSE changes.key = Bad

KeepsNothing(value) == FALSE

KeepsSecret(value) == value = Blank

\* The library's copy after the loop over the fields: up to the refused one.
Edited(copy, section, changes) ==
    IF section = "config"
    THEN IF Refused(section, changes)
         THEN [copy EXCEPT !.plain = changes.plain]
         ELSE [copy EXCEPT !.plain = changes.plain, !.choice = changes.choice,
                           !.secret = IF KeepsSecret(changes.secret) THEN @ ELSE changes.secret]
    ELSE [copy EXCEPT !.name = changes.name,
                      !.key = IF changes.key \in {Blank, Bad} THEN @ ELSE changes.key]

WriteSectionPlainOnly(config, copy, section) ==
    [f \in DOMAIN config |-> IF f \in FieldsOf(section) \ {"choice"} THEN copy[f] ELSE config[f]]

\* writeConfig and writeChannel: one section of the copy goes to the radio.
WriteSection(config, copy, section) ==
    [f \in DOMAIN config |-> IF f \in FieldsOf(section) THEN copy[f] ELSE config[f]]

\* restore_profile writes the channels before the configuration sections.
RestorePlan == <<"channel", "config">>
=============================================================================
