# TLA+ models of the Zulip web client's bot store, bot settings page, compose box and recipient box

This directory holds TLA+ models of parts of the Zulip web client (`src/static/js`). The models are checked with TLC. Each module is translated from the JavaScript source. `PROJECT.json` records which definition models which lines.

## The system

The repository snapshot contains three implementation files and two frontend tests.

| File | What it does | Interacts with |
|---|---|---|
| `static/js/bot_data.js` | The client-side store of the realm's bots and their outgoing services (`bots`, `bot_services`). It provides `add`, `deactivate`, `update`, `add_bot_service(s)`, `update_bot_service` and `initialize`. Every mutation calls `send_change_event`, a 50 ms trailing `_.debounce` of `$(document).trigger('zulip.bot_data_changed')`. `set_can_admin` caches on each bot whether the user may administer it. | The settings page listens for the trigger and re-renders from `get_all_bots_for_current_user`. Server events call the mutators. |
| `static/js/composebox_typeahead.js` | The compose form's keyboard handling: `handle_keydown`/`handle_keyup` with the module variable `nextFocus`, Enter-to-send, and the `#enter_sends` checkbox. It also holds the typeaheads: the content box's completion source (`tokenize_compose_str`, `compose_content_begins_typeahead`), its updater (`content_typeahead_selected`), the matchers and sorters, `seen_topics`, and the stream, subject and recipient typeaheads. | The bootstrap typeahead plugin calls `source` and `updater` on keyup and stores `this.query`, `this.completing` and `this.token` on itself. `compose.finish` sends the message. |
| `static/js/settings_outgoing_services.js` | The outgoing-service bot settings page. It has the API-key form, the create-bot form, the delete and reactivate buttons, and the edit-bot form, which sends an asynchronous PATCH. | Reads `bot_data`. Posts to the server with `channel`. |
| `frontend_tests/node_tests/bot_data.js`, `activity.js` | Unit tests. The implementation of `activity.js` is not in this repository. | — |

## Modules

### `BotData` (bot_data.js) — modelled

**State.**
- `bots`: email ↦ `[owner, is_active, can_admin]`.
- `bot_services`: email ↦ an opaque service value.
- `is_admin`: `page_params.is_admin`.
- `pending`: a debounced trigger is scheduled.
- `rendered`: what the listener last drew.
- `initialized`.
- An operation counter, `events`.

**Actions.** One action per exported mutator: `Initialize`, `Add`, `AddBotService`, `Deactivate`, `Update` and `UpdateBotService`. `Initialize` is `initialize` running `add` and `add_bot_services` over the page params.

Every mutator ends by setting `pending`, which stands for `send_change_event`. `FireChangeEvent` is the debounced trigger together with the listener's re-render.

**Edge cases kept from the code.**
- `deactivate` and `update` on an unknown email throw a TypeError before any change, so these actions are disabled on unknown emails.
- `update_bot_service` on an unknown email silently does nothing (`_.extend(undefined, …)`) and still fires the event.

**Environment.** `SetIsAdmin` stands for a realm_user event changing `page_params.is_admin`.

**Data abstraction.** Of `bot_fields`, only `owner` and `is_active` are kept. The other fields are copied verbatim and never read.

### `ComposeKeys` (handle_keydown, handle_keyup, `#enter_sends`) — partly modelled

**State.**
- `mode`: stream or private compose.
- `focus`.
- The keys `held`.
- `nextFocus`.
- The `shown` flag of each typeahead menu.
- `enter_sends`.
- The send button's `disabled` attribute.
- `in_flight`: `compose.finish` calls not yet completed.

**Actions.**
- `HandleKeydown(k)` is the whole of `handle_keydown` for Enter and Tab:
  - the `nextFocus` chain;
  - the immediate focus move when no menu is shown;
  - the send branch with its disabled check;
  - the browser's default action when `preventDefault` was not called.
- `HandleKeydownShiftTab`: Shift-Tab is ignored by the handler and moves focus back.
- `HandleKeyup(k)` is the key release as the handlers see it. The focused field's typeahead gets the keyup first: the form-level handlers are bound "so that they are called after typeahead". On Tab or Enter with that field's menu shown, the plugin selects and hides the menu, without looking at Shift. Then `handle_keyup` moves focus if `nextFocus` is set.
- `ClickEnterSends` is the checkbox click handler.

**Environment.** Keyboard, mouse, the typeahead plugin opening menus and hiding them on Escape, a click or a blur, and `compose.js` completing a send.

**Not modelled.** `select_on_focus`.

### `ComposeTokens` (content-box completion source) — modelled as pure operators

`ComposeSelect` takes these operators through `EXTENDS`. (TLC's coverage mode fails on a RECURSIVE operator reached through `INSTANCE`, so the helpers are a module of their own.)
- `TokenizeComposeStr` is the backward `while` loop, written as the RECURSIVE operator `Scan`. It keeps the 25-character window as `TokenWindow` and JavaScript's 0-based indices (`At`, `Slice`).
- `BeginsTypeahead` is `compose_content_begins_typeahead`, with one operator per branch (`SyntaxLookup`, `EmojiLookup`, `MentionLookup`, `StreamLookup`). All four completions are enabled, as for `#new_message_content`.

### `ComposeSelect` (content_typeahead_selected) — modelled with its lookup

**State.** The box, split at the caret into `before` and `after`. The typeahead's `query`, `completing`, `token` and whether its menu is `active`. `down` counts the keys whose keyup has not arrived.

**Actions.**
- `KeyDown(c)` and `KeyDownBackspace` edit the box at the caret.
- `KeyUp` is the plugin's lookup. It stores the whole value as `this.query` and calls the source, `BeginsTypeahead` from `ComposeTokens`. `Lookup` gives the outcome:
  - an empty box hides the menu;
  - a token sets `completing` and `token`, and the menu shows what the matcher keeps of the items; the items are abstract, so it may keep none;
  - `false` leaves `completing` and `token` as an earlier lookup set them, as the code does. The menu is hidden if `HideOnFalsySource` and otherwise left as it was.

  The plugin is not in this repository. Bootstrap's stock lookup returns on a falsy source without touching the menu, which is `HideOnFalsySource = FALSE`. A plugin that hides the menu then is `TRUE`.
- `Select` is Enter, Tab or a click on the shown menu. It calls `ContentTypeaheadSelected` on `this.query` split at the current caret (`SplitAtCursor`), and writes the result back into the box.

`ContentTypeaheadSelected` keeps the four branches of the code, using JavaScript's `substring` (clamping and swapping), `charAt`, `lastIndexOf` and `trim`. Every completion item is `"N"`.

`Rollover` says whether a key may still be down when another key's keyup selects.

`InBounds` bounds the text before the caret: up to `MaxLen` characters of the full alphabet, or up to `FenceLen` characters drawn only from `FenceAlphabet` (the code-fence texts need more room than the others).

### `SeenTopics` (seen_topics, add_topic, topics_seen_for, the subject typeahead) — modelled

**State.** `seen_topics` is a Dict from lower-cased stream to a Dict from lower-cased topic to the first spelling. A history `added` records every call.

**Actions.** `AddTopic` is the only mutator. `TopicsSeenFor` is an operator: `Range` of the stream's Dict, sorted by `JsLess`, which is the code-unit order of `Array.prototype.sort`. Strings are tuples of characters, with `LowerChar` and `CodeUnit` given in `MCSeenTopics`.

**Subject typeahead (not checked).** `SubjectMenus(stream, query)` is the set of menus the `#subject` typeahead can show. Its source is `topics_seen_for` of the stream box's text. The plugin drops the menu for an empty query and keeps the items that contain the query ignoring case (`SubjectMatcher`). Then `SubjectSorter` puts the typed text first unless `indexOf` finds it, and the plugin shows the first three. `typeahead_helper.sorter` is not in this repository, so every order of the items is checked (`SetToSeqs`). The menu is an operator over the state, not a variable: it is recomputed at every key-up. No run checks a property of it. What it shows follows from its definition, and nothing in the repository says whether two case variants of a topic may both be offered (see "Not modelled").

**Reference definition.** `FirstSpellings` is the same answer computed from the history alone.

### `BotSettings` (settings_outgoing_services.js) — partly modelled

**State.**
- The server's bot names (`server_name`) and each row's shown name (`row_name`).
- The avatar versions (`avatar_v`, `image_version`).
- The bots and services lists and which of them are shown (`active_rows`, `inactive_rows`, `service_rows`, `lists_shown`, `tab`).
- The shared edit form: `form_email`, `form_name`, and the jQuery `validator`, which holds the email of the first bot it was created for.
- The bound cancel handlers (`resets`).
- The in-flight requests: `patches`, `dels` and `reacts`.
- The shared `edit_button` and the error boxes.
- `last_render`, a history variable: the service data of the last render.

**Actions.**
- `OpenEditBotForm(e)`. A second `form.validate` returns the first validator, so its `submitHandler` closure keeps the first bot.
- `EditName`, `ResetEditBot` and `SubmitHandler`.
- `ServerPatch(p, ok)` is the server applying or rejecting a PATCH, separately from the response being delivered.
- `PatchSuccess` and `PatchError`, for responses delivered in any order.
- `DeleteBot` and `DeleteResponse`; `ReactivateBot` and `ReactivateResponse`.
- `RenderServices` (with `AddServiceRows`) on `zulip.service_data_changed`.
- `CreateService` and `ClickTab`.

### `SettingsApiKey` (the API-key box flow) — modelled

**State.** `shown`: which of the button, the password prompt and the key box is visible. Also the key text, the password, the status box, the requests in flight, and `password_auth`.

**Actions.** `ClickApiKeyButton`, `TypePassword`, `SubmitPrompt`, `KeySuccess` and `KeyError`. Submits are bounded by `MaxSubmits`.

### `PmRecipients` (the private-message recipient box) — modelled

**State.** The box's `value`, the typeahead's `this.query`, and `cands`, the people the open menu offers (`{}` when it is hidden).

**Helpers.**
- `ExtractPmRecipients` stands for `util.extract_pm_recipients`, and `GetCleanedPmRecipients` for `typeahead_helper.get_cleaned_pm_recipients`. Neither is in this repository. Both are taken to split on `/\s*[,;]\s*/` and keep the pieces that are not blank (`SplitAtSeparators`, `SplitRecipients`, `IsBlank`).
- `JoinRecipients` is `join(", ")`.
- `QueryMatchesPerson` is `query_matches_person`: a lower-cased substring of the email or the full name.
- `Matcher` is the typeahead's matcher, including `get_last_recipient_in_pm` and the `indexOf` exclusion of people already listed. `Updater` is the updater: pop the last cleaned recipient, join the rest, add `", "` if any remain, then the email and `", "`.

**Actions.**
- `Type(c)` and `Backspace` edit the box. Each ends in the plugin's key-up lookup (`Lookup`): `this.query` becomes the value and the menu offers what the matcher accepts.
- `Select(p)` is Enter, Tab or a click on the menu. It writes `Updater(query, p)` and hides the menu.
- `Blur` is the box's blur handler. It rewrites the value as its cleaned recipients joined by `", "`. The plugin hides the menu only after a delay, so a click on the menu can select after the blur.
- `Hide` is that delayed hide, or Escape.

People are model values with an `Email` and a `FullName`. The sorter only orders the menu and is left out.

## Runs

| Run | cfg | Expect | Checks | What it shows |
|---|---|---|---|---|
| `bot_data` | `MCBotData.cfg` | pass | `TypeOK`, `EditableImpliesCanAdmin`, `ViewConverges` | See [bot_data](#bot_data). |
| `compose_keys` | `ComposeKeys_send.cfg` | pass | `TypeOK` | Every interleaving of Enter, Tab, Shift and Ctrl, clicks, menus and send completions, in both compose modes, keeps the handlers' state well-formed. |
| `compose_select` | `ComposeSelect.cfg` | pass | `TypeOK`, `SelectionKeepsText`, `EmojiSpaced`, `ClosingFenceMatches` | See [compose_select](#compose_select). |
| `compose_select_rollover` | `ComposeSelect_rollover.cfg` | violation | `SelectionKeepsText` | See [compose_select_rollover](#compose_select_rollover). |
| `compose_select_stale` | `ComposeSelect_stale.cfg` | violation | `SelectionKeepsText` | See [compose_select_stale](#compose_select_stale). |
| `seen_topics` | `MCSeenTopics.cfg` | pass | `TypeOK`, `TopicsSeenForMatchesHistory` | After any five `add_topic` calls, `topics_seen_for`, under any spelling of the stream, lists the first spelling of each topic once, in code-unit order. |
| `settings_edit` | `MCBotSettings.cfg` | pass | `TypeOK` | Every interleaving of edit-form opens, submits, cancels, PATCH answers, deletes, reactivations, renders and tab switches keeps the page well-formed, and the avatar image version never lags a changed avatar. |
| `settings_stale_validator` | `BotSettings_names.cfg` | violation | `NamesMatchServer` | See [settings_stale_validator](#settings_stale_validator). |
| `settings_render` | `BotSettings_render.cfg` | violation | `ListsShowServiceData` | See [settings_render](#settings_render). |
| `settings_api_key` | `SettingsApiKey.cfg` | pass | `TypeOK`, `OneApiKeyBox` | After any sequence of clicks, submits and answers, exactly one of the three boxes is shown when nothing is in flight, and a shown key box has a key. |
| `pm_recipients` | `PmRecipients.cfg` | pass | `TypeOK`, `SelectionAddsOnce`, `BlurKeepsRecipients` | See [pm_recipients](#pm_recipients). |
| `pm_recipients_comma` | `PmRecipients_comma.cfg` | violation | `RecipientsKept` | See [pm_recipients_comma](#pm_recipients_comma). |

### bot_data

Two properties hold under every interleaving of store operations, admin changes and debounced triggers:
- A bot that `get_editable` offers has `can_admin` set, because `update` recomputes it after an owner change.
- Once operations stop, the rendered list equals the store. The debounce loses no change.

### compose_select

This run has one key down at a time, and a plugin that hides the menu when the source returns false. It covers every text of up to four characters before the caret, and every code-fence text of up to five. It shows three things:
- Choosing a completion keeps everything before the token, and everything after the caret (`SelectionKeepsText`).
- An inserted emoji starts the text or follows a space or newline (`EmojiSpaced`). This holds even when `lastIndexOf(':')` finds a colon inside the token.
- A code-block completion at the end of the box closes with the opening fence: at the start of the box, after a newline, with a space before the language or not (`ClosingFenceMatches`).

### compose_select_rollover

With key rollover, the updater overwrites a character that is in the box. `content_typeahead_selected` splits `this.query`, which is the value at the last lookup, at the caret as it is now. TLC's counterexample:
1. Type `@`, then `(`.
2. The keyup's lookup stores `@(` and offers a mention for the token `(`.
3. `#` goes down before Enter's keyup selects.
4. The box becomes `@**N** `, and the `#` is gone.

### compose_select_stale

This run uses Bootstrap's stock lookup, which leaves the menu shown when the source returns false. Each key is released before the next is pressed. `compose_content_begins_typeahead` returns `false` without clearing `this.completing` and `this.token`, and `content_typeahead_selected` cuts `token.length + 1` characters before the caret. TLC's counterexample:
1. Type `#`, then `(`. The lookup offers a stream for the token `(`.
2. Type `#`. The token is a bare `#`, the source returns `false` (line 298), and the menu stays shown.
3. Enter selects. The updater cuts two characters, `(#`, and the box becomes `##**N** `: the typed text is lost and a stray `#` stays.

The same updater is correct in `compose_select`, where the plugin hides the menu on `false`. So the code is right only if the plugin hides the menu then, and the plugin is not in this repository.

### settings_stale_validator

The edit form is shared, and `form.validate` returns the validator created the first time. TLC's counterexample:
1. Open the edit form of bot `a`.
2. Open the edit form of bot `b` and submit.
3. The PATCH goes to `b`'s URL (read from the form), but the success callback writes the new name into `a`'s row.

The same property also covers a second hazard (line 265). Two PATCHes of one bot can be in flight together, and their success callbacks each write the name they sent, in whatever order the responses arrive.

### settings_render

`render_services` empties the bots lists but appends to the services lists. A second `zulip.service_data_changed` event duplicates every service row.

### pm_recipients

Under every interleaving of typing, selecting, blurring and hiding, over texts of up to six characters:
- A selection leaves the chosen email in the box exactly once (`SelectionAddsOnce`). This needs the matcher's exclusion, evaluated at the key-up that opened the menu, and the updater's split, pop and join of the same query to agree. It also holds when a blur rewrote the box between the key-up and a click on the menu.
- The blur rewrite keeps the recipient list exactly, in order (`BlurKeepsRecipients`).

### pm_recipients_comma

The matcher's comment says that after just a comma there is no current recipient. But `get_last_recipient_in_pm` returns the last piece that is not blank, so after `a,` the completed `a` is still taken as the recipient being typed. TLC's counterexample:
1. Type `a`. The menu offers pb, whose full name `Ba` contains `a` (pa, email `a`, is excluded as already listed).
2. Type `,`. The menu still offers pb.
3. Select pb. The updater pops `a`, so the box becomes `b, `, and the completed recipient `a` is gone.

## Bounds and why they are enough

### MCBotData

- **Emails and users.** Two emails and two users, one of whom is the current user. This gives bots of the current user, bots of another user, and owner changes between them.
- **Services.** Two service values.
- **Operations.** `MaxEvents = 3` operations after `initialize`. Three operations is enough for an owner change followed by an `is_admin` change, or for several coalesced changes before one trigger.
- **Deadlock.** `CHECK_DEADLOCK FALSE`. The store really is idle once no bot event arrives.

### ComposeKeys

The model is finite by construction: the keys are Enter, Tab, Shift and Ctrl, and the form has five elements. `in_flight` never exceeds one, because the disabled button guards the send.

### ComposeSelect

- **`ComposeSelect.cfg`.**
  - The alphabet is `@ # : `` ` `` space newline ( a`: every sigil, one fence character (`~` takes the same paths as the backquote), boundaries, and `(`, a character that is neither a boundary nor a space. `(` before a `:` is the only way to reach the emoji branch that adds a space.
  - `MaxLen = 4` for any text. Code-fence texts over the backquote, space, newline and a letter may reach `FenceLen = 5`: enough for a fence, a space and a language, where `backticks - 4` matters.
  - `TokenWindow = 3`, scaled down from 25, so that texts reach past the window and exercise the `min_i` cut-off.
  - `after` is empty or one letter, so both the end-of-box and the mid-box paths run.
  - `Select` is guarded by `InBounds(before)`. An emoji token holding a `:` can be completed again and again, growing by one space each time.
- **`ComposeSelect_rollover.cfg`.** Two keys may be down at once, with the real 25-character window and no fence texts.
- **`ComposeSelect_stale.cfg`.** The same texts, one key at a time, with `HideOnFalsySource = FALSE`.

### SeenTopics

- Three stream spellings (`D`, `d`, `e`).
- Four topic spellings (`F`, `f`, `b`, `fF`). Code-unit order puts `F` before `b`, while case-insensitive order puts it after.
- Up to five calls. This is enough for a case variant to arrive before or after the first spelling, under either stream spelling.

### PmRecipients

- Two people: pa with email `a` and full name `a`, and pb with email `b` and full name `Ba`. A query `a` matches both, so the exclusion of a listed email and a match through the full name both happen.
- The typed alphabet is `a A , space`. `A` makes a query differ in case from the email it matches. `;` takes the same paths as `,`.
- Texts of up to six characters (`MaxLen = 6`), enough for two recipients with separators and blanks. The updater's result is not bounded, but it is at most the query plus three characters.
- The model is finite without other bounds. Typing always stays possible by deleting, so there is no deadlock.

### BotSettings and SettingsApiKey

- **BotSettings.**
  - Two bot emails, two names, one service.
  - `MaxOps = 4` user clicks, enough for two edits in flight together with a cancel or a delete.
  - The violation runs use three clicks and one or two emails.
- **SettingsApiKey.** `MaxSubmits = 5` submits of the password prompt.
- **Deadlock.** Both modules use `CHECK_DEADLOCK FALSE`, because the page is idle once the user stops.

## Fairness

`BotData` assumes weak fairness of `FireChangeEvent` only. A scheduled timer callback runs once the current handler returns. The model's operations are bounded, so the debounce is not postponed forever. Starvation by an endless stream of events is listed as a hazard and is not checked.

The compose, recipient-box and settings modules state safety properties only and assume no fairness: a user may stop typing or clicking at any point.

## Mutants

Every property of a passing run has a mutant in `PROJECT.json`. A mutant is a "Regression variant" operator defined just before the definition it replaces, and TLC finds the property violated once the mutant is substituted.

| Mutant | What it breaks |
|---|---|
| A `bot_fields` without `is_active` | `TypeOK` |
| An `update` that keeps the old `can_admin` | `EditableImpliesCanAdmin` |
| A `deactivate` that forgets the change event | `ViewConverges` |
| A `nextFocus` chain that names the recipient box itself | `TypeOK` |
| A lookup that clears `completing` to `''` in `ComposeSelect` | `TypeOK` |
| A split that takes the whole `this.query` as the text before the caret | `SelectionKeepsText` |
| An emoji branch that never adds the leading space | `EmojiSpaced` |
| A closing fence taken from three characters back instead of four | `ClosingFenceMatches` |
| A stream Dict keyed by the stream name as given | `TypeOK` (`SeenTopics`) |
| An `add_topic` that overwrites the stored spelling | `TopicsSeenForMatchesHistory` |
| A PATCH success that does not bump the avatar version | `TypeOK` (`BotSettings`) |
| A key success that shows the whole result object | `TypeOK` (`SettingsApiKey`) |
| A key success that leaves the password prompt shown | `OneApiKeyBox` |
| Recipients joined with `"; "` | `TypeOK` (`PmRecipients`) |
| A matcher without the exclusion of listed emails | `SelectionAddsOnce` |
| A blur handler that joins with a space | `BlurKeepsRecipients` |

## Not modelled, and why

- **Not in this repository.** The `activity.js` implementation, people.js, compose.js, the typeahead plugin and the server. `people.is_current_user` is modelled as equality with a constant.
- **Pure rendering and I/O.** `content_highlighter`, templates, fades, and the POST of `enter_sends`.
- **The tests.** They are used as statements of intent only.
- **In `settings_outgoing_services.js`.**
  - The `is_local_part` validator method. It is registered, but no field of this file uses it.
  - The visibility of rows and spinners, which no property reads.
- **The content-box matchers and sorters** (`query_matches_language`, `query_matches_stream`, `query_matches_emoji`, `compose_content_matcher`, `compose_matches_sorter`). They only filter and order candidates, and `ComposeSelect` abstracts candidates to a single item. `query_matches_person` is modelled, in `PmRecipients`.
- **The `#stream` typeahead in `initialize`.** Its source is `stream_data`, which is not in this repository, and its matcher is a prefix test that only filters. The `#subject` typeahead is modelled, in `SeenTopics`.
- **Case of topics in the subject menu.** The subject sorter's `indexOf` compares exactly, so typing `F` where `f` is stored offers both. No property says whether two spellings of a topic are one topic; that is the server's decision.
- **The stale delete error.** `#bot_delete_error` is shown by any failed DELETE or reactivate and hidden by nothing, so after a retried delete succeeds the earlier error stays. `BotSettings` models this (`delete_error` is never reset), but no run checks it: the project's runs are all in use for the findings above.
- **Properties left out because they restate the code.** These are: the send button's disabled guard (at most one `compose.finish` in flight); the edit button shown again by both PATCH callbacks; the listener's render of the store as a refinement of an abstract store; a declarative tokenizer; and the subject menu's shape. Each would hold because of how its definition is written, whatever the code does.
- **`nextFocus` consumed by another key.** A Tab released with Shift held is ignored by `handle_keyup`, so `nextFocus` stays set for a later release. `ComposeKeys` models this, but no comment or test says which key's release must consume `nextFocus`, so no run checks it.
- **`select_on_focus`.** A synchronous re-entrancy flag around `select()`; it changes only the text selection, which no model tracks.
- **Assumed helpers.** `util.extract_pm_recipients` and `typeahead_helper.get_cleaned_pm_recipients` are not in this repository. `PmRecipients` models them as splitting on `/\s*[,;]\s*/` and dropping blank pieces.
- **Case of emails.** The recipient matcher's `indexOf` compares exactly, so `A, ` does not exclude the person whose email is `a`. No property says whether two spellings of one email are one recipient; that is the server's decision.
- **Debounce starvation.** `ViewConverges` is checked with a bounded number of store operations. An endless stream of bot events less than 50 ms apart would postpone the trigger forever, and the model has no clock.

## Plan for later work

1. A violation run for the subject menu offering two case variants of one topic, and one for the stale delete error, if a run slot is freed.
2. The typeahead plugin's source, if it is added to the repository, to settle `HideOnFalsySource`.
3. A composition of `ComposeKeys` and `ComposeSelect`: Enter selecting a completion while `nextFocus` and the send path race.
4. Larger instances of `BotSettings`, with more emails and a delete racing an edit.
