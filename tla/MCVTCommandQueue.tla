-------------------------- MODULE MCVTCommandQueue --------------------------
\* Threads that race for one value and another, with one fault each; and every
\* pair of calls, of every send_ function with arguments that differ in the low
\* byte, the high byte or the rest, queued while there is no session; and texts.
EXTENDS VTCommandQueue

Plan(calls) ==
    [left |-> [t \in Threads |-> IF t \in DOMAIN calls THEN calls[t] ELSE <<>>],
     terminal |-> TRUE,
     lost |-> 0, late |-> 0, refused |-> 0, unknown |-> 0, offline |-> 0]

Value(id, v) == send_change_numeric_value(id, v)
Racing ==
    {[app |-> <<Value(1, 1), Value(1, 2), Value(2, 3)>>, can |-> <<Value(1, 4)>>],
     [app |-> <<Value(1, 1), Value(1, 2)>>, can |-> <<send_execute_macro(1), send_execute_macro(1)>>]}
RacingPlans ==
    {[Plan(c) EXCEPT ![k] = 1] : c \in Racing,
        k \in {"lost", "late", "refused", "unknown", "offline"}}

\* Texts of which the third replaces the first, before the second.
TextPlans ==
    {[Plan([app |-> <<send_change_string_value(1, <<65>>), send_change_string_value(1, t),
                      send_change_string_value(1, <<66>>)>>]) EXCEPT !.offline = 1] :
        t \in {<<67>>, <<67, 68, 69, 70>>}}

Few == {0, 1}
Zooms == {<<0, 0, 128, 63>>, <<0, 0, 0, 64>>}
Texts == {<<65>>, <<66, 67>>, <<65, 66, 67, 68>>}

OneId(ids) ==
    UNION {{send_hide_show_object(i, v), send_enable_disable_object(i, v),
            send_select_input_object(i, v), send_change_background_colour(i, v),
            Value(i, v), send_change_active_mask(i, v), send_change_priority(i, v),
            send_execute_macro(i), send_execute_extended_macro(i),
            send_select_colour_map_or_palette(i), send_get_attribute_value(i, v),
            send_control_audio_signal(v, i), send_set_audio_volume(i), send_ESC,
            send_select_active_working_set(<<i % 256, v, 0, 0, 0, 0, 0, 160>>)} : i \in ids, v \in Few}
TwoArguments(ids) ==
    UNION {{send_change_child_location(i, p, 1, 1), send_change_child_position(i, p, 5, v),
            send_change_size_command(i, p, v), send_change_endpoint(i, p, p, v),
            send_change_font_attributes(i, v, 1, 1, 1), send_change_line_attributes(i, v, 1, p),
            send_change_fill_attributes(i, v, 1, p), send_change_softkey_mask(v, i, p),
            send_change_attribute(i, p % 256, v), send_change_list_item(i, v, p),
            send_lock_unlock_mask(v, i, p), send_change_object_label(i, p, v, p),
            send_change_polygon_point(i, v, p, p), send_change_polygon_scale(i, p, v)} :
           i \in ids, p \in {1, 257}, v \in Few}
Contexts(ids) ==
    UNION {{send_set_graphics_cursor(i, v, v), send_move_graphics_cursor(i, v, v),
            send_set_foreground_colour(i, v), send_set_background_colour(i, v),
            send_set_line_attributes_object_id(i, v), send_set_fill_attributes_object_id(i, v),
            send_set_font_attributes_object_id(i, v), send_erase_rectangle(i, v, v),
            send_draw_point(i, v, v), send_draw_line(i, v, v), send_draw_rectangle(i, v, v),
            send_draw_closed_ellipse(i, v, v), send_pan_viewport(i, v, v),
            send_change_viewport_size(i, v, v), send_draw_vt_object(i, v),
            send_copy_canvas_to_picture_graphic(i, v),
            send_copy_viewport_to_picture_graphic(i, v)} : i \in ids, v \in Few}
Longer(ids) ==
    UNION {{send_change_string_value(i, t), send_draw_text(i, 0, t)} : i \in ids, t \in Texts}
       \union UNION {{send_zoom_viewport(i, z), send_pan_and_zoom_viewport(i, 1, 1, z)} : i \in ids, z \in Zooms}
       \union {send_draw_polygon(i, [k \in 1..n |-> <<k, i>>]) : i \in ids, n \in {2, 5}}

EveryCall(ids) == OneId(ids) \union TwoArguments(ids) \union Contexts(ids) \union Longer(ids)
Pairs == {<<a, b>> \in EveryCall({1}) \X EveryCall({1, 2, 257}) : a.function = b.function}
PairPlans == {[Plan([app |-> p]) EXCEPT !.offline = 1, !.terminal = FALSE] : p \in Pairs}

MCPlans == RacingPlans \union TextPlans \union PairPlans
=============================================================================
